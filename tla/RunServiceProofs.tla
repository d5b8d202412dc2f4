-------------------------- MODULE RunServiceProofs --------------------------
(***************************************************************************)
(* Theorems about RunService for every number of calls, workers and queue    *)
(* slots: type correctness, the inductive invariant Inv, and from it that     *)
(* results are withheld (WithheldResult), runs are executed under the lock    *)
(* (ExecutingIsOwned) and admission is limited (AdmissionLimits).  With an     *)
(* invariant of its own each: the log agrees with the row (HistoryMatchesRow), *)
(* a worker's outcome stands (WorkerOutcomeIsFinal), a key is one run           *)
(* (IdempotentStart), a cancellation arrives (CancelNotLost) and close() leaves *)
(* no run behind (CleanShutdown).                                           *)
(***************************************************************************)
EXTENDS RunService, FiniteSetTheorems, TLAPS

-----------------------------------------------------------------------------
(* Types.                                                                   *)

LEMMA CallType ==
    /\ Waiting \in Calls
    /\ \A q \in Requests \cup {None}, x \in Runs \cup {None} : Ended(q, x) \in Calls
  BY DEF Waiting, Ended, Calls

LEMMA NoteType ==
    ASSUME TypeOK, NEW r \in Runs, NEW k \in Kinds, Note(r, k)
    PROVE  log' \in [Runs -> Seq(Kinds)]
  BY DEF TypeOK, Note

LEMMA FinishType ==
    ASSUME TypeOK, NEW r \in Runs, NEW s \in Statuses, NEW k \in Kinds, Finish(r, s, k)
    PROVE  status' \in [Runs -> Statuses] /\ log' \in [Runs -> Seq(Kinds)]
  BY NoteType DEF TypeOK, Finish, Statuses

LEMMA BecomesType ==
    ASSUME TypeOK, NEW t \in Threads, NEW c \in Calls, Becomes(t, c)
    PROVE  th' \in [Threads -> Calls]
  BY DEF TypeOK, Becomes

LEMMA ReturnType ==
    ASSUME TypeOK, NEW t \in Threads, NEW q \in Requests \cup {None},
           NEW x \in Runs \cup {None}, Return(t, q, x)
    PROVE  th' \in [Threads -> Calls]
  BY CallType, BecomesType DEF Return

LEMMA MoveType ==
    ASSUME TypeOK, NEW t \in Threads,
           NEW pc \in {"submit", "mark", "raised"}, Move(t, pc)
    PROVE  th' \in [Threads -> Calls]
<1>1. th[t] \in Calls
  BY DEF TypeOK
<1>2. [th[t] EXCEPT !.pc = pc] \in Calls
  BY <1>1 DEF Calls
<1> QED BY <1>2, BecomesType DEF Move

LEMMA TypeStart ==
    ASSUME TypeOK, NEW r \in Runs, Start(r)
    PROVE  TypeOK'
<1> USE RunServiceAssumption
    DEF TypeOK, Threads, rows, service, workers, environment
<1>0. r \in Threads /\ th[r] \in Calls /\ th[r].req \in Requests \cup {None} /\ th[r].day \in Nat
   /\ {"absent", "queued", "cancelled"} \subseteq Statuses
   /\ {"queued", "cancellation_acknowledged"} \subseteq Kinds
  BY DEF Calls, Kinds, TerminalKinds, Statuses, ActiveStatuses, TerminalStatuses
<1>1. ASSUME NEW q \in Requests, StartCheck(r, q) PROVE TypeOK'
  <2>1. [Waiting EXCEPT !.pc = "admit", !.req = q, !.day = today, !.gen = gen] \in Calls
    BY DEF Waiting, Calls
  <2> QED BY <1>1, <1>0, <2>1, BecomesType DEF StartCheck
<1>2. ASSUME NEW x \in Runs, AdmitExisting(r, x) PROVE TypeOK'
  <2>1. th' \in [Threads -> Calls]
    BY <1>2, <1>0, ReturnType DEF AdmitExisting
  <2> QED BY <1>2, <1>0, <2>1 DEF AdmitExisting
<1>3. CASE AdmitRejected(r)
  <2>1. th' \in [Threads -> Calls]
    BY <1>3, <1>0, ReturnType DEF AdmitRejected
  <2> QED BY <1>3, <2>1 DEF AdmitRejected
<1>4. CASE AdmitNew(r)
  <2>1. th' \in [Threads -> Calls]
    BY <1>4, <1>0, MoveType DEF AdmitNew
  <2>2. log' \in [Runs -> Seq(Kinds)]
    BY <1>4, <1>0, NoteType DEF AdmitNew
  <2>3. status' \in [Runs -> Statuses]
    BY <1>4, <1>0 DEF AdmitNew, Statuses
  <2> QED BY <1>4, <1>0, <2>1, <2>2, <2>3 DEF AdmitNew, Statuses
<1>5. CASE StartSubmit(r)
  <2>1. th' \in [Threads -> Calls]
    BY <1>5, <1>0, ReturnType DEF StartSubmit
  <2> QED BY <1>5, <1>0, <2>1 DEF StartSubmit
<1>6. CASE StartTakeBack(r)
  <2>1. th' \in [Threads -> Calls]
    BY <1>6, <1>0, ReturnType DEF StartTakeBack
  <2>2. status' \in [Runs -> Statuses] /\ log' \in [Runs -> Seq(Kinds)]
    BY <1>6, <1>0, FinishType DEF StartTakeBack
  <2> QED BY <1>6, <1>0, <2>1, <2>2 DEF StartTakeBack, Statuses
<1>7. CASE StartTakeBackError(r)
  <2>1. th' \in [Threads -> Calls]
    BY <1>7, <1>0, ReturnType DEF StartTakeBackError
  <2>2. faults' \in Nat
    BY <1>7 DEF StartTakeBackError, StoreError
  <2> QED BY <1>7, <2>1, <2>2 DEF StartTakeBackError
<1> QED BY <1>1, <1>2, <1>3, <1>4, <1>5, <1>6, <1>7 DEF Start

LEMMA TypeCancel ==
    ASSUME TypeOK, NEW t \in Cancellers, Cancel(t)
    PROVE  TypeOK'
<1> USE RunServiceAssumption
    DEF TypeOK, Threads, rows, service, workers, environment
<1>0. t \in Threads /\ th[t] \in Calls /\ th[t].run \in Runs \cup {None}
      /\ {"cancelling", "cancelled"} \subseteq Statuses
      /\ {"cancellation_requested", "cancellation_acknowledged"} \subseteq Kinds
  BY DEF Calls, Kinds, TerminalKinds, Statuses, ActiveStatuses, TerminalStatuses
<1>1. ASSUME NEW r \in Runs, CancelMark(t, r) PROVE TypeOK'
  <2>1. [Waiting EXCEPT !.pc = "signal", !.run = r, !.gen = gen] \in Calls
    BY DEF Waiting, Calls
  <2>2. log' \in [Runs -> Seq(Kinds)]
    BY <1>1, <1>0, NoteType DEF CancelMark
  <2> QED BY <1>1, <1>0, <2>1, <2>2, BecomesType DEF CancelMark
<1>2. CASE CancelRunning(t)
  <2>1. th' \in [Threads -> Calls]
    BY <1>2, <1>0, ReturnType DEF CancelRunning
  <2> QED BY <1>2, <2>1 DEF CancelRunning
<1>3. CASE CancelQueued(t)
  <2>0. th[t].run \in Runs
    BY <1>3 DEF CancelQueued
  <2>1. th' \in [Threads -> Calls]
    BY <1>3, <1>0, <2>0, ReturnType DEF CancelQueued
  <2>2. status' \in [Runs -> Statuses] /\ log' \in [Runs -> Seq(Kinds)]
    BY <1>3, <1>0, <2>0, FinishType DEF CancelQueued
  <2> QED BY <1>3, <2>1, <2>2 DEF CancelQueued
<1>4. CASE CancelNothing(t)
  <2>1. th' \in [Threads -> Calls]
    BY <1>4, <1>0, ReturnType DEF CancelNothing
  <2> QED BY <1>4, <2>1 DEF CancelNothing
<1>5. CASE CancelQueuedError(t)
  <2>1. th' \in [Threads -> Calls]
    BY <1>5, <1>0, ReturnType DEF CancelQueuedError
  <2>2. faults' \in Nat
    BY <1>5 DEF CancelQueuedError, StoreError
  <2>3. future' \in [Runs -> {"none", "pending", "running", "cancelled", "done"}]
        /\ known' \subseteq Runs
    BY <1>5 DEF CancelQueuedError
  <2> QED BY <1>5, <2>1, <2>2, <2>3 DEF CancelQueuedError
<1> QED BY <1>1, <1>2, <1>3, <1>4, <1>5 DEF Cancel

LEMMA CloseCalls ==
    ASSUME TypeOK, NEW t \in Threads
    PROVE  /\ LET c == [th[t] EXCEPT !.pc = "loops", !.sigs = loops, !.futs = known]
              IN c \in Calls /\ c.pc = "loops" /\ c.gen = th[t].gen
           /\ \A r \in Runs :
              LET c == [th[t] EXCEPT !.sigs = @ \ {r}]
              IN  c \in Calls /\ c.pc = th[t].pc /\ c.gen = th[t].gen
           /\ \A r \in Runs :
              LET c == [th[t] EXCEPT !.futs = @ \ {r}]
              IN  c \in Calls /\ c.pc = th[t].pc /\ c.gen = th[t].gen
           /\ LET c == [th[t] EXCEPT !.pc = "join", !.futs = {}]
              IN c \in Calls /\ c.pc = "join" /\ c.gen = th[t].gen
<1>1. th[t] \in Calls /\ loops \subseteq Runs /\ known \subseteq Runs
  BY DEF TypeOK
<1> QED BY <1>1 DEF Calls

LEMMA TypeClose ==
    ASSUME TypeOK, NEW t \in Closers, CloseBegin(t) \/ CloseStep(t) \/ CloseError(t)
    PROVE  TypeOK'
<1> USE RunServiceAssumption
    DEF TypeOK, Threads, rows, service, workers, environment
<1>0. t \in Threads /\ th[t] \in Calls
      /\ {"cancelling", "cancelled"} \subseteq Statuses
      /\ {"cancellation_requested", "cancellation_acknowledged"} \subseteq Kinds
  BY DEF Calls, Kinds, TerminalKinds, Statuses, ActiveStatuses, TerminalStatuses
<1>1. CASE CloseBegin(t)
  BY <1>1, <1>0, MoveType DEF CloseBegin
<1>2. CASE CloseMark(t)
  <2>1. th' \in [Threads -> Calls]
    BY <1>2, <1>0, CloseCalls, BecomesType DEF CloseMark
  <2>2. log' \in [Runs -> Seq(Kinds)]
    BY <1>2, <1>0 DEF CloseMark
  <2>3. status' \in [Runs -> Statuses] /\ cancelReq' \in [Runs -> BOOLEAN]
    BY <1>2, <1>0 DEF CloseMark
  <2> QED BY <1>2, <2>1, <2>2, <2>3 DEF CloseMark
<1>3. CASE CloseMarkError(t)
  <2>1. th' \in [Threads -> Calls]
    BY <1>3, <1>0, MoveType DEF CloseMarkError
  <2>2. faults' \in Nat
    BY <1>3 DEF CloseMarkError, StoreError
  <2> QED BY <1>3, <2>1, <2>2 DEF CloseMarkError
<1>4. ASSUME NEW r \in Runs, CloseSignal(t, r) PROVE TypeOK'
  BY <1>4, <1>0, CloseCalls, BecomesType DEF CloseSignal
<1>5. ASSUME NEW r \in Runs, CloseSignalError(t, r) PROVE TypeOK'
  BY <1>5, <1>0, MoveType DEF CloseSignalError
<1>6. ASSUME NEW r \in Runs, CloseFuture(t, r) PROVE TypeOK'
  <2>1. th' \in [Threads -> Calls]
    BY <1>6, <1>0, CloseCalls, BecomesType DEF CloseFuture
  <2>2. status' \in [Runs -> Statuses] /\ log' \in [Runs -> Seq(Kinds)]
    BY <1>6, <1>0, FinishType DEF CloseFuture
  <2> QED BY <1>6, <2>1, <2>2 DEF CloseFuture
<1>7. CASE CloseShutdown(t)
  BY <1>7, <1>0, CloseCalls, BecomesType DEF CloseShutdown
<1>8. CASE CloseRelease(t)
  <2>1. th' \in [Threads -> Calls]
    BY <1>8, <1>0, ReturnType DEF CloseRelease
  <2> QED BY <1>8, <2>1 DEF CloseRelease
<1>9. ASSUME NEW r \in Runs, CloseFutureError(t, r) PROVE TypeOK'
  <2>1. th' \in [Threads -> Calls]
    BY <1>9, <1>0, MoveType DEF CloseFutureError
  <2>2. faults' \in Nat
    BY <1>9 DEF CloseFutureError, StoreError
  <2>3. future' \in [Runs -> {"none", "pending", "running", "cancelled", "done"}]
        /\ known' \subseteq Runs
    BY <1>9 DEF CloseFutureError
  <2> QED BY <1>9, <2>1, <2>2, <2>3 DEF CloseFutureError
<1> QED BY <1>1, <1>2, <1>3, <1>4, <1>5, <1>6, <1>7, <1>8, <1>9 DEF CloseStep, CloseError

LEMMA TypeWorker ==
    ASSUME TypeOK, NEW r \in Runs,
           WorkerStep(r) \/ ControllerStep(r) \/ TraceError(r) \/ WorkerError(r)
    PROVE  TypeOK'
<1> USE RunServiceAssumption
    DEF TypeOK, rows, service, workers, environment, Worker, Goto
<1>0. /\ {"running", "cancelled", "timed_out", "failed", "completed"} \subseteq Statuses
      /\ {"started", "trace", "cancellation_acknowledged", "timed_out", "failed",
          "completed"} \subseteq Kinds
      /\ WorkerPcs = {"build", "register", "check", "run", "complete", "cancel", "timeout",
                      "fail", "idle", "claim", "unregister", "close", "done"}
  BY DEF Kinds, TerminalKinds, Statuses, ActiveStatuses, TerminalStatuses, WorkerPcs, Executing
<1>1. CASE WorkerTake(r)
  BY <1>1, <1>0 DEF WorkerTake
<1>2. CASE WorkerClaim(r)
  <2>1. status' \in [Runs -> Statuses] /\ log' \in [Runs -> Seq(Kinds)]
    BY <1>2, <1>0, FinishType DEF WorkerClaim
  <2> QED BY <1>2, <1>0, <2>1 DEF WorkerClaim
<1>3. CASE WorkerClaimCancelled(r)
  <2>1. status' \in [Runs -> Statuses] /\ log' \in [Runs -> Seq(Kinds)]
    BY <1>3, <1>0, FinishType DEF WorkerClaimCancelled
  <2> QED BY <1>3, <1>0, <2>1 DEF WorkerClaimCancelled
<1>5. CASE WorkerBuild(r)
  BY <1>5, <1>0 DEF WorkerBuild
<1>6. CASE WorkerRegister(r)
  BY <1>6, <1>0 DEF WorkerRegister
<1>7. CASE WorkerCheck(r)
  BY <1>7, <1>0 DEF WorkerCheck
<1>8. CASE RunCancelled(r) \/ RunDeadline(r) \/ RunRaises(r) \/ RunReturns(r)
  BY <1>8, <1>0 DEF RunCancelled, RunDeadline, RunRaises, RunReturns
<1>9. CASE WorkerComplete(r)
  <2>1. status' \in [Runs -> Statuses] /\ log' \in [Runs -> Seq(Kinds)]
    BY <1>9, <1>0, FinishType DEF WorkerComplete
  <2> QED BY <1>9, <1>0, <2>1 DEF WorkerComplete
<1>10. CASE WorkerStop(r)
  <2>1. status' \in [Runs -> Statuses] /\ log' \in [Runs -> Seq(Kinds)]
    BY <1>10, <1>0, FinishType DEF WorkerStop
  <2> QED BY <1>10, <1>0, <2>1 DEF WorkerStop
<1>11. CASE WorkerUnregister(r)
  BY <1>11, <1>0 DEF WorkerUnregister
<1>12. CASE WorkerClose(r)
  BY <1>12, <1>0 DEF WorkerClose
<1>13. CASE Trace(r)
  <2>1. log' \in [Runs -> Seq(Kinds)]
    BY <1>13, <1>0, NoteType DEF Trace
  <2> QED BY <1>13, <2>1 DEF Trace
<1>14. CASE TraceError(r)
  BY <1>14 DEF TraceError, StoreError
<1>15. CASE WorkerError(r)
  <2>1. wpc' \in [Runs -> WorkerPcs]
    BY <1>15, <1>0 DEF WorkerError
  <2>2. faults' \in Nat
    BY <1>15 DEF WorkerError, StoreError
  <2> QED BY <1>15, <2>1, <2>2 DEF WorkerError
<1> QED BY <1>1, <1>2, <1>3, <1>5, <1>6, <1>7, <1>8, <1>9, <1>10, <1>11,
           <1>12, <1>13, <1>14, <1>15 DEF WorkerStep, ControllerStep

LEMMA TypeProcess ==
    ASSUME TypeOK, Crash \/ Boot \/ NextDay \/ \E r \in Runs : Expire(r)
    PROVE  TypeOK'
<1> USE RunServiceAssumption
    DEF TypeOK, rows, service, workers, environment
<1>0. "interrupted" \in Statuses /\ "interrupted" \in Kinds /\ "idle" \in WorkerPcs
  BY DEF Kinds, TerminalKinds, Statuses, TerminalStatuses, WorkerPcs
<1>1. CASE Crash
  BY <1>1, <1>0, CallType DEF Crash
<1>2. CASE Boot
  <2>1. log' \in [Runs -> Seq(Kinds)]
    BY <1>2, <1>0 DEF Boot
  <2>2. status' \in [Runs -> Statuses]
    BY <1>2, <1>0 DEF Boot
  <2>3. gen' \in Nat /\ lockHolder' \in Nat
    BY <1>2 DEF Boot
  <2> QED BY <1>2, <1>0, <2>1, <2>2, <2>3 DEF Boot
<1>3. CASE NextDay
  BY <1>3 DEF NextDay
<1>4. CASE \E r \in Runs : Expire(r)
  BY <1>4 DEF Expire
<1> QED BY <1>1, <1>2, <1>3, <1>4

LEMMA TypeInit == Init => TypeOK
<1> SUFFICES ASSUME Init PROVE TypeOK
  OBVIOUS
<1>1. log \in [Runs -> Seq(Kinds)] /\ th \in [Threads -> Calls]
  BY CallType DEF Init
<1>2. status \in [Runs -> Statuses] /\ wpc \in [Runs -> WorkerPcs]
  BY DEF Init, Statuses, WorkerPcs
<1> QED BY <1>1, <1>2 DEF Init, TypeOK

LEMMA TypeNext == TypeOK /\ [Next]_vars => TypeOK'
<1> SUFFICES ASSUME TypeOK, [Next]_vars PROVE TypeOK'
  OBVIOUS
<1>1. CASE Next
  BY <1>1, TypeStart, TypeCancel, TypeClose, TypeWorker, TypeProcess DEF Next
<1>2. CASE UNCHANGED vars
  BY <1>2 DEF TypeOK, vars, rows, service, workers, environment
<1> QED BY <1>1, <1>2

(* Every variable keeps its type in every execution. *)
THEOREM TypeCorrect == Spec => []TypeOK
  BY TypeInit, TypeNext, PTL DEF Spec

-----------------------------------------------------------------------------
(* How the calls move, for every action: one call, from one place to another. *)

Moves(t, from, to) ==
    /\ th[t].pc = from /\ th'[t].pc = to
    /\ th'[t].gen \in {0, gen, th[t].gen}
    /\ \A u \in Threads \ {t} : th'[u].pc = th[u].pc /\ th'[u].gen = th[u].gen

LEMMA BecomesMoves ==
    ASSUME TypeOK, NEW t \in Threads, NEW c, Becomes(t, c), c.gen \in {0, gen, th[t].gen}
    PROVE  Moves(t, th[t].pc, c.pc)
  BY DEF TypeOK, Becomes, Moves

LEMMA ReturnMoves ==
    ASSUME TypeOK, NEW t \in Threads, NEW q, NEW x, Return(t, q, x)
    PROVE  Moves(t, th[t].pc, "done")
<1>1. Ended(q, x).pc = "done" /\ Ended(q, x).gen = 0
  BY DEF Ended, Waiting
<1> QED BY <1>1, BecomesMoves DEF Return

LEMMA PcMoves ==
    ASSUME TypeOK, NEW t \in Threads, NEW pc, Move(t, pc)
    PROVE  Moves(t, th[t].pc, pc)
<1>1. th[t] \in Calls
  BY DEF TypeOK
<1>2. [th[t] EXCEPT !.pc = pc].pc = pc /\ [th[t] EXCEPT !.pc = pc].gen = th[t].gen
  BY <1>1 DEF Calls
<1> QED BY <1>2, BecomesMoves DEF Move

LEMMA StartMoves ==
    ASSUME TypeOK, NEW r \in Runs
    PROVE  /\ \A q \in Requests : StartCheck(r, q) => Moves(r, "idle", "admit")
           /\ \A x \in Runs : AdmitExisting(r, x) => Moves(r, "admit", "done")
           /\ AdmitRejected(r) => Moves(r, "admit", "done")
           /\ AdmitNew(r) => Moves(r, "admit", "submit")
           /\ StartSubmit(r) => Moves(r, "submit", "done")
           /\ StartTakeBack(r) \/ StartTakeBackError(r) => Moves(r, "submit", "done")
<1>0. r \in Threads
  BY DEF Threads
<1>1. ASSUME NEW q \in Requests, StartCheck(r, q) PROVE Moves(r, "idle", "admit")
  <2> DEFINE c == [Waiting EXCEPT !.pc = "admit", !.req = q, !.day = today, !.gen = gen]
  <2>1. c.pc = "admit" /\ c.gen = gen
    BY DEF Waiting
  <2> QED BY <1>0, <1>1, <2>1, BecomesMoves DEF StartCheck
<1>2. AdmitNew(r) => Moves(r, "admit", "submit")
  BY <1>0, PcMoves DEF AdmitNew
<1>3. \A x \in Runs : AdmitExisting(r, x) => Moves(r, "admit", "done")
  BY <1>0, ReturnMoves DEF AdmitExisting
<1>4. AdmitRejected(r) => Moves(r, "admit", "done")
  BY <1>0, ReturnMoves DEF AdmitRejected
<1>5. StartSubmit(r) => Moves(r, "submit", "done")
  BY <1>0, ReturnMoves DEF StartSubmit
<1>6. StartTakeBack(r) \/ StartTakeBackError(r) => Moves(r, "submit", "done")
  BY <1>0, ReturnMoves DEF StartTakeBack, StartTakeBackError
<1> QED BY <1>1, <1>2, <1>3, <1>4, <1>5, <1>6

LEMMA CancelMoves ==
    ASSUME TypeOK, NEW t \in Cancellers
    PROVE  /\ \A r \in Runs : CancelMark(t, r) => Moves(t, "idle", "signal")
           /\ CancelRunning(t) \/ CancelQueued(t) \/ CancelQueuedError(t) \/ CancelNothing(t)
                => Moves(t, "signal", "done")
<1>0. t \in Threads
  BY DEF Threads
<1>1. ASSUME NEW r \in Runs, CancelMark(t, r) PROVE Moves(t, "idle", "signal")
  <2> DEFINE c == [Waiting EXCEPT !.pc = "signal", !.run = r, !.gen = gen]
  <2>1. c.pc = "signal" /\ c.gen = gen
    BY DEF Waiting
  <2> QED BY <1>0, <1>1, <2>1, BecomesMoves DEF CancelMark
<1>2. CancelRunning(t) => Moves(t, "signal", "done")
  BY <1>0, ReturnMoves DEF CancelRunning
<1>3. CancelQueued(t) \/ CancelQueuedError(t) => Moves(t, "signal", "done")
  BY <1>0, ReturnMoves DEF CancelQueued, CancelQueuedError
<1>4. CancelNothing(t) => Moves(t, "signal", "done")
  BY <1>0, ReturnMoves DEF CancelNothing
<1> QED BY <1>1, <1>2, <1>3, <1>4

LEMMA CloseMoves ==
    ASSUME TypeOK, NEW t \in Closers
    PROVE  /\ CloseBegin(t) => Moves(t, "idle", "mark")
           /\ CloseMark(t) => Moves(t, "mark", "loops")
           /\ CloseMarkError(t) => Moves(t, "mark", "raised")
           /\ \A r \in Runs : /\ CloseSignal(t, r) => Moves(t, "loops", "loops")
                              /\ CloseSignalError(t, r) => Moves(t, "loops", "raised")
                              /\ CloseFuture(t, r) => Moves(t, "loops", "loops")
                              /\ CloseFutureError(t, r) => Moves(t, "loops", "raised")
           /\ CloseShutdown(t) => Moves(t, "loops", "join")
           /\ CloseRelease(t) => Moves(t, "join", "done")
<1>0. t \in Threads /\ th[t] \in Calls
  BY DEF Threads, TypeOK
<1>1. CloseBegin(t) => Moves(t, "idle", "mark")
  BY <1>0, PcMoves DEF CloseBegin
<1>2. ASSUME CloseMark(t) PROVE Moves(t, "mark", "loops")
  <2> DEFINE c == [th[t] EXCEPT !.pc = "loops", !.sigs = loops, !.futs = known]
  <2>1. c.pc = "loops" /\ c.gen = th[t].gen
    BY <1>0, CloseCalls
  <2>2. Becomes(t, c) /\ th[t].pc = "mark"
    BY <1>2 DEF CloseMark
  <2> QED BY <1>0, <2>1, <2>2, BecomesMoves
<1>3. CloseMarkError(t) => Moves(t, "mark", "raised")
  BY <1>0, PcMoves DEF CloseMarkError
<1>4. ASSUME NEW r \in Runs, CloseSignal(t, r) PROVE Moves(t, "loops", "loops")
  <2> DEFINE c == [th[t] EXCEPT !.sigs = @ \ {r}]
  <2>1. c.pc = th[t].pc /\ c.gen = th[t].gen
    BY <1>0, CloseCalls
  <2>2. Becomes(t, c) /\ th[t].pc = "loops"
    BY <1>4 DEF CloseSignal
  <2> QED BY <1>0, <2>1, <2>2, BecomesMoves
<1>5. \A r \in Runs : CloseSignalError(t, r) => Moves(t, "loops", "raised")
  BY <1>0, PcMoves DEF CloseSignalError
<1>6. ASSUME NEW r \in Runs, CloseFuture(t, r) PROVE Moves(t, "loops", "loops")
  <2> DEFINE c == [th[t] EXCEPT !.futs = @ \ {r}]
  <2>1. c.pc = th[t].pc /\ c.gen = th[t].gen
    BY <1>0, CloseCalls
  <2>2. Becomes(t, c) /\ th[t].pc = "loops"
    BY <1>6 DEF CloseFuture
  <2> QED BY <1>0, <2>1, <2>2, BecomesMoves
<1>7. ASSUME CloseShutdown(t) PROVE Moves(t, "loops", "join")
  <2> DEFINE c == [th[t] EXCEPT !.pc = "join", !.futs = {}]
  <2>1. c.pc = "join" /\ c.gen = th[t].gen
    BY <1>0, CloseCalls
  <2>2. Becomes(t, c) /\ th[t].pc = "loops"
    BY <1>7 DEF CloseShutdown
  <2> QED BY <1>0, <2>1, <2>2, BecomesMoves
<1>8. CloseRelease(t) => Moves(t, "join", "done")
  BY <1>0, ReturnMoves DEF CloseRelease
<1>9. \A r \in Runs : CloseFutureError(t, r) => Moves(t, "loops", "raised")
  BY <1>0, PcMoves DEF CloseFutureError
<1> QED BY <1>1, <1>2, <1>3, <1>4, <1>5, <1>6, <1>7, <1>8, <1>9

LEMMA CrashMoves ==
    ASSUME TypeOK, Crash
    PROVE  \A t \in Threads : /\ th'[t].pc \in {"idle", "done"} /\ th'[t].gen = 0
                              /\ th'[t].pc = "idle" => th[t].pc = "idle"
  BY DEF Crash, Ended, Waiting

-----------------------------------------------------------------------------
(* The inductive invariant: first what leaves each of its parts alone.       *)

Parts == CallInv /\ FutureInv /\ LockInv /\ CloseInv /\ OutcomeInv

LEMMA InvParts ==
    Inv => /\ TypeOK /\ CallInv /\ FutureInv /\ LockInv /\ CloseInv /\ OutcomeInv
           /\ gen \in Nat
  BY DEF Inv, TypeOK

LEMMA Frame ==
    /\ CallInv /\ UNCHANGED <<th, status, future, gen>> => CallInv'
    /\ FutureInv /\ UNCHANGED <<future, wpc>> => FutureInv'
    /\ LockInv /\ UNCHANGED <<lockHolder, gen, th, future, closed>> => LockInv'
    /\ CloseInv /\ UNCHANGED <<th, closed, lockHolder, future>> => CloseInv'
    /\ OutcomeInv /\ UNCHANGED <<wpc, status, traceLost, cancelReq, expired>>
       /\ (\A r \in Runs : future'[r] = "pending" => future[r] = "pending") => OutcomeInv'
<1>1. CallInv /\ UNCHANGED <<th, status, future, gen>> => CallInv'
  BY DEF CallInv
<1>2. FutureInv /\ UNCHANGED <<future, wpc>> => FutureInv'
  BY DEF FutureInv
<1>3. LockInv /\ UNCHANGED <<lockHolder, gen, th, future, closed>> => LockInv'
  BY DEF LockInv, Serving
<1>4. CloseInv /\ UNCHANGED <<th, closed, lockHolder, future>> => CloseInv'
  BY DEF CloseInv, Serving
<1>5. OutcomeInv /\ UNCHANGED <<wpc, status, traceLost, cancelReq, expired>>
       /\ (\A r \in Runs : future'[r] = "pending" => future[r] = "pending") => OutcomeInv'
  BY DEF OutcomeInv
<1> QED BY <1>1, <1>2, <1>3, <1>4, <1>5

LEMMA Disjoint ==
    /\ \A r \in Runs : r \in Threads /\ r \notin Cancellers /\ r \notin Closers
    /\ \A t \in Cancellers : t \in Threads /\ t \notin Runs /\ t \notin Closers
    /\ \A t \in Closers : t \in Threads /\ t \notin Runs /\ t \notin Cancellers
  BY RunServiceAssumption DEF Threads

LEMMA MovesCall ==
    ASSUME CallInv, NEW t \in Cancellers \cup Closers, NEW a, NEW b, Moves(t, a, b),
           UNCHANGED <<status, future, gen>>
    PROVE  CallInv'
  BY Disjoint DEF CallInv, Moves

LEMMA MovesLock ==
    ASSUME LockInv, gen \in Nat, NEW t \in Threads, NEW a, NEW b, Moves(t, a, b),
           b \notin {"admit", "submit"} \/ Serving \/ closed,
           UNCHANGED <<lockHolder, gen, closed>>,
           \A r \in Runs : future'[r] # future[r] => future'[r] \notin {"pending", "running"}
    PROVE  LockInv'
<1>1. \A u \in Threads : th'[u].gen <= gen'
  BY DEF LockInv, Moves
<1>2. ASSUME ~Serving', ~closed', NEW r \in Runs
      PROVE  th'[r].pc # "submit" /\ th'[r].pc # "admit"
  BY <1>2, Disjoint DEF LockInv, Moves, Serving
<1> QED BY <1>1, <1>2 DEF LockInv, Serving

LEMMA MovesClose ==
    ASSUME CloseInv, NEW t \in Runs \cup Cancellers, NEW a, NEW b, Moves(t, a, b),
           UNCHANGED <<closed, lockHolder>>,
           \A r \in Runs : future'[r] = "pending" => future[r] = "pending"
    PROVE  CloseInv'
  BY Disjoint DEF CloseInv, Moves, Serving

\* A queued future is withdrawn and nothing else changes but who is where.
LEMMA MovesWithdraw ==
    ASSUME Inv, NEW t \in Cancellers \cup Closers, NEW a, NEW b, Moves(t, a, b),
           UNCHANGED <<status, gen, wpc, traceLost, cancelReq, expired, lockHolder, closed>>,
           NEW r \in Runs, future[r] \in {"pending", "cancelled"},
           future'[r] = "cancelled", \A x \in Runs \ {r} : future'[x] = future[x],
           b \notin {"admit", "submit"}
    PROVE  /\ CallInv' /\ FutureInv' /\ LockInv' /\ OutcomeInv'
           /\ \A x \in Runs : future'[x] = "pending" => future[x] = "pending"
<1> USE InvParts, Disjoint
<1>1. \A x \in Runs : /\ future'[x] = "pending" => future[x] = "pending"
                      /\ future'[x] # future[x] => future'[x] = "cancelled"
  OBVIOUS
<1>2. CallInv'
  <2>1. \A x \in Runs : th'[x].pc = th[x].pc /\ th'[x].gen = th[x].gen
    BY DEF Moves
  <2>2. \A x \in Runs : (future'[x] = "none") = (future[x] = "none")
    OBVIOUS
  <2> QED BY <2>1, <2>2 DEF CallInv
<1>3. FutureInv'
  BY DEF FutureInv
<1>4. LockInv'
  BY <1>1, MovesLock
<1>5. OutcomeInv'
  BY <1>1, Frame
<1> QED BY <1>1, <1>2, <1>3, <1>4, <1>5

LEMMA StartStep ==
    ASSUME Inv, NEW r \in Runs, Start(r)
    PROVE  Parts'
<1> USE InvParts, Disjoint, Frame DEF rows, service, workers, environment, Parts
<1>1. ASSUME NEW q \in Requests, StartCheck(r, q) PROVE Parts'
  <2>1. Moves(r, "idle", "admit")
    BY <1>1, StartMoves
  <2>2. CallInv'
    BY <1>1, <2>1 DEF StartCheck, CallInv, Moves
  <2> QED BY <1>1, <2>1, <2>2, MovesLock, MovesClose DEF StartCheck
<1>2. ASSUME Moves(r, "admit", "done"),
             UNCHANGED <<rows, lockHolder, service, workers, environment>>
      PROVE  Parts'
  <2>1. CallInv'
    BY <1>2 DEF CallInv, Moves
  <2> QED BY <1>2, <2>1, MovesLock, MovesClose
<1>3. ASSUME NEW x \in Runs, AdmitExisting(r, x) PROVE Parts'
  BY <1>2, <1>3, StartMoves DEF AdmitExisting
<1>4. CASE AdmitRejected(r)
  BY <1>2, <1>4, StartMoves DEF AdmitRejected
<1>5. CASE AdmitNew(r)
  <2>1. Moves(r, "admit", "submit")
    BY <1>5, StartMoves
  <2>2. CallInv'
    BY <1>5, <2>1 DEF AdmitNew, CallInv, Moves, TypeOK
  <2>3. OutcomeInv'
    BY <1>5, <2>1 DEF AdmitNew, Moves, CallInv, FutureInv, OutcomeInv, Executing, TypeOK
  <2>4. Serving \/ closed
    BY <2>1 DEF LockInv, Moves
  <2> QED BY <1>5, <2>1, <2>2, <2>3, <2>4, MovesLock, MovesClose DEF AdmitNew
<1>6. CASE StartSubmit(r)
  <2>1. Moves(r, "submit", "done")
    BY <1>6, StartMoves
  <2>2. CallInv'
    BY <1>6, <2>1 DEF StartSubmit, CallInv, Moves
  <2>3. FutureInv'
    BY <1>6, <2>1 DEF StartSubmit, CallInv, FutureInv, Moves
  <2>4. LockInv'
    BY <1>6, <2>1 DEF StartSubmit, LockInv, Moves, Serving
  <2>5. CloseInv'
    BY <1>6, <2>1 DEF StartSubmit, CloseInv, Moves, Closing, Serving
  <2>6. /\ th[r].pc = "submit" /\ th[r].gen = gen
        /\ \A x \in Runs : future'[x] = "pending" => x = r \/ future[x] = "pending"
    BY <1>6 DEF StartSubmit, TypeOK
  <2>7. OutcomeInv'
    BY <1>6, <2>6 DEF StartSubmit, OutcomeInv, CallInv
  <2> QED BY <1>6, <2>2, <2>3, <2>4, <2>5, <2>7 DEF StartSubmit
<1>7. CASE StartTakeBack(r)
  <2>1. Moves(r, "submit", "done")
    BY <1>7, StartMoves
  <2>2. CallInv'
    BY <1>7, <2>1 DEF StartTakeBack, CallInv, Moves, Finish
  <2>3. OutcomeInv'
    BY <1>7, <2>1 DEF StartTakeBack, Moves, Finish, CallInv, FutureInv, OutcomeInv, Executing, TypeOK
  <2> QED BY <1>7, <2>1, <2>2, <2>3, MovesLock, MovesClose DEF StartTakeBack
<1>8. CASE StartTakeBackError(r)
  <2>1. Moves(r, "submit", "done")
    BY <1>8, StartMoves
  <2>2. CallInv'
    BY <1>8, <2>1 DEF StartTakeBackError, CallInv, Moves
  <2> QED BY <1>8, <2>1, <2>2, MovesLock, MovesClose DEF StartTakeBackError
<1> QED BY <1>1, <1>3, <1>4, <1>5, <1>6, <1>7, <1>8 DEF Start

LEMMA CancelStep ==
    ASSUME Inv, NEW t \in Cancellers, Cancel(t)
    PROVE  Parts'
<1> USE InvParts, Disjoint, Frame DEF rows, service, workers, environment, Parts
<1>1. ASSUME NEW r \in Runs, CancelMark(t, r) PROVE Parts'
  <2>1. Moves(t, "idle", "signal")
    BY <1>1, CancelMoves
  <2>2. CallInv'
    BY <1>1, <2>1 DEF CancelMark, CallInv, Moves, ActiveStatuses
  <2>3. OutcomeInv'
    BY <1>1 DEF CancelMark, OutcomeInv, ActiveStatuses, TypeOK
  <2> QED BY <1>1, <2>1, <2>2, <2>3, MovesLock, MovesClose DEF CancelMark
<1>2. CASE CancelRunning(t)
  <2>1. Moves(t, "signal", "done")
    BY <1>2, CancelMoves
  <2> QED BY <1>2, <2>1, MovesCall, MovesLock, MovesClose DEF CancelRunning
<1>3. CASE CancelQueued(t)
  <2>0. PICK r \in Runs : /\ r \in known \ loops /\ future[r] = "pending"
                          /\ future' = [future EXCEPT ![r] = "cancelled"]
                          /\ Finish(r, "cancelled", "cancellation_acknowledged")
    BY <1>3 DEF CancelQueued, TypeOK
  <2>1. Moves(t, "signal", "done")
    BY <1>3, CancelMoves
  <2>2. CallInv'
    <3>1. \A x \in Runs \ {r} : status'[x] = status[x] /\ future'[x] = future[x]
      BY <2>0 DEF Finish, TypeOK
    <3>2. th[r].pc \notin {"idle", "admit", "submit"} /\ status'[r] = "cancelled"
      BY <2>0 DEF CallInv, Finish, TypeOK
    <3>3. \A x \in Runs : th'[x].pc = th[x].pc /\ th'[x].gen = th[x].gen
      BY <2>1, Disjoint DEF Moves
    <3> QED BY <1>3, <3>1, <3>2, <3>3 DEF CallInv, CancelQueued
  <2>3. FutureInv'
    BY <1>3, <2>0 DEF CancelQueued, FutureInv
  <2>4. OutcomeInv'
    BY <1>3, <2>0 DEF CancelQueued, FutureInv, OutcomeInv, Finish, Executing, TypeOK
  <2>5. \A x \in Runs : future'[x] # "pending" \/ future[x] = "pending"
    BY <2>0 DEF TypeOK
  <2>6. \A x \in Runs : future'[x] # future[x] => future'[x] = "cancelled"
    BY <2>0 DEF TypeOK
  <2> QED BY <1>3, <2>1, <2>2, <2>3, <2>4, <2>5, <2>6, MovesLock, MovesClose DEF CancelQueued
<1>4. CASE CancelNothing(t)
  <2>1. Moves(t, "signal", "done")
    BY <1>4, CancelMoves
  <2> QED BY <1>4, <2>1, MovesCall, MovesLock, MovesClose DEF CancelNothing
<1>5. CASE CancelQueuedError(t)
  <2>1. Moves(t, "signal", "done")
    BY <1>5, CancelMoves
  <2>2. PICK r \in Runs : /\ future[r] = "pending"
                          /\ future'[r] = "cancelled"
                          /\ \A x \in Runs \ {r} : future'[x] = future[x]
    BY <1>5 DEF CancelQueuedError, TypeOK
  <2>3. /\ CallInv' /\ FutureInv' /\ LockInv' /\ OutcomeInv'
        /\ \A x \in Runs : future'[x] = "pending" => future[x] = "pending"
    <3>1. UNCHANGED <<status, gen, wpc, traceLost, cancelReq, expired, lockHolder, closed>>
      BY <1>5 DEF CancelQueuedError
    <3> QED BY <2>1, <2>2, <3>1, MovesWithdraw
  <2> QED BY <1>5, <2>1, <2>3, MovesClose DEF CancelQueuedError
<1> QED BY <1>1, <1>2, <1>3, <1>4, <1>5 DEF Cancel

\* close() moves between places that all require the lock.
LEMMA MovesClosing ==
    ASSUME CloseInv, NEW t \in Closers, NEW a \in Closing, NEW b \in Closing, Moves(t, a, b),
           UNCHANGED <<closed, lockHolder>>,
           \A r \in Runs : future'[r] = "pending" => future[r] = "pending",
           b = "join" => \A r \in Runs : future'[r] # "pending"
    PROVE  CloseInv'
  BY Disjoint DEF CloseInv, Moves, Serving

LEMMA CloseStepInv ==
    ASSUME Inv, NEW t \in Closers, CloseBegin(t) \/ CloseStep(t) \/ CloseError(t)
    PROVE  Parts'
<1> USE InvParts, Disjoint, Frame DEF rows, service, workers, environment, Parts
<1>0. {"mark", "loops", "join", "raised"} = Closing
  BY DEF Closing
<1>1. CASE CloseBegin(t)
  <2>1. Moves(t, "idle", "mark")
    BY <1>1, CloseMoves
  <2>2. CloseInv'
    BY <1>1, <2>1 DEF CloseBegin, CloseInv, Moves, Closing, Serving
  <2>3. LockInv'
    BY <1>1, <2>1 DEF CloseBegin, LockInv, Moves, Serving
  <2> QED BY <1>1, <2>1, <2>2, <2>3, MovesCall DEF CloseBegin
<1>2. CASE CloseMark(t)
  <2>1. Moves(t, "mark", "loops")
    BY <1>2, CloseMoves
  <2>2. CallInv'
    BY <1>2, <2>1 DEF CloseMark, CallInv, Moves, Active, ActiveStatuses
  <2>3. OutcomeInv'
    BY <1>2 DEF CloseMark, OutcomeInv, Active, ActiveStatuses, Executing, TypeOK
  <2> QED BY <1>0, <1>2, <2>1, <2>2, <2>3, MovesLock, MovesClosing DEF CloseMark
<1>3. CASE CloseMarkError(t)
  <2>1. Moves(t, "mark", "raised")
    BY <1>3, CloseMoves
  <2> QED BY <1>0, <1>3, <2>1, MovesCall, MovesLock, MovesClosing DEF CloseMarkError
<1>4. ASSUME NEW r \in Runs, CloseSignal(t, r) PROVE Parts'
  <2>1. Moves(t, "loops", "loops")
    BY <1>4, CloseMoves
  <2> QED BY <1>0, <1>4, <2>1, MovesCall, MovesLock, MovesClosing DEF CloseSignal
<1>5. ASSUME NEW r \in Runs, CloseSignalError(t, r) PROVE Parts'
  <2>1. Moves(t, "loops", "raised")
    BY <1>5, CloseMoves
  <2> QED BY <1>0, <1>5, <2>1, MovesCall, MovesLock, MovesClosing DEF CloseSignalError
<1>6. ASSUME NEW r \in Runs, CloseFuture(t, r) PROVE Parts'
  <2>1. Moves(t, "loops", "loops")
    BY <1>6, CloseMoves
  <2>2. CallInv'
    BY <1>6, <2>1 DEF CloseFuture, CallInv, Moves, Finish
  <2>3. FutureInv'
    BY <1>6 DEF CloseFuture, FutureInv
  <2>4. OutcomeInv'
    <3>1. wpc[r] \notin Executing \cup {"claim"} /\ future'[r] = "cancelled"
          /\ status'[r] = "cancelled"
      <4>1. future[r] = "pending" \/ future[r] = "cancelled"
        BY <1>6 DEF CloseFuture
      <4>2. wpc[r] \notin Executing \cup {"claim"}
        BY <4>1 DEF FutureInv, Executing
      <4>3. future'[r] = "cancelled" /\ status'[r] = "cancelled"
        BY <1>6 DEF CloseFuture, Finish, TypeOK
      <4> QED BY <4>2, <4>3
    <3>2. \A x \in Runs \ {r} : status'[x] = status[x] /\ future'[x] = future[x]
      BY <1>6 DEF CloseFuture, Finish, TypeOK
    <3> QED BY <1>6, <3>1, <3>2 DEF CloseFuture, OutcomeInv, Executing
  <2>5. \A x \in Runs : future'[x] # future[x] => future'[x] = "cancelled"
    BY <1>6 DEF CloseFuture, TypeOK
  <2> QED BY <1>0, <1>6, <2>1, <2>2, <2>3, <2>4, <2>5, MovesLock, MovesClosing
          DEF CloseFuture
<1>7. CASE CloseShutdown(t)
  <2>1. Moves(t, "loops", "join")
    BY <1>7, CloseMoves
  <2>2. \A x \in Runs : /\ future'[x] # "pending"
                        /\ future'[x] # future[x] => future[x] = "pending" /\ future'[x] = "cancelled"
    BY <1>7 DEF CloseShutdown, TypeOK
  <2>3. CallInv'
    BY <1>7, <2>1, <2>2 DEF CloseShutdown, CallInv, Moves
  <2>4. FutureInv'
    BY <1>7, <2>2 DEF CloseShutdown, FutureInv
  <2> QED BY <1>0, <1>7, <2>1, <2>2, <2>3, <2>4, MovesLock, MovesClosing DEF CloseShutdown
<1>8. CASE CloseRelease(t)
  <2>1. Moves(t, "join", "done")
    BY <1>8, CloseMoves
  <2>2. CloseInv'
    BY <1>8, <2>1 DEF CloseRelease, CloseInv, Moves, Closing
  <2>3. LockInv'
    BY <1>8, <2>1 DEF CloseRelease, CloseInv, LockInv, Moves, Closing, Busy, Serving
  <2> QED BY <1>8, <2>1, <2>2, <2>3, MovesCall DEF CloseRelease
<1>9. ASSUME NEW r \in Runs, CloseFutureError(t, r) PROVE Parts'
  <2>1. Moves(t, "loops", "raised")
    BY <1>9, CloseMoves
  <2>2. /\ CallInv' /\ FutureInv' /\ LockInv' /\ OutcomeInv'
        /\ \A x \in Runs : future'[x] = "pending" => future[x] = "pending"
    <3>1. /\ UNCHANGED <<status, gen, wpc, traceLost, cancelReq, expired, lockHolder, closed>>
          /\ future[r] \in {"pending", "cancelled"}
          /\ future'[r] = "cancelled"
          /\ \A x \in Runs \ {r} : future'[x] = future[x]
      BY <1>9 DEF CloseFutureError, TypeOK
    <3> QED BY <2>1, <3>1, MovesWithdraw
  <2> QED BY <1>0, <1>9, <2>1, <2>2, MovesClosing DEF CloseFutureError
<1> QED BY <1>1, <1>2, <1>3, <1>4, <1>5, <1>6, <1>7, <1>8, <1>9 DEF CloseStep, CloseError

\* What a worker step may do to its own row and nothing else.
LEMMA WorkerStepInv ==
    ASSUME Inv, NEW r \in Runs,
           WorkerStep(r) \/ ControllerStep(r) \/ TraceError(r) \/ WorkerError(r)
    PROVE  Parts'
<1> USE InvParts, Disjoint, Frame DEF rows, service, workers, environment, Parts, Worker, Goto
<1>1. CASE WorkerTake(r)
  <2>1. CallInv'
    BY <1>1 DEF WorkerTake, CallInv, TypeOK
  <2>2. FutureInv'
    BY <1>1 DEF WorkerTake, FutureInv, TypeOK
  <2>3. LockInv'
    BY <1>1 DEF WorkerTake, LockInv, Serving
  <2>4. CloseInv'
    BY <1>1 DEF WorkerTake, CloseInv, Serving
  <2>5. OutcomeInv'
    BY <1>1 DEF WorkerTake, OutcomeInv, Executing
  <2> QED BY <2>1, <2>2, <2>3, <2>4, <2>5
\* Steps that end in a transaction of the worker.
<1>2. ASSUME NEW s \in Statuses \ {"absent"}, NEW k, Finish(r, s, k), wpc[r] \notin {"idle", "done"},
             NEW pc \in WorkerPcs \ {"idle", "claim", "done"}, wpc' = [wpc EXCEPT ![r] = pc],
             UNCHANGED <<th, future, lockHolder, gen, closed, traceLost, cancelReq, expired>>,
             pc \in Executing => s = "running" /\ pc # "complete",
             s = "completed" => ~cancelReq[r] /\ r \notin expired /\ r \notin traceLost
      PROVE  Parts'
  <2>1. CallInv'
    BY <1>2 DEF CallInv, FutureInv, Finish, TypeOK
  <2>2. FutureInv'
    BY <1>2 DEF FutureInv, TypeOK
  <2>3. /\ status'[r] = s /\ wpc'[r] = pc
        /\ \A x \in Runs \ {r} : status'[x] = status[x] /\ wpc'[x] = wpc[x]
    BY <1>2 DEF Finish, TypeOK
  <2>4. future[r] = "running" /\ pc # "claim"
    BY <1>2 DEF FutureInv
  <2>5. OutcomeInv'
    BY <1>2, <2>3, <2>4 DEF OutcomeInv, Executing
  <2> QED BY <1>2, <2>1, <2>2, <2>5
<1>3. CASE WorkerClaim(r) \/ WorkerClaimCancelled(r)
  BY <1>2, <1>3
     DEF WorkerClaim, WorkerClaimCancelled, WorkerPcs, Executing, Statuses, ActiveStatuses,
         TerminalStatuses
<1>4. CASE WorkerComplete(r)
  <2>1. "unregister" \in WorkerPcs \ {"idle", "claim", "done"} /\ "unregister" \notin Executing
    BY DEF WorkerPcs, Executing
  <2>2. r \notin traceLost /\ wpc[r] = "complete"
    BY <1>4 DEF WorkerComplete, OutcomeInv
  <2>3. PICK s \in Statuses \ {"absent"}, k \in Kinds : Finish(r, s, k) /\ (s = "completed" => ~cancelReq[r] /\ r \notin expired)
    BY <1>4 DEF WorkerComplete, Statuses, TerminalStatuses, Kinds, TerminalKinds
  <2> QED BY <1>2, <1>4, <2>1, <2>2, <2>3 DEF WorkerComplete
<1>5. CASE WorkerStop(r)
  BY <1>2, <1>5 DEF WorkerStop, WorkerPcs, Executing, Statuses, TerminalStatuses
\* Steps that only move the worker on.
<1>6. ASSUME wpc[r] \notin {"idle", "done"},
             NEW pc \in WorkerPcs \ {"idle", "claim", "done"}, wpc' = [wpc EXCEPT ![r] = pc],
             UNCHANGED <<th, status, future, lockHolder, gen, closed, traceLost, cancelReq, expired>>,
             pc \in Executing => wpc[r] \in Executing,
             pc = "complete" => r \notin traceLost
      PROVE  Parts'
  <2>1. FutureInv'
    BY <1>6 DEF FutureInv, TypeOK
  <2>2. OutcomeInv'
    BY <1>6 DEF OutcomeInv, TypeOK
  <2> QED BY <1>6, <2>1, <2>2
<1>7. CASE WorkerBuild(r) \/ WorkerRegister(r) \/ WorkerCheck(r)
  BY <1>6, <1>7
     DEF WorkerBuild, WorkerRegister, WorkerCheck, WorkerPcs, Executing
<1>8. CASE RunCancelled(r) \/ RunDeadline(r) \/ RunRaises(r) \/ RunReturns(r)
  BY <1>6, <1>8
     DEF RunCancelled, RunDeadline, RunRaises, RunReturns, WorkerPcs, Executing
<1>9. CASE WorkerUnregister(r) \/ WorkerError(r)
  BY <1>6, <1>9 DEF WorkerUnregister, WorkerError, WorkerPcs, Executing
<1>10. CASE WorkerClose(r)
  <2>1. CallInv'
    BY <1>10 DEF WorkerClose, CallInv, FutureInv, TypeOK
  <2>2. FutureInv'
    BY <1>10 DEF WorkerClose, FutureInv, TypeOK
  <2>3. LockInv'
    BY <1>10 DEF WorkerClose, LockInv, Serving
  <2>4. CloseInv'
    BY <1>10 DEF WorkerClose, CloseInv, Serving
  <2>5. OutcomeInv'
    BY <1>10 DEF WorkerClose, OutcomeInv, Executing
  <2> QED BY <2>1, <2>2, <2>3, <2>4, <2>5
<1>11. CASE Trace(r)
  BY <1>11 DEF Trace
<1>12. CASE TraceError(r)
  <2>1. OutcomeInv'
    BY <1>12 DEF TraceError, OutcomeInv, Executing
  <2> QED BY <1>12, <2>1 DEF TraceError
<1> QED BY <1>1, <1>3, <1>4, <1>5, <1>7, <1>8, <1>9, <1>10, <1>11, <1>12
        DEF WorkerStep, ControllerStep

LEMMA ProcessStepInv ==
    ASSUME Inv, Crash \/ Boot \/ NextDay \/ \E r \in Runs : Expire(r)
    PROVE  Parts'
<1> USE InvParts, Disjoint, Frame DEF rows, service, workers, environment, Parts
<1>1. CASE Crash
  <2>1. \A t \in Threads : /\ th'[t].pc \in {"idle", "done"} /\ th'[t].gen = 0
                           /\ th'[t].pc = "idle" => th[t].pc = "idle"
    BY <1>1, CrashMoves
  <2>2. /\ \A r \in Runs : future'[r] = "none" /\ wpc'[r] = "idle"
        /\ lockHolder' = 0 /\ gen' = gen /\ status' = status /\ traceLost' = {}
        /\ UNCHANGED <<cancelReq, expired>>
    BY <1>1 DEF Crash
  <2>3. CallInv'
    BY <2>1, <2>2 DEF CallInv
  <2>4. FutureInv'
    BY <2>2 DEF FutureInv
  <2>5. LockInv'
    BY <2>1, <2>2 DEF LockInv, Serving
  <2>6. CloseInv'
    BY <2>1 DEF CloseInv, Closing
  <2>7. OutcomeInv'
    BY <2>2 DEF OutcomeInv, Executing
  <2> QED BY <2>3, <2>4, <2>5, <2>6, <2>7
<1>2. CASE Boot
  <2>1. /\ \A r \in Runs : future'[r] = "none" /\ wpc'[r] = "idle"
        /\ th' = th /\ gen' = gen + 1 /\ lockHolder' = gen' /\ traceLost' = {}
        /\ UNCHANGED <<cancelReq, expired>>
        /\ \A r \in Runs : status'[r] = status[r] \/ (status[r] # "absent" /\ status'[r] = "interrupted")
    BY <1>2 DEF Boot, Active, ActiveStatuses
  <2>2. CallInv'
    <3>1. \A r \in Runs : th[r].gen \in Nat /\ th[r].gen <= gen
      BY DEF LockInv, TypeOK, Calls
    <3>2. \A r \in Runs : th'[r].gen # gen'
      BY <2>1, <3>1
    <3> QED BY <2>1, <3>2 DEF CallInv
  <2>3. FutureInv'
    BY <2>1 DEF FutureInv
  <2>4. LockInv'
    <3>1. \A t \in Threads : th[t].gen \in Nat /\ th[t].gen <= gen
      BY DEF LockInv, TypeOK, Calls
    <3> QED BY <2>1, <3>1 DEF LockInv, Serving
  <2>5. CloseInv'
    BY <1>2, <2>1 DEF CloseInv, Closing, Boot
  <2>6. OutcomeInv'
    BY <2>1 DEF OutcomeInv, Executing
  <2> QED BY <2>2, <2>3, <2>4, <2>5, <2>6
<1>3. CASE NextDay
  BY <1>3 DEF NextDay
<1>4. ASSUME NEW r \in Runs, Expire(r) PROVE Parts'
  <2>1. OutcomeInv'
    BY <1>4 DEF Expire, OutcomeInv, ActiveStatuses
  <2> QED BY <1>4, <2>1 DEF Expire
<1> QED BY <1>1, <1>2, <1>3, <1>4

LEMMA InvInit == Init => Inv
<1> SUFFICES ASSUME Init PROVE Inv
  OBVIOUS
<1>1. TypeOK
  BY TypeInit
<1>2. \A t \in Threads : th[t].pc = "idle" /\ th[t].gen = 0
  BY DEF Init, Waiting
<1>3. CallInv /\ FutureInv /\ OutcomeInv
  BY <1>2, Disjoint DEF Init, CallInv, FutureInv, OutcomeInv, Executing
<1>4. LockInv /\ CloseInv
  BY <1>2, Disjoint DEF Init, LockInv, CloseInv, Closing, Serving
<1> QED BY <1>1, <1>3, <1>4 DEF Inv

LEMMA InvNext == Inv /\ [Next]_vars => Inv'
<1> SUFFICES ASSUME Inv, [Next]_vars PROVE Inv'
  OBVIOUS
<1>1. TypeOK'
  BY TypeNext DEF Inv
<1>2. Parts'
  <2>1. CASE Next
    BY <2>1, StartStep, CancelStep, CloseStepInv, WorkerStepInv, ProcessStepInv DEF Next
  <2>2. CASE UNCHANGED vars
    BY <2>2, InvParts, Frame DEF vars, rows, service, workers, environment, Parts
  <2> QED BY <2>1, <2>2
<1> QED BY <1>1, <1>2 DEF Inv, Parts

(* The inductive invariant holds in every execution. *)
THEOREM InvCorrect == Spec => []Inv
  BY InvInit, InvNext, PTL DEF Spec

(* A completed run was not cancelled, late, or missing a trace event. *)
THEOREM WithheldResultCorrect == Spec => []WithheldResult
<1>1. Inv => WithheldResult
  BY DEF Inv, OutcomeInv, WithheldResult
<1> QED BY <1>1, InvCorrect, PTL

(* A worker that has begun belongs to the instance that holds the process lock, *)
(* and the row of one that executes is active.                                 *)
THEOREM ExecutingIsOwnedCorrect == Spec => []ExecutingIsOwned
<1>1. Inv => ExecutingIsOwned
  BY DEF Inv, FutureInv, LockInv, OutcomeInv, ExecutingIsOwned, Serving
<1> QED BY <1>1, InvCorrect, PTL

-----------------------------------------------------------------------------
(* Admission.                                                               *)

\* No other action makes a run active, creates a row, or edits what a row was
\* admitted with.
Quiet ==
    /\ UNCHANGED <<req, day>>
    /\ \A r \in Runs : /\ status'[r] \in ActiveStatuses => status[r] \in ActiveStatuses
                       /\ status'[r] # "absent" => status[r] # "absent"

LEMMA FinishQuiet ==
    ASSUME TypeOK, NEW r \in Runs, NEW s, NEW k, Finish(r, s, k), status[r] # "absent",
           s \in ActiveStatuses => status[r] \in ActiveStatuses,
           UNCHANGED <<req, day>>
    PROVE  Quiet
  BY DEF TypeOK, Finish, Quiet

LEMMA StillQuiet == UNCHANGED <<status, req, day>> => Quiet
  BY DEF Quiet

LEMMA OnlyStartAdmits ==
    ASSUME Inv, [Next]_vars
    PROVE  Quiet \/ \E r \in Runs : AdmitNew(r)
<1> USE InvParts, StillQuiet DEF rows, service, workers, environment
<1>1. ASSUME NEW r \in Runs, Start(r), ~AdmitNew(r) PROVE Quiet
  <2>1. CASE StartTakeBack(r)
    BY <2>1, FinishQuiet DEF StartTakeBack, CallInv, ActiveStatuses
  <2> QED BY <1>1, <2>1 DEF Start, StartCheck, AdmitExisting, AdmitRejected, StartSubmit,
                              StartTakeBackError
<1>2. ASSUME NEW t \in Cancellers, Cancel(t) PROVE Quiet
  <2>1. ASSUME NEW r \in Runs, CancelMark(t, r) PROVE Quiet
    BY <2>1 DEF CancelMark, Quiet, TypeOK, ActiveStatuses
  <2>2. CASE CancelQueued(t)
    <3>1. PICK r \in Runs : Finish(r, "cancelled", "cancellation_acknowledged")
                            /\ future[r] = "pending"
      BY <2>2 DEF CancelQueued, TypeOK
    <3> QED BY <2>2, <3>1, FinishQuiet DEF CancelQueued, CallInv, ActiveStatuses
  <2> QED BY <1>2, <2>1, <2>2 DEF Cancel, CancelRunning, CancelQueuedError, CancelNothing
<1>3. ASSUME NEW t \in Closers, CloseBegin(t) \/ CloseStep(t) \/ CloseError(t)
      PROVE  Quiet
  <2>1. CASE CloseMark(t)
    BY <2>1 DEF CloseMark, Quiet, Active, ActiveStatuses
  <2>2. ASSUME NEW r \in Runs, CloseFuture(t, r) PROVE Quiet
    BY <2>2, FinishQuiet DEF CloseFuture, CallInv, ActiveStatuses
  <2> QED BY <1>3, <2>1, <2>2
          DEF CloseStep, CloseError, CloseBegin, CloseMarkError, CloseSignal, CloseSignalError,
              CloseFutureError, CloseShutdown, CloseRelease
<1>4. ASSUME NEW r \in Runs,
             WorkerStep(r) \/ ControllerStep(r) \/ TraceError(r) \/ WorkerError(r)
      PROVE  Quiet
  <2>1. wpc[r] \notin {"idle", "done"} => status[r] # "absent"
    BY DEF CallInv, FutureInv
  <2>2. CASE WorkerClaim(r) \/ WorkerClaimCancelled(r)
    BY <2>2, FinishQuiet DEF WorkerClaim, WorkerClaimCancelled, ActiveStatuses
  <2>3. CASE WorkerComplete(r)
    BY <2>1, <2>3, FinishQuiet DEF WorkerComplete, Worker, ActiveStatuses
  <2>4. CASE WorkerStop(r)
    BY <2>1, <2>4, FinishQuiet DEF WorkerStop, Worker, ActiveStatuses
  <2> QED BY <1>4, <2>2, <2>3, <2>4
          DEF WorkerStep, ControllerStep, WorkerTake, WorkerBuild,
              WorkerRegister, WorkerCheck, RunCancelled, RunDeadline, RunRaises, RunReturns,
              Trace, TraceError, WorkerError, WorkerUnregister, WorkerClose
<1>5. CASE Crash \/ NextDay \/ UNCHANGED vars
  BY <1>5 DEF Crash, NextDay, vars
<1>6. CASE Boot
  BY <1>6 DEF Boot, Quiet, Active, ActiveStatuses
<1>7. ASSUME NEW r \in Runs, Expire(r) PROVE Quiet
  BY <1>7 DEF Expire
<1> QED BY <1>1, <1>2, <1>3, <1>4, <1>5, <1>6, <1>7 DEF Next

\* Counting: a set of runs that did not grow, or grew by one run.
LEMMA CountSame ==
    ASSUME NEW S \in SUBSET Runs, NEW T \in SUBSET S, NEW n \in Nat, Cardinality(S) <= n
    PROVE  Cardinality(T) <= n
<1>1. IsFiniteSet(S)
  BY RunServiceAssumption, FS_Subset
<1>2. Cardinality(S) \in Nat /\ Cardinality(T) \in Nat /\ Cardinality(T) <= Cardinality(S)
  BY <1>1, FS_Subset, FS_CardinalityType
<1> QED BY <1>2

LEMMA CountOneMore ==
    ASSUME NEW S \in SUBSET Runs, NEW r \in Runs, NEW T \in SUBSET (S \cup {r}), NEW n \in Nat,
           Cardinality(S) < n
    PROVE  Cardinality(T) <= n
<1>1. IsFiniteSet(S) /\ Cardinality(S) \in Nat
  BY RunServiceAssumption, FS_Subset, FS_CardinalityType
<1>2. IsFiniteSet(S \cup {r}) /\ Cardinality(S \cup {r}) <= Cardinality(S) + 1
  <2>1. /\ IsFiniteSet(S \cup {r})
        /\ Cardinality(S \cup {r}) = Cardinality(S) \/ Cardinality(S \cup {r}) = Cardinality(S) + 1
    BY <1>1, FS_AddElement, Zenon
  <2> QED BY <1>1, <2>1
<1>3. Cardinality(S \cup {r}) \in Nat /\ Cardinality(T) \in Nat
      /\ Cardinality(T) <= Cardinality(S \cup {r})
  BY <1>2, FS_Subset, FS_CardinalityType
<1> QED BY <1>1, <1>2, <1>3

LEMMA AdmissionStep ==
    ASSUME Inv, AdmissionLimits, [Next]_vars
    PROVE  AdmissionLimits'
<1> USE RunServiceAssumption
<1>0. /\ MaxConcurrency + MaxQueued \in Nat /\ MaxLive \in Nat /\ MaxLivePerDay \in Nat
      /\ Active \in SUBSET Runs /\ LiveActive \in SUBSET Runs
      /\ \A d : LiveOn(d) \in SUBSET Runs
  BY DEF Active, LiveActive, LiveOn
<1>1. CASE Quiet
  <2>1. Active' \in SUBSET Active /\ LiveActive' \in SUBSET LiveActive
        /\ \A d : LiveOn(d)' \in SUBSET LiveOn(d)
    BY <1>1 DEF Quiet, Active, LiveActive, LiveOn
  <2>2. Cardinality(Active') <= MaxConcurrency + MaxQueued
    BY <1>0, <2>1, CountSame DEF AdmissionLimits
  <2>3. Cardinality(LiveActive') <= MaxLive
    BY <1>0, <2>1, CountSame DEF AdmissionLimits
  <2>4. ASSUME NEW d \in 1..MaxDay PROVE Cardinality(LiveOn(d)') <= MaxLivePerDay
    BY <1>0, <2>1, CountSame DEF AdmissionLimits
  <2> QED BY <2>2, <2>3, <2>4 DEF AdmissionLimits
<1>2. ASSUME NEW r \in Runs, AdmitNew(r) PROVE AdmissionLimits'
  <2> DEFINE q == th[r].req
  <2>1. /\ status' = [status EXCEPT ![r] = "queued"]
        /\ req' = [req EXCEPT ![r] = q]
        /\ day' = [day EXCEPT ![r] = th[r].day]
        /\ HasCapacity(q, th[r].day)
        /\ status[r] = "absent"
    BY <1>2, InvParts DEF AdmitNew, CallInv
  <2>2. /\ status \in [Runs -> Statuses] /\ DOMAIN req = Runs /\ DOMAIN day = Runs
    BY InvParts DEF TypeOK
  <2>3. /\ status'[r] = "queued" /\ req'[r] = q /\ day'[r] = th[r].day
        /\ \A x \in Runs : x # r => status'[x] = status[x] /\ req'[x] = req[x] /\ day'[x] = day[x]
    BY <2>1, <2>2 DEF TypeOK
  <2>4. Active' \in SUBSET (Active \cup {r})
    BY <2>3 DEF Active
  <2>5. Cardinality(Active') <= MaxConcurrency + MaxQueued
    BY <1>0, <2>1, <2>4, CountOneMore DEF HasCapacity
  <2>6. CASE q.live
    <3>1. LiveActive' \in SUBSET (LiveActive \cup {r})
      BY <2>3 DEF LiveActive, Active
    <3>2. Cardinality(LiveActive') <= MaxLive
      BY <1>0, <2>1, <2>6, <3>1, CountOneMore DEF HasCapacity
    <3>3. ASSUME NEW d \in 1..MaxDay PROVE Cardinality(LiveOn(d)') <= MaxLivePerDay
      <4>1. CASE d = th[r].day
        <5>1. LiveOn(d)' \in SUBSET (LiveOn(d) \cup {r})
          BY <2>3 DEF LiveOn
        <5> QED BY <1>0, <2>1, <2>6, <4>1, <5>1, CountOneMore DEF HasCapacity
      <4>2. CASE d # th[r].day
        <5>1. LiveOn(d)' \in SUBSET LiveOn(d)
          BY <2>3, <4>2 DEF LiveOn
        <5> QED BY <1>0, <5>1, CountSame DEF AdmissionLimits
      <4> QED BY <4>1, <4>2
    <3> QED BY <2>5, <3>2, <3>3 DEF AdmissionLimits
  <2>7. CASE ~q.live
    <3>1. LiveActive' \in SUBSET LiveActive /\ \A d : LiveOn(d)' \in SUBSET LiveOn(d)
      BY <2>3, <2>7 DEF LiveActive, Active, LiveOn
    <3>2. Cardinality(LiveActive') <= MaxLive
      BY <1>0, <3>1, CountSame DEF AdmissionLimits
    <3>3. ASSUME NEW d \in 1..MaxDay PROVE Cardinality(LiveOn(d)') <= MaxLivePerDay
      BY <1>0, <3>1, CountSame DEF AdmissionLimits
    <3> QED BY <2>5, <3>2, <3>3 DEF AdmissionLimits
  <2> QED BY <2>6, <2>7
<1> QED BY <1>1, <1>2, OnlyStartAdmits

LEMMA AdmissionInit == Init => AdmissionLimits
<1> SUFFICES ASSUME Init PROVE AdmissionLimits
  OBVIOUS
<1>1. Active = {} /\ LiveActive = {} /\ \A d : LiveOn(d) = {}
  BY DEF Init, Active, LiveActive, LiveOn, ActiveStatuses
<1>2. Cardinality({}) = 0
  BY FS_EmptySet
<1> QED BY <1>1, <1>2, RunServiceAssumption DEF AdmissionLimits

(* Whatever the number of workers, queue slots, live slots and calls, admission *)
(* never exceeds them.                                                         *)
THEOREM AdmissionLimitsCorrect == Spec => []AdmissionLimits
<1>1. Inv /\ AdmissionLimits /\ [Next]_vars => AdmissionLimits'
  BY AdmissionStep
<1> QED BY <1>1, AdmissionInit, InvCorrect, PTL DEF Spec
-----------------------------------------------------------------------------
(* History: what a step may do to a row and its log.                         *)

Final == {"completed", "failed", "timed_out"}
Outcome(s) == IF s = "cancelled" THEN "cancellation_acknowledged" ELSE s

Kept(r) == status'[r] = status[r] /\ log'[r] = log[r]
Admitted(r) ==
    /\ status[r] = "absent" /\ status'[r] = "queued" /\ log'[r] = Append(log[r], "queued")
GoesOn(r) ==
    /\ status[r] \in ActiveStatuses /\ status'[r] \in ActiveStatuses
    /\ \/ log'[r] = log[r]
       \/ \E k \in Kinds \ TerminalKinds : log'[r] = Append(log[r], k)
IsOver(r) ==
    /\ status[r] \notin Final \cup {"absent"} /\ status'[r] \in TerminalStatuses
    /\ log'[r] = Append(log[r], Outcome(status'[r]))
RowStep(r) == Kept(r) \/ Admitted(r) \/ GoesOn(r) \/ IsOver(r)
RowSteps == \A r \in Runs : RowStep(r)

\* What a worker reported is of a run no call is about to submit or withdraw.
FinalInv ==
    \A r \in Runs : status[r] \in Final =>
        th[r].pc # "submit" /\ future[r] \notin {"pending", "cancelled"}

\* A transaction that writes an outcome.
LEMMA FinishRow ==
    ASSUME TypeOK, NEW r \in Runs, NEW s \in TerminalStatuses, Finish(r, s, Outcome(s)),
           status[r] \notin Final \cup {"absent"}
    PROVE  RowSteps
<1>1. /\ status'[r] = s /\ log'[r] = Append(log[r], Outcome(s))
      /\ \A x \in Runs \ {r} : status'[x] = status[x] /\ log'[x] = log[x]
  BY DEF Finish, Note, TypeOK
<1>2. \A x \in Runs \ {r} : Kept(x)
  BY <1>1 DEF Kept
<1>3. IsOver(r)
  BY <1>1 DEF IsOver
<1> QED
  BY <1>2, <1>3 DEF RowSteps, RowStep

\* A transaction that leaves the run active.
LEMMA NoteRow ==
    ASSUME TypeOK, NEW r \in Runs, NEW s \in ActiveStatuses, NEW k \in Kinds \ TerminalKinds,
           Finish(r, s, k), status[r] \in ActiveStatuses
    PROVE  RowSteps
<1>1. /\ status'[r] = s /\ log'[r] = Append(log[r], k)
      /\ \A x \in Runs \ {r} : status'[x] = status[x] /\ log'[x] = log[x]
  BY DEF Finish, Note, TypeOK
<1>2. \A x \in Runs \ {r} : Kept(x)
  BY <1>1 DEF Kept
<1>3. GoesOn(r)
  BY <1>1 DEF GoesOn
<1> QED
  BY <1>2, <1>3 DEF RowSteps, RowStep

\* No transaction.
LEMMA SameRows == UNCHANGED <<status, log>> => RowSteps
  BY DEF RowSteps, RowStep, Kept

\* Outcomes and their events.
LEMMA Outcomes ==
    /\ Outcome("cancelled") = "cancellation_acknowledged" /\ Outcome("completed") = "completed"
    /\ Outcome("failed") = "failed" /\ Outcome("timed_out") = "timed_out"
    /\ Outcome("interrupted") = "interrupted"
    /\ {"completed", "failed", "cancelled", "timed_out", "interrupted"} = TerminalStatuses
    /\ \A s \in TerminalStatuses : Outcome(s) \in TerminalKinds
    /\ \A s \in ActiveStatuses : s \notin Final \cup {"absent"} \cup TerminalStatuses
  BY DEF Outcome, TerminalStatuses, TerminalKinds, ActiveStatuses, Final

\* Every step does to every row one of these four things.
LEMMA RowStepsHold ==
    ASSUME Inv, FinalInv, [Next]_vars
    PROVE  RowSteps
<1> USE InvParts, SameRows, Outcomes DEF rows, service, workers, environment
<1>1. ASSUME NEW r \in Runs, Start(r) PROVE RowSteps
  <2>1. CASE StartTakeBack(r)
    <3>1. status[r] \notin Final \cup {"absent"}
      BY <2>1 DEF StartTakeBack, CallInv, FinalInv
    <3> QED
      BY <2>1, <3>1, FinishRow DEF StartTakeBack
  <2>2. CASE AdmitNew(r)
    <3>1. status[r] = "absent" /\ \A x \in Runs \ {r} : Kept(x)
      BY <2>2 DEF AdmitNew, CallInv, Kept, Note, TypeOK
    <3>2. Admitted(r)
      BY <2>2, <3>1 DEF AdmitNew, Admitted, Note, TypeOK
    <3> QED
      BY <3>1, <3>2 DEF RowSteps, RowStep
  <2> QED
    BY <1>1, <2>1, <2>2 DEF Start, StartCheck, AdmitExisting, AdmitRejected, StartSubmit,
                            StartTakeBackError
<1>2. ASSUME NEW t \in Cancellers, Cancel(t) PROVE RowSteps
  <2>1. ASSUME NEW r \in Runs, CancelMark(t, r) PROVE RowSteps
    <3>1. "cancellation_requested" \in Kinds \ TerminalKinds /\ "cancelling" \in ActiveStatuses
      BY DEF Kinds, TerminalKinds, ActiveStatuses
    <3> QED
      BY <2>1, <3>1, NoteRow DEF CancelMark, Finish
  <2>2. CASE CancelQueued(t)
    <3>1. PICK r \in Runs : Finish(r, "cancelled", "cancellation_acknowledged")
                            /\ future[r] = "pending"
      BY <2>2 DEF CancelQueued, TypeOK
    <3>2. status[r] \notin Final \cup {"absent"}
      BY <3>1 DEF CallInv, FinalInv
    <3> QED
      BY <3>1, <3>2, FinishRow
  <2> QED
    BY <1>2, <2>1, <2>2 DEF Cancel, CancelRunning, CancelQueuedError, CancelNothing
<1>3. ASSUME NEW t \in Closers, CloseBegin(t) \/ CloseStep(t) \/ CloseError(t)
      PROVE  RowSteps
  <2>1. CASE CloseMark(t)
    <3>1. "cancellation_requested" \in Kinds \ TerminalKinds /\ "cancelling" \in ActiveStatuses
      BY DEF Kinds, TerminalKinds, ActiveStatuses
    <3>2. \A r \in Runs \ Active : Kept(r)
      BY <2>1 DEF CloseMark, Kept
    <3>3. \A r \in Active : GoesOn(r)
      BY <2>1, <3>1 DEF CloseMark, GoesOn, Active
    <3> QED
      BY <3>2, <3>3 DEF RowSteps, RowStep
  <2>2. ASSUME NEW r \in Runs, CloseFuture(t, r) PROVE RowSteps
    <3>1. status[r] \notin Final \cup {"absent"}
      BY <2>2 DEF CloseFuture, CallInv, FinalInv
    <3> QED
      BY <2>2, <3>1, FinishRow DEF CloseFuture
  <2> QED
    BY <1>3, <2>1, <2>2
       DEF CloseStep, CloseError, CloseBegin, CloseMarkError, CloseSignal, CloseSignalError,
           CloseFutureError, CloseShutdown, CloseRelease
<1>4. ASSUME NEW r \in Runs,
             WorkerStep(r) \/ ControllerStep(r) \/ TraceError(r) \/ WorkerError(r)
      PROVE  RowSteps
  <2>1. wpc[r] \in Executing => status[r] \in ActiveStatuses
    BY DEF OutcomeInv, ActiveStatuses
  <2>2. CASE WorkerClaim(r)
    <3>1. /\ "started" \in Kinds \ TerminalKinds /\ "running" \in ActiveStatuses
          /\ status[r] \in ActiveStatuses
      BY <2>2 DEF WorkerClaim, Kinds, TerminalKinds, ActiveStatuses
    <3> QED
      BY <2>2, <3>1, NoteRow DEF WorkerClaim
  <2>3. CASE WorkerClaimCancelled(r)
    <3>1. status[r] \notin Final \cup {"absent"}
      BY <2>3 DEF WorkerClaimCancelled, ActiveStatuses
    <3> QED
      BY <2>3, <3>1, FinishRow DEF WorkerClaimCancelled
  <2>4. CASE WorkerComplete(r)
    <3>1. PICK s \in TerminalStatuses : Finish(r, s, Outcome(s))
      BY <2>4 DEF WorkerComplete
    <3>2. wpc[r] \in Executing
      BY <2>4 DEF WorkerComplete, Worker, Executing
    <3> QED
      BY <2>1, <3>1, <3>2, FinishRow
  <2>5. CASE WorkerStop(r)
    <3>1. PICK s \in TerminalStatuses : Finish(r, s, Outcome(s))
      BY <2>5 DEF WorkerStop
    <3>2. wpc[r] \in Executing
      BY <2>5 DEF WorkerStop, Worker, Executing
    <3> QED
      BY <2>1, <3>1, <3>2, FinishRow
  <2>6. CASE Trace(r)
    <3>1. "trace" \in Kinds \ TerminalKinds /\ status[r] \in ActiveStatuses
      BY <2>1, <2>6 DEF Trace, Kinds, TerminalKinds, Executing
    <3>2. Finish(r, status[r], "trace")
      BY <2>6 DEF Trace, Finish, TypeOK
    <3> QED
      BY <3>1, <3>2, NoteRow
  <2> QED
    BY <1>4, <2>2, <2>3, <2>4, <2>5, <2>6
       DEF WorkerStep, ControllerStep, WorkerTake, WorkerBuild,
           WorkerRegister, WorkerCheck, RunCancelled, RunDeadline, RunRaises, RunReturns,
           TraceError, WorkerError, WorkerUnregister, WorkerClose
<1>5. CASE Crash \/ NextDay \/ UNCHANGED vars
  BY <1>5 DEF Crash, NextDay, vars
<1>6. CASE Boot
  <2>1. \A r \in Runs \ Active : Kept(r)
    BY <1>6 DEF Boot, Kept
  <2>2. \A r \in Active : IsOver(r)
    BY <1>6 DEF Boot, IsOver, Active
  <2> QED
    BY <2>1, <2>2 DEF RowSteps, RowStep
<1>7. ASSUME NEW r \in Runs, Expire(r) PROVE RowSteps
  BY <1>7 DEF Expire
<1> QED
  BY <1>1, <1>2, <1>3, <1>4, <1>5, <1>6, <1>7 DEF Next

\* Which calls are between admission and submission, and which futures wait.
Waits(r) == th[r].pc = "submit" \/ future[r] \in {"pending", "cancelled"}
NoneBegins ==
    \A r \in Runs : /\ Waits(r)' => Waits(r)
                    /\ status'[r] \in Final => status[r] \in Final \/ ~Waits(r)

\* A call that moves anywhere but to the submission.
LEMMA MovesWait ==
    ASSUME NEW t \in Threads, NEW a, NEW b, Moves(t, a, b), b # "submit",
           \A r \in Runs : future'[r] \in {"pending", "cancelled"} => Waits(r),
           \A r \in Runs : status'[r] \in Final => status[r] \in Final
    PROVE  NoneBegins
<1>1. \A r \in Runs : th'[r].pc = "submit" => th[r].pc = "submit"
  BY Disjoint DEF Moves
<1> QED
  BY <1>1 DEF NoneBegins, Waits

\* A step that is no call.
LEMMA OtherWait ==
    ASSUME th' = th,
           \A r \in Runs : future'[r] \in {"pending", "cancelled"} => future[r] \in {"pending", "cancelled"},
           \A r \in Runs : status'[r] \in Final => status[r] \in Final \/ ~Waits(r)
    PROVE  NoneBegins
  BY DEF NoneBegins, Waits

\* Only an admission makes a call wait, and only of a worker that runs the outcome
\* is final.
LEMMA NoneBeginsHolds ==
    ASSUME Inv, [Next]_vars
    PROVE  NoneBegins \/ \E r \in Runs : AdmitNew(r)
<1> USE InvParts, Disjoint, Outcomes DEF rows, service, workers, environment
<1>0. "cancelled" \notin Final /\ "running" \notin Final /\ "cancelling" \notin Final
      /\ "interrupted" \notin Final
  BY DEF Final
<1>1. ASSUME NEW r \in Runs, Start(r), ~AdmitNew(r) PROVE NoneBegins
  <2>1. CASE StartTakeBack(r)
    <3>1. \A x \in Runs : status'[x] \in Final => status[x] \in Final
      BY <1>0, <2>1 DEF StartTakeBack, Finish, TypeOK
    <3> QED
      BY <2>1, <3>1, StartMoves, MovesWait DEF StartTakeBack, Waits
  <2>2. CASE StartSubmit(r)
    <3>1. \A x \in Runs : future'[x] \in {"pending", "cancelled"} => Waits(x)
      BY <2>2 DEF StartSubmit, Waits, TypeOK
    <3> QED
      BY <2>2, <3>1, StartMoves, MovesWait DEF StartSubmit
  <2>3. ASSUME Moves(r, "idle", "admit") \/ Moves(r, "admit", "done"), UNCHANGED <<status, future>>
        PROVE  NoneBegins
    BY <2>3, MovesWait DEF Waits
  <2>4. ASSUME NEW q \in Requests, StartCheck(r, q) PROVE NoneBegins
    BY <2>3, <2>4, StartMoves DEF StartCheck
  <2>5. ASSUME NEW x \in Runs, AdmitExisting(r, x) PROVE NoneBegins
    BY <2>3, <2>5, StartMoves DEF AdmitExisting
  <2>6. CASE AdmitRejected(r)
    BY <2>3, <2>6, StartMoves DEF AdmitRejected
  <2>7. CASE StartTakeBackError(r)
    BY <2>7, StartMoves, MovesWait DEF StartTakeBackError, Waits
  <2> QED
    BY <1>1, <2>1, <2>2, <2>4, <2>5, <2>6, <2>7 DEF Start
<1>2. ASSUME NEW t \in Cancellers, Cancel(t) PROVE NoneBegins
  <2>1. ASSUME NEW r \in Runs, CancelMark(t, r) PROVE NoneBegins
    <3>1. \A x \in Runs : status'[x] \in Final => status[x] \in Final
      BY <1>0, <2>1 DEF CancelMark, TypeOK
    <3> QED
      BY <2>1, <3>1, CancelMoves, MovesWait DEF CancelMark, Waits
  <2>2. CASE CancelQueued(t)
    <3>1. PICK r \in Runs : /\ future[r] = "pending" /\ future' = [future EXCEPT ![r] = "cancelled"]
                            /\ Finish(r, "cancelled", "cancellation_acknowledged")
      BY <2>2 DEF CancelQueued, TypeOK
    <3>2. \A x \in Runs : status'[x] \in Final => status[x] \in Final
      BY <1>0, <3>1 DEF Finish, TypeOK
    <3>3. \A x \in Runs : future'[x] \in {"pending", "cancelled"} => Waits(x)
      BY <3>1 DEF Waits, TypeOK
    <3> QED
      BY <2>2, <3>2, <3>3, CancelMoves, MovesWait
  <2>3. CASE CancelRunning(t)
    BY <2>3, CancelMoves, MovesWait DEF CancelRunning, Waits
  <2>4. CASE CancelNothing(t)
    BY <2>4, CancelMoves, MovesWait DEF CancelNothing, Waits
  <2>5. CASE CancelQueuedError(t)
    <3>1. PICK r \in Runs : future[r] = "pending" /\ future' = [future EXCEPT ![r] = "cancelled"]
      BY <2>5 DEF CancelQueuedError, TypeOK
    <3>2. \A x \in Runs : future'[x] \in {"pending", "cancelled"} => Waits(x)
      BY <3>1 DEF Waits, TypeOK
    <3>3. status' = status
      BY <2>5 DEF CancelQueuedError
    <3> QED
      BY <2>5, <3>2, <3>3, CancelMoves, MovesWait
  <2> QED
    BY <1>2, <2>1, <2>2, <2>3, <2>4, <2>5 DEF Cancel
<1>3. ASSUME NEW t \in Closers, CloseBegin(t) \/ CloseStep(t) \/ CloseError(t)
      PROVE  NoneBegins
  <2>1. ASSUME NEW a, NEW b \in {"mark", "loops", "raised", "done"}, Moves(t, a, b),
               UNCHANGED <<status, future>>
        PROVE  NoneBegins
    BY <2>1, MovesWait DEF Waits
  <2>2. CASE CloseBegin(t) \/ CloseMarkError(t) \/ CloseRelease(t)
    BY <2>1, <2>2, CloseMoves DEF CloseBegin, CloseMarkError, CloseRelease
  <2>3. ASSUME NEW r \in Runs, CloseSignal(t, r) \/ CloseSignalError(t, r) PROVE NoneBegins
    BY <2>1, <2>3, CloseMoves DEF CloseSignal, CloseSignalError
  <2>4. CASE CloseMark(t)
    <3>1. \A x \in Runs : status'[x] \in Final => status[x] \in Final
      BY <1>0, <2>4 DEF CloseMark
    <3> QED
      BY <2>4, <3>1, CloseMoves, MovesWait DEF CloseMark, Waits
  <2>5. ASSUME NEW r \in Runs, CloseFuture(t, r) PROVE NoneBegins
    <3>1. \A x \in Runs : status'[x] \in Final => status[x] \in Final
      BY <1>0, <2>5 DEF CloseFuture, Finish, TypeOK
    <3>2. \A x \in Runs : future'[x] \in {"pending", "cancelled"} => Waits(x)
      BY <2>5 DEF CloseFuture, Waits, TypeOK
    <3> QED
      BY <2>5, <3>1, <3>2, CloseMoves, MovesWait
  <2>6. CASE CloseShutdown(t)
    <3>1. \A x \in Runs : future'[x] \in {"pending", "cancelled"} => Waits(x)
      BY <2>6 DEF CloseShutdown, Waits
    <3> QED
      BY <2>6, <3>1, CloseMoves, MovesWait DEF CloseShutdown
  <2>7. ASSUME NEW r \in Runs, CloseFutureError(t, r) PROVE NoneBegins
    <3>1. \A x \in Runs : future'[x] \in {"pending", "cancelled"} => Waits(x)
      BY <2>7 DEF CloseFutureError, Waits, TypeOK
    <3>2. status' = status
      BY <2>7 DEF CloseFutureError
    <3> QED
      BY <2>7, <3>1, <3>2, CloseMoves, MovesWait
  <2> QED
    BY <1>3, <2>2, <2>3, <2>4, <2>5, <2>6, <2>7 DEF CloseStep, CloseError
<1>4. ASSUME NEW r \in Runs,
             WorkerStep(r) \/ ControllerStep(r) \/ TraceError(r) \/ WorkerError(r)
      PROVE  NoneBegins
  <2>1. ASSUME UNCHANGED <<th, future>>, NEW s, NEW k, Finish(r, s, k),
               wpc[r] \notin {"idle", "done"}
        PROVE  NoneBegins
    <3>1. ~Waits(r)
      BY <2>1 DEF Waits, CallInv, FutureInv
    <3>2. \A x \in Runs \ {r} : status'[x] = status[x]
      BY <2>1 DEF Finish, TypeOK
    <3> QED
      BY <2>1, <3>1, <3>2, OtherWait
  <2>2. CASE WorkerClaim(r) \/ WorkerClaimCancelled(r)
    BY <2>1, <2>2 DEF WorkerClaim, WorkerClaimCancelled, Worker
  <2>3. CASE WorkerComplete(r)
    BY <2>1, <2>3 DEF WorkerComplete, Worker
  <2>4. CASE WorkerStop(r)
    BY <2>1, <2>4 DEF WorkerStop, Worker
  <2>5. CASE WorkerTake(r) \/ WorkerClose(r)
    <3>1. \A x \in Runs : future'[x] \in {"pending", "cancelled"} => future[x] \in {"pending", "cancelled"}
      BY <2>5 DEF WorkerTake, WorkerClose, TypeOK
    <3> QED
      BY <2>5, <3>1, OtherWait DEF WorkerTake, WorkerClose
  <2>6. UNCHANGED <<th, future, status>> => NoneBegins
    BY OtherWait
  <2> QED
    BY <1>4, <2>2, <2>3, <2>4, <2>5, <2>6
       DEF WorkerStep, ControllerStep, WorkerBuild,
           WorkerRegister, WorkerCheck, RunCancelled, RunDeadline, RunRaises, RunReturns,
           Trace, TraceError, WorkerError, WorkerUnregister
<1>5. UNCHANGED <<th, future, status>> => NoneBegins
  BY OtherWait
<1>6. CASE NextDay \/ UNCHANGED vars
  BY <1>5, <1>6 DEF NextDay, vars
<1>7. CASE Crash
  <2>1. \A r \in Runs : th'[r].pc # "submit"
    BY <1>7, CrashMoves
  <2> QED
    BY <1>7, <2>1 DEF Crash, NoneBegins, Waits
<1>8. CASE Boot
  <2>1. \A r \in Runs : status'[r] \in Final => status[r] \in Final
    BY <1>0, <1>8 DEF Boot
  <2> QED
    BY <1>8, <2>1, OtherWait DEF Boot
<1>9. ASSUME NEW r \in Runs, Expire(r) PROVE NoneBegins
  BY <1>5, <1>9 DEF Expire
<1> QED
  BY <1>1, <1>2, <1>3, <1>4, <1>6, <1>7, <1>8, <1>9 DEF Next

\* Outcomes of workers are of calls that are over.
LEMMA FinalStep == Inv /\ FinalInv /\ [Next]_vars => FinalInv'
<1> SUFFICES ASSUME Inv, FinalInv, [Next]_vars PROVE FinalInv'
  OBVIOUS
<1>1. CASE NoneBegins
  BY <1>1 DEF NoneBegins, FinalInv, Waits
<1>2. ASSUME NEW r \in Runs, AdmitNew(r) PROVE FinalInv'
  <2>1. /\ status'[r] = "queued" /\ future' = future
        /\ \A x \in Runs \ {r} : status'[x] = status[x]
    BY <1>2, InvParts DEF AdmitNew, TypeOK, service
  <2>2. \A x \in Runs \ {r} : th'[x].pc = th[x].pc
    BY <1>2, InvParts, StartMoves, Disjoint DEF Moves
  <2> QED
    BY <2>1, <2>2 DEF FinalInv, Final
<1> QED
  BY <1>1, <1>2, NoneBeginsHolds

LEMMA FinalInit == Init => FinalInv
  BY DEF Init, FinalInv, Final

(* The inductive invariant of the rows' history: an absent run has no events. *)
HistoryInv ==
    /\ HistoryMatchesRow
    /\ \A r \in Runs : status[r] = "absent" => log[r] = <<>>

LEMMA AppendFact ==
    ASSUME NEW S, NEW s \in Seq(S), NEW e \in S
    PROVE  /\ Len(Append(s, e)) = Len(s) + 1 /\ Append(s, e)[Len(s) + 1] = e
           /\ \A i \in 1..Len(s) : Append(s, e)[i] = s[i]
           /\ Append(s, e) # <<>> /\ Len(s) \in Nat
  OBVIOUS

LEMMA HistoryStep == Inv /\ FinalInv /\ HistoryInv /\ [Next]_vars => HistoryInv'
<1> SUFFICES ASSUME Inv, FinalInv, HistoryInv, [Next]_vars, NEW r \in Runs
    PROVE  /\ status'[r] \in ActiveStatuses =>
                \A i \in 1..Len(log'[r]) : log'[r][i] \notin TerminalKinds
           /\ status'[r] \in TerminalStatuses =>
                log'[r] # <<>> /\ log'[r][Len(log'[r])] = OutcomeOf(r)'
           /\ status'[r] = "absent" => log'[r] = <<>>
  BY DEF HistoryInv, HistoryMatchesRow
<1> USE Outcomes
<1>1. log[r] \in Seq(Kinds) /\ {"queued"} \subseteq Kinds \ TerminalKinds
      /\ TerminalKinds \subseteq Kinds
  BY InvParts DEF TypeOK, Kinds, TerminalKinds
<1>2. /\ status[r] \in ActiveStatuses =>
           \A i \in 1..Len(log[r]) : log[r][i] \notin TerminalKinds
      /\ status[r] \in TerminalStatuses =>
           log[r] # <<>> /\ log[r][Len(log[r])] = OutcomeOf(r)
      /\ status[r] = "absent" => log[r] = <<>>
  BY DEF HistoryInv, HistoryMatchesRow
<1>3. OutcomeOf(r) = Outcome(status[r]) /\ OutcomeOf(r)' = Outcome(status'[r])
  BY DEF OutcomeOf, Outcome
<1>4. CASE Kept(r)
  BY <1>2, <1>3, <1>4 DEF Kept
<1>5. ASSUME status[r] \in ActiveStatuses \cup {"absent"}, status'[r] \in ActiveStatuses,
             NEW k \in Kinds \ TerminalKinds, log'[r] = Append(log[r], k)
      PROVE  \A i \in 1..Len(log'[r]) : log'[r][i] \notin TerminalKinds
  <2>1. \A i \in 1..Len(log[r]) : log[r][i] \notin TerminalKinds
    BY <1>2, <1>5
  <2> QED
    BY <1>1, <1>5, <2>1, AppendFact
<1>6. CASE Admitted(r)
  <2>1. status'[r] \in ActiveStatuses
    BY <1>6 DEF Admitted, ActiveStatuses
  <2> QED
    BY <1>1, <1>5, <1>6, <2>1 DEF Admitted
<1>7. CASE GoesOn(r)
  <2>1. CASE log'[r] = log[r]
    BY <1>2, <1>7, <2>1 DEF GoesOn
  <2>2. ASSUME NEW k \in Kinds \ TerminalKinds, log'[r] = Append(log[r], k)
        PROVE  \A i \in 1..Len(log'[r]) : log'[r][i] \notin TerminalKinds
    BY <1>5, <1>7, <2>2 DEF GoesOn
  <2>3. \A i \in 1..Len(log'[r]) : log'[r][i] \notin TerminalKinds
    BY <1>2, <1>7, <2>1, <2>2 DEF GoesOn
  <2>4. status'[r] \in ActiveStatuses
    BY <1>7 DEF GoesOn
  <2> QED
    BY <2>3, <2>4
<1>8. CASE IsOver(r)
  <2>1. /\ log'[r] = Append(log[r], Outcome(status'[r])) /\ status'[r] \in TerminalStatuses
        /\ Outcome(status'[r]) \in Kinds
    BY <1>1, <1>8 DEF IsOver
  <2>2. log'[r] # <<>> /\ log'[r][Len(log'[r])] = Outcome(status'[r])
    BY <1>1, <2>1, AppendFact
  <2>3. status'[r] \notin ActiveStatuses \cup {"absent"}
    BY <2>1 DEF TerminalStatuses, ActiveStatuses
  <2> QED
    BY <1>3, <2>1, <2>2, <2>3
<1> QED
  BY <1>4, <1>6, <1>7, <1>8, RowStepsHold DEF RowSteps, RowStep

LEMMA HistoryInit == Init => HistoryInv
  BY DEF Init, HistoryInv, HistoryMatchesRow, ActiveStatuses, TerminalStatuses

(* However calls, workers, crashes and restarts interleave, no log holds an      *)
(* outcome of a run that is active, and the log of every other ends in the        *)
(* outcome that its row states.                                               *)
THEOREM HistoryMatchesRowCorrect == Spec => []HistoryMatchesRow
<1>1. Inv /\ FinalInv /\ HistoryInv /\ [Next]_vars => FinalInv' /\ HistoryInv'
  BY FinalStep, HistoryStep
<1>2. HistoryInv => HistoryMatchesRow
  BY DEF HistoryInv
<1> QED
  BY <1>1, <1>2, FinalInit, HistoryInit, InvCorrect, PTL DEF Spec

(* What a worker reported is never overwritten, by nobody.                       *)
THEOREM WorkerOutcomeIsFinalCorrect == Spec => WorkerOutcomeIsFinal
<1>1. ASSUME Inv, FinalInv, [Next]_vars, NEW r \in Runs,
             status[r] \in {"completed", "failed", "timed_out"}
      PROVE  status'[r] = status[r] /\ log'[r] = log[r]
  <2>1. RowStep(r) /\ status[r] \in Final
    BY <1>1, RowStepsHold DEF RowSteps, Final
  <2> QED
    BY <2>1, Outcomes DEF RowStep, Kept, Admitted, GoesOn, IsOver, Final
<1> DEFINE Stays == \A r \in Runs : status[r] \in {"completed", "failed", "timed_out"} =>
                        status'[r] = status[r] /\ log'[r] = log[r]
<1>2. Inv /\ FinalInv /\ [Next]_vars => [Stays]_vars
  BY <1>1
<1>3. Inv /\ FinalInv /\ [Next]_vars => FinalInv'
  BY FinalStep
<1> QED
  BY <1>2, <1>3, FinalInit, InvCorrect, PTL DEF Spec, WorkerOutcomeIsFinal

-----------------------------------------------------------------------------
(* Idempotency.                                                             *)

\* An answer names a run of the owner, and of the request, that was asked for.
Honest(c) ==
    c.pc = "done" /\ c.run # None =>
        /\ req[c.run] # None
        /\ req[c.run].owner = c.req.owner /\ req[c.run].print = c.req.print

(* The inductive invariant behind IdempotentStart: a row keeps the request of its *)
(* call, and no two rows share a key.                                         *)
RowKeys == \A r \in Runs : req[r] = None <=> status[r] = "absent"
CallKeys ==
    \A r \in Runs : /\ th[r].pc = "admit" => th[r].req # None
                    /\ th[r].pc = "submit" => th[r].req = req[r]
UniqueKeys == \A r, x \in Runs : req[r] # None /\ SameKey(x, req[r]) => x = r
Answers == \A t \in Runs : Honest(th[t])
KeyInv == RowKeys /\ CallKeys /\ UniqueKeys /\ Answers

\* An answer as to a run that has a row.
LEMMA ReturnHonest ==
    ASSUME TypeOK, NEW r \in Runs, NEW q, NEW x, Return(r, q, x),
           x # None => req[x] # None /\ req[x].owner = q.owner /\ req[x].print = q.print
    PROVE  th'[r].pc = "done" /\ Honest(th'[r]) /\ \A u \in Threads \ {r} : th'[u] = th[u]
<1>1. /\ th'[r] = Ended(q, x) /\ \A u \in Threads \ {r} : th'[u] = th[u]
  BY Disjoint DEF Return, Becomes, TypeOK
<1>2. Ended(q, x).pc = "done" /\ Ended(q, x).req = q /\ Ended(q, x).run = x
  BY DEF Ended, Waiting
<1> QED
  BY <1>1, <1>2 DEF Honest

\* What a step may do to the call of a run but for its admission.
CallStep(t) ==
    \/ th'[t] = th[t]
    \/ /\ th'[t].pc # "submit" /\ Honest(th'[t])
       /\ th'[t].pc = "admit" => th'[t].req # None

LEMMA CallStepsHold ==
    ASSUME Inv, KeyInv, [Next]_vars
    PROVE  (\A t \in Runs : CallStep(t)) \/ \E r \in Runs : AdmitNew(r)
<1> DEFINE Goal == \A t \in Runs : CallStep(t)
<1> USE InvParts, Disjoint DEF rows, service, workers, environment
<1>1. th' = th => Goal
  BY DEF CallStep
<1>2. ASSUME NEW r \in Runs, Start(r), ~AdmitNew(r) PROVE Goal
  <2>1. ASSUME NEW q, NEW x, Return(r, q, x),
               x # None => req[x] # None /\ req[x].owner = q.owner /\ req[x].print = q.print
        PROVE  Goal
    BY <2>1, ReturnHonest DEF CallStep
  <2>2. CASE StartTakeBack(r) \/ StartTakeBackError(r)
    BY <2>1, <2>2 DEF StartTakeBack, StartTakeBackError
  <2>3. CASE AdmitRejected(r)
    BY <2>1, <2>3 DEF AdmitRejected
  <2>4. CASE StartSubmit(r)
    <3>1. req[r] # None /\ th[r].req = req[r]
      BY <2>4 DEF StartSubmit, KeyInv, RowKeys, CallKeys, UniqueKeys, Answers, CallInv
    <3> QED
      BY <2>1, <2>4, <3>1 DEF StartSubmit
  <2>5. ASSUME NEW x \in Runs, AdmitExisting(r, x) PROVE Goal
    <3> DEFINE y == IF req[x].print = th[r].req.print THEN x ELSE None
    <3>1. req[x] # None /\ req[x].owner = th[r].req.owner
      BY <2>5 DEF AdmitExisting, SameKey, KeyInv, RowKeys, CallKeys, UniqueKeys, Answers
    <3>2. y # None => req[y] # None /\ req[y].owner = th[r].req.owner
                      /\ req[y].print = th[r].req.print
      BY <3>1
    <3>3. Return(r, th[r].req, y)
      BY <2>5 DEF AdmitExisting
    <3> HIDE DEF y, Goal
    <3> QED
      BY <2>1, <3>2, <3>3
  <2>6. ASSUME NEW q \in Requests, StartCheck(r, q) PROVE Goal
    <3>1. /\ th'[r].pc = "admit" /\ th'[r].req = q /\ \A u \in Threads \ {r} : th'[u] = th[u]
      BY <2>6 DEF StartCheck, Becomes, Waiting, TypeOK
    <3> QED
      BY <3>1, RunServiceAssumption DEF CallStep, Honest
  <2> QED
    BY <1>2, <2>2, <2>3, <2>4, <2>5, <2>6 DEF Start
<1>3. ASSUME NEW t \in Cancellers \cup Closers, NEW c, Becomes(t, c) PROVE Goal
  BY <1>3 DEF Becomes, CallStep, TypeOK
<1>4. ASSUME NEW t \in Cancellers, Cancel(t) PROVE Goal
  BY <1>3, <1>4 DEF Cancel, CancelMark, CancelRunning, CancelQueued, CancelQueuedError,
                    CancelNothing, Return
<1>5. ASSUME NEW t \in Closers, CloseBegin(t) \/ CloseStep(t) \/ CloseError(t)
      PROVE  Goal
  BY <1>3, <1>5
     DEF CloseStep, CloseError, CloseBegin, CloseMark, CloseMarkError, CloseSignal,
         CloseSignalError, CloseFuture, CloseFutureError, CloseShutdown, CloseRelease, Return, Move
<1>6. ASSUME NEW r \in Runs,
             WorkerStep(r) \/ ControllerStep(r) \/ TraceError(r) \/ WorkerError(r)
      PROVE  Goal
  <2>1. th' = th
    BY <1>6
       DEF WorkerStep, ControllerStep, WorkerTake, WorkerClaim, WorkerClaimCancelled, WorkerBuild,
           WorkerRegister, WorkerCheck, RunCancelled, RunDeadline, RunRaises, RunReturns,
           Trace, TraceError, WorkerComplete, WorkerStop, WorkerError, WorkerUnregister, WorkerClose
  <2> QED
    BY <1>1, <2>1
<1>7. ASSUME Crash PROVE Goal
  <2>1. ASSUME NEW t \in Runs
        PROVE  th'[t].pc # "submit" /\ Honest(th'[t]) /\ th'[t].pc # "admit"
    <3>1. th'[t] = Waiting \/ th'[t] = Ended(None, None)
      BY <1>7 DEF Crash
    <3>2. Waiting.pc = "idle" /\ Ended(None, None).pc = "done" /\ Ended(None, None).run = None
      BY DEF Waiting, Ended
    <3> QED
      BY <3>1, <3>2 DEF Honest
  <2> QED
    BY <2>1 DEF CallStep
<1>8. ASSUME Boot \/ NextDay \/ UNCHANGED vars PROVE Goal
  BY <1>1, <1>8 DEF Boot, NextDay, vars
<1>9. ASSUME NEW r \in Runs, Expire(r) PROVE Goal
  BY <1>1, <1>9 DEF Expire
<1>10. Goal \/ \E r \in Runs : AdmitNew(r)
  <2>1. CASE UNCHANGED vars
    BY <1>8, <2>1
  <2>2. CASE Next
    <3> HIDE DEF Goal
    <3> QED
      BY <1>2, <1>4, <1>5, <1>6, <1>7, <1>8, <1>9, <2>2 DEF Next
  <2> QED
    BY <2>1, <2>2
<1> QED
  BY <1>10

LEMMA KeyStep == Inv /\ FinalInv /\ KeyInv /\ [Next]_vars => KeyInv'
<1> SUFFICES ASSUME Inv, FinalInv, KeyInv, [Next]_vars PROVE KeyInv'
  OBVIOUS
<1>0. \A t \in Runs : th[t] \in Calls /\ th'[t] \in Calls
  BY TypeNext, InvParts, Disjoint DEF TypeOK
<1>1. ASSUME NEW r \in Runs, AdmitNew(r) PROVE KeyInv'
  <2> DEFINE q == th[r].req
  <2>1. /\ status[r] = "absent" /\ status'[r] = "queued" /\ req'[r] = q
        /\ \A x \in Runs \ {r} : status'[x] = status[x] /\ req'[x] = req[x]
        /\ \A x \in Runs : ~SameKey(x, q)
    BY <1>1, InvParts DEF AdmitNew, CallInv, TypeOK
  <2>2. /\ th'[r].pc = "submit" /\ th'[r].req = q
        /\ \A u \in Runs \ {r} : th'[u] = th[u]
    <3>1. th'[r] = [th[r] EXCEPT !.pc = "submit"] /\ \A u \in Runs \ {r} : th'[u] = th[u]
      BY <1>1, InvParts, Disjoint DEF AdmitNew, Move, Becomes, TypeOK
    <3> QED
      BY <1>0, <3>1 DEF Calls
  <2>3. q # None
    BY <1>1 DEF AdmitNew, KeyInv, RowKeys, CallKeys, UniqueKeys, Answers
  <2>4. RowKeys'
    BY <2>1, <2>3 DEF KeyInv, RowKeys, CallKeys, UniqueKeys, Answers
  <2>5. CallKeys'
    BY <2>1, <2>2 DEF KeyInv, RowKeys, CallKeys, UniqueKeys, Answers
  <2>6. ASSUME NEW x \in Runs, NEW y \in Runs, req'[x] # None, SameKey(y, req[x])' PROVE y = x
    <3>1. /\ status'[y] # "absent" /\ req'[x].key # NoKey
          /\ req'[y].owner = req'[x].owner /\ req'[y].key = req'[x].key
      BY <2>6 DEF SameKey
    <3>2. CASE x = r /\ y # r
      BY <2>1, <3>1, <3>2 DEF SameKey
    <3>3. CASE y = r /\ x # r
      <4>1. SameKey(x, q)
        BY <2>1, <2>4, <2>6, <3>1, <3>3 DEF SameKey, RowKeys
      <4> QED
        BY <2>1, <4>1
    <3>4. CASE x # r /\ y # r
      <4>1. SameKey(y, req[x]) /\ req[x] # None
        BY <2>1, <2>6, <3>1, <3>4 DEF SameKey
      <4> QED
        BY <4>1 DEF KeyInv, RowKeys, CallKeys, UniqueKeys, Answers
    <3> QED
      BY <3>2, <3>3, <3>4
  <2>7. ASSUME NEW t \in Runs PROVE Honest(th[t])'
    <3>1. CASE t = r
      BY <2>2, <3>1 DEF Honest
    <3>2. CASE t # r /\ th[t].run # r
      <4>1. th[t].run # None => th[t].run \in Runs
        BY <1>0 DEF Calls
      <4> QED
        BY <2>1, <2>2, <3>2, <4>1 DEF Honest, KeyInv, RowKeys, CallKeys, UniqueKeys, Answers
    <3>3. CASE t # r /\ th[t].run = r
      <4>1. req[r] = None
        BY <2>1 DEF KeyInv, RowKeys, CallKeys, UniqueKeys, Answers
      <4> QED
        BY <2>2, <3>3, <4>1 DEF Honest, KeyInv, RowKeys, CallKeys, UniqueKeys, Answers
    <3> QED
      BY <3>1, <3>2, <3>3
  <2>8. UniqueKeys' /\ Answers'
    BY <2>6, <2>7 DEF UniqueKeys, Answers
  <2> QED
    BY <2>4, <2>5, <2>8 DEF KeyInv
<1>2. ASSUME Quiet, \A t \in Runs : CallStep(t) PROVE KeyInv'
  <2>1. req' = req
    BY <1>2 DEF Quiet
  <2>2. ASSUME NEW r \in Runs PROVE status'[r] = "absent" <=> status[r] = "absent"
    <3>1. RowStep(r)
      BY RowStepsHold DEF RowSteps
    <3> QED
      BY <1>2, <3>1 DEF Quiet, RowStep, Kept, Admitted, GoesOn, IsOver, ActiveStatuses, TerminalStatuses
  <2>3. CallKeys'
    BY <1>2, <2>1 DEF CallStep, KeyInv, RowKeys, CallKeys, UniqueKeys, Answers
  <2>4. RowKeys'
    BY <2>1, <2>2 DEF KeyInv, RowKeys, CallKeys, UniqueKeys, Answers
  <2>5. UniqueKeys'
    BY <2>1, <2>2 DEF SameKey, KeyInv, RowKeys, CallKeys, UniqueKeys, Answers
  <2>6. Answers'
    BY <1>2, <2>1 DEF CallStep, KeyInv, RowKeys, CallKeys, UniqueKeys, Answers, Honest
  <2> QED
    BY <2>3, <2>4, <2>5, <2>6 DEF KeyInv
<1> QED
  BY <1>1, <1>2, OnlyStartAdmits, CallStepsHold

LEMMA KeyInit == Init => KeyInv
<1> SUFFICES ASSUME Init PROVE KeyInv
  OBVIOUS
<1>1. \A r \in Runs : th[r].pc = "idle" /\ req[r] = None /\ status[r] = "absent"
  BY Disjoint DEF Init, Waiting
<1> QED
  BY <1>1 DEF KeyInv, RowKeys, CallKeys, UniqueKeys, Answers, Honest

(* Whatever is retried, and by whomever: a key of an owner has one run, and a    *)
(* call that is answered with a run asked for what that run was asked.           *)
THEOREM IdempotentStartCorrect == Spec => []IdempotentStart
<1>1. Inv /\ FinalInv /\ KeyInv /\ [Next]_vars => FinalInv' /\ KeyInv'
  BY FinalStep, KeyStep
<1>2. KeyInv => IdempotentStart
  BY DEF KeyInv, UniqueKeys, Answers, Honest, IdempotentStart
<1> QED
  BY <1>1, <1>2, FinalInit, KeyInit, InvCorrect, PTL DEF Spec

-----------------------------------------------------------------------------
(* Cancellation.                                                            *)

\* Somebody cancelled the task of the run, or is on the way.
Signalled(r) ==
    \/ r \in taskCancelled
    \/ \E t \in Cancellers : th[t].pc = "signal" /\ th[t].run = r /\ th[t].gen = gen
    \/ \E t \in Closers : \/ th[t].pc = "loops" /\ r \in th[t].sigs
                          \/ th[t].pc = "raised"

(* The inductive invariant behind CancelNotLost: a task that runs is registered,  *)
(* so whoever cancels finds its loop.                                         *)
SignalInv ==
    \A r \in Runs : /\ wpc[r] \in {"check", "run"} => r \in loops
                    /\ wpc[r] = "run" /\ cancelReq[r] => Signalled(r)

\* The calls and the service are as before: the worker of one run goes on.
LEMMA SignalWorker ==
    ASSUME SignalInv, UNCHANGED <<th, gen, cancelReq>>, taskCancelled \subseteq taskCancelled',
           NEW r \in Runs, \A x \in Runs \ {r} : wpc'[x] = wpc[x] /\ (x \in loops => x \in loops'),
           wpc'[r] \in {"check", "run"} => r \in loops',
           wpc'[r] = "run" => \/ wpc[r] = "run"
                              \/ cancelReq[r] => r \in taskCancelled'
    PROVE  SignalInv'
<1>1. \A x \in Runs : Signalled(x) => Signalled(x)'
  BY DEF Signalled
<1>2. \A x \in Runs : x \in taskCancelled' => Signalled(x)'
  BY DEF Signalled
<1> QED
  BY <1>1, <1>2 DEF SignalInv

\* A call becomes another, and no other call changes.
LEMMA BecomesCall ==
    ASSUME TypeOK, NEW t \in Threads, NEW c, Becomes(t, c)
    PROVE  th'[t] = c /\ \A u \in Threads \ {t} : th'[u] = th[u]
  BY DEF Becomes, TypeOK

\* A call other than the one that moves keeps its signal.
LEMMA SignalCall ==
    ASSUME SignalInv, UNCHANGED <<gen, wpc, loops>>, NEW t \in Threads,
           \A u \in Threads \ {t} : th'[u] = th[u],
           taskCancelled \subseteq taskCancelled',
           \A r \in Runs : cancelReq'[r] => cancelReq[r] \/ Signalled(r)' \/ wpc[r] # "run",
           th[t].pc \in {"signal", "loops", "raised"} =>
               \A r \in Runs : r \in loops /\ Signalled(r) => Signalled(r)'
    PROVE  SignalInv'
<1>1. ASSUME NEW r \in Runs, r \in loops, Signalled(r) PROVE Signalled(r)'
  <2>1. CASE th[t].pc \in {"signal", "loops", "raised"}
    BY <1>1, <2>1
  <2>2. CASE th[t].pc \notin {"signal", "loops", "raised"}
    <3>1. \A u \in Threads : th[u].pc \in {"signal", "loops", "raised"} => th'[u] = th[u]
      BY <2>2
    <3> QED
      BY <1>1, <3>1, Disjoint DEF Signalled
  <2> QED
    BY <2>1, <2>2
<1> QED
  BY <1>1 DEF SignalInv

LEMMA SignalStep == Inv /\ SignalInv /\ [Next]_vars => SignalInv'
<1> SUFFICES ASSUME Inv, SignalInv, [Next]_vars PROVE SignalInv'
  OBVIOUS
<1> USE InvParts, Disjoint DEF rows, service, workers, environment
<1>1. ASSUME UNCHANGED <<gen, wpc, loops, cancelReq, taskCancelled, th>> PROVE SignalInv'
  BY <1>1 DEF SignalInv, Signalled
<1>2. ASSUME NEW r \in Runs, NEW c, Becomes(r, c),
             UNCHANGED <<gen, wpc, loops, cancelReq, taskCancelled>>
      PROVE  SignalInv'
  <2>1. /\ \A t \in Cancellers \cup Closers : th'[t] = th[t]
        /\ UNCHANGED <<gen, wpc, loops, cancelReq, taskCancelled>>
    BY <1>2 DEF Becomes, TypeOK
  <2>2. \A x \in Runs : Signalled(x) => Signalled(x)'
    BY <2>1 DEF Signalled
  <2> QED
    BY <2>1, <2>2 DEF SignalInv
<1>3. ASSUME NEW r \in Runs, Start(r) PROVE SignalInv'
  BY <1>2, <1>3
     DEF Start, StartCheck, AdmitExisting, AdmitRejected, AdmitNew, StartSubmit, StartTakeBack,
         StartTakeBackError, Return, Move
<1>4. ASSUME NEW t \in Cancellers, NEW r \in Runs, CancelMark(t, r) PROVE SignalInv'
  <2>1. /\ th'[t].pc = "signal" /\ th'[t].run = r /\ th'[t].gen = gen /\ gen' = gen
        /\ \A u \in Threads \ {t} : th'[u] = th[u]
    BY <1>4 DEF CancelMark, Becomes, Waiting, TypeOK
  <2>2. Signalled(r)'
    BY <2>1 DEF Signalled
  <2>3. \A x \in Runs \ {r} : cancelReq'[x] = cancelReq[x]
    BY <1>4 DEF CancelMark, TypeOK
  <2> QED
    BY <1>4, <2>1, <2>2, <2>3, SignalCall DEF CancelMark
<1>5. ASSUME NEW t \in Cancellers,
             CancelRunning(t) \/ CancelQueued(t) \/ CancelQueuedError(t) \/ CancelNothing(t)
      PROVE  SignalInv'
  <2>1. /\ \A u \in Threads \ {t} : th'[u] = th[u]
        /\ UNCHANGED <<gen, wpc, loops, cancelReq>> /\ taskCancelled \subseteq taskCancelled'
    BY <1>5 DEF CancelRunning, CancelQueued, CancelQueuedError, CancelNothing, Return, Becomes,
                TypeOK
  <2>2. th[t].run \in loops => th[t].run \in taskCancelled' \/ th[t].gen # gen
    BY <1>5 DEF CancelRunning, CancelQueued, CancelQueuedError, CancelNothing
  <2>3. \A r \in Runs : r \in loops /\ Signalled(r) => Signalled(r)'
    BY <2>1, <2>2 DEF Signalled
  <2> QED
    BY <2>1, <2>3, SignalCall
<1>6. ASSUME NEW t \in Closers, CloseBegin(t) \/ CloseRelease(t) \/ CloseMarkError(t)
      PROVE  SignalInv'
  <2>1. /\ \A u \in Threads \ {t} : th'[u] = th[u] /\ th[t].pc \in {"idle", "join", "mark"}
        /\ UNCHANGED <<gen, wpc, loops, cancelReq, taskCancelled>>
    BY <1>6 DEF CloseBegin, CloseRelease, CloseMarkError, Return, Move, Becomes, TypeOK
  <2> QED
    BY <2>1, SignalCall
<1>7. ASSUME NEW t \in Closers, CloseMark(t) PROVE SignalInv'
  <2>1. /\ th'[t].pc = "loops" /\ th'[t].sigs = loops /\ th[t].pc = "mark"
        /\ \A u \in Threads \ {t} : th'[u] = th[u]
        /\ UNCHANGED <<gen, wpc, loops, taskCancelled>>
    <3> DEFINE c == [th[t] EXCEPT !.pc = "loops", !.sigs = loops, !.futs = known]
    <3>1. th[t] \in Calls
      BY DEF TypeOK
    <3>2. c.pc = "loops" /\ c.sigs = loops
      BY <3>1 DEF Calls
    <3>3. Becomes(t, c)
      BY <1>7 DEF CloseMark
    <3>4. th'[t] = c /\ \A u \in Threads \ {t} : th'[u] = th[u]
      <4> HIDE DEF c
      <4> QED
        BY <3>3, BecomesCall
    <3>5. th[t].pc = "mark" /\ UNCHANGED <<gen, wpc, loops, taskCancelled>>
      BY <1>7 DEF CloseMark
    <3> HIDE DEF c
    <3> QED
      BY <3>2, <3>4, <3>5
  <2>2. \A r \in loops : Signalled(r)'
    BY <2>1 DEF Signalled
  <2>3. \A r \in Runs : wpc[r] = "run" => Signalled(r)'
    BY <2>2 DEF SignalInv
  <2> QED
    BY <2>1, <2>3, SignalCall
<1>8. ASSUME NEW t \in Closers, NEW r \in Runs, CloseSignal(t, r) PROVE SignalInv'
  <2>1. /\ th'[t].pc = "loops" /\ th'[t].sigs = th[t].sigs \ {r} /\ th[t].pc = "loops"
        /\ \A u \in Threads \ {t} : th'[u] = th[u]
        /\ UNCHANGED <<gen, wpc, loops, cancelReq>>
        /\ taskCancelled' = taskCancelled \cup {r}
    <3> DEFINE c == [th[t] EXCEPT !.sigs = @ \ {r}]
    <3>1. th[t] \in Calls
      BY DEF TypeOK
    <3>2. c.pc = th[t].pc /\ c.sigs = th[t].sigs \ {r}
      BY <3>1 DEF Calls
    <3>3. Becomes(t, c)
      BY <1>8 DEF CloseSignal
    <3>4. th'[t] = c /\ \A u \in Threads \ {t} : th'[u] = th[u]
      <4> HIDE DEF c
      <4> QED
        BY <3>3, BecomesCall
    <3>5. /\ th[t].pc = "loops" /\ UNCHANGED <<gen, wpc, loops, cancelReq>>
          /\ taskCancelled' = taskCancelled \cup {r}
      BY <1>8 DEF CloseSignal
    <3> HIDE DEF c
    <3> QED
      BY <3>2, <3>4, <3>5
  <2>2. \A x \in Runs : Signalled(x) => Signalled(x)'
    BY <2>1 DEF Signalled
  <2> QED
    BY <2>1, <2>2, SignalCall
<1>9. ASSUME NEW t \in Closers, NEW r \in Runs, CloseSignalError(t, r) \/ CloseFutureError(t, r)
      PROVE  SignalInv'
  <2>1. /\ th'[t].pc = "raised" /\ \A u \in Threads \ {t} : th'[u] = th[u]
        /\ UNCHANGED <<gen, wpc, loops, cancelReq, taskCancelled>>
    <3> DEFINE c == [th[t] EXCEPT !.pc = "raised"]
    <3>1. th[t] \in Calls
      BY DEF TypeOK
    <3>2. c.pc = "raised"
      BY <3>1 DEF Calls
    <3>3. Becomes(t, c)
      BY <1>9 DEF CloseSignalError, CloseFutureError, Move
    <3>4. th'[t] = c /\ \A u \in Threads \ {t} : th'[u] = th[u]
      <4> HIDE DEF c
      <4> QED
        BY <3>3, BecomesCall
    <3>5. UNCHANGED <<gen, wpc, loops, cancelReq, taskCancelled>>
      BY <1>9 DEF CloseSignalError, CloseFutureError, Move
    <3> HIDE DEF c
    <3> QED
      BY <3>2, <3>4, <3>5
  <2>2. \A x \in Runs : Signalled(x)'
    BY <2>1 DEF Signalled
  <2> QED
    BY <2>1, <2>2, SignalCall
<1>10. ASSUME NEW t \in Closers, NEW r \in Runs, CloseFuture(t, r) PROVE SignalInv'
  <2>1. /\ th'[t].pc = "loops" /\ th'[t].sigs = th[t].sigs /\ th[t].pc = "loops"
        /\ \A u \in Threads \ {t} : th'[u] = th[u]
        /\ UNCHANGED <<gen, wpc, loops, cancelReq, taskCancelled>>
    <3> DEFINE c == [th[t] EXCEPT !.futs = @ \ {r}]
    <3>1. th[t] \in Calls
      BY DEF TypeOK
    <3>2. c.pc = th[t].pc /\ c.sigs = th[t].sigs
      BY <3>1 DEF Calls
    <3>3. Becomes(t, c)
      BY <1>10 DEF CloseFuture
    <3>4. th'[t] = c /\ \A u \in Threads \ {t} : th'[u] = th[u]
      <4> HIDE DEF c
      <4> QED
        BY <3>3, BecomesCall
    <3>5. th[t].pc = "loops" /\ UNCHANGED <<gen, wpc, loops, cancelReq, taskCancelled>>
      BY <1>10 DEF CloseFuture
    <3> HIDE DEF c
    <3> QED
      BY <3>2, <3>4, <3>5
  <2>2. \A x \in Runs : Signalled(x) => Signalled(x)'
    BY <2>1 DEF Signalled
  <2> QED
    BY <2>1, <2>2, SignalCall
<1>11. ASSUME NEW t \in Closers, CloseShutdown(t) PROVE SignalInv'
  <2>1. /\ th[t].pc = "loops" /\ th[t].sigs = {}
        /\ \A u \in Threads \ {t} : th'[u] = th[u]
        /\ UNCHANGED <<gen, wpc, loops, cancelReq, taskCancelled>>
    BY <1>11 DEF CloseShutdown, Becomes, TypeOK
  <2>2. \A x \in Runs : Signalled(x) => Signalled(x)'
    BY <2>1 DEF Signalled
  <2> QED
    BY <2>1, <2>2, SignalCall
<1>12. ASSUME NEW r \in Runs,
             WorkerStep(r) \/ ControllerStep(r) \/ TraceError(r) \/ WorkerError(r)
      PROVE  SignalInv'
  <2>1. UNCHANGED <<th, gen, cancelReq>>
    BY <1>12
       DEF WorkerStep, ControllerStep, WorkerTake, WorkerClaim, WorkerClaimCancelled, WorkerBuild,
           WorkerRegister, WorkerCheck, RunCancelled, RunDeadline, RunRaises, RunReturns,
           Trace, TraceError, WorkerComplete, WorkerStop, WorkerError, WorkerUnregister, WorkerClose
  <2>2. ASSUME UNCHANGED <<loops, taskCancelled>>, NEW pc, pc \notin {"check", "run"}, Goto(r, pc)
        PROVE  SignalInv'
    <3>1. wpc'[r] = pc /\ \A x \in Runs \ {r} : wpc'[x] = wpc[x]
      BY <2>2 DEF Goto, TypeOK
    <3> QED
      BY <2>1, <2>2, <3>1, SignalWorker
  <2>3. CASE WorkerTake(r) \/ WorkerClaim(r) \/ WorkerClaimCancelled(r) \/ WorkerBuild(r)
             \/ RunCancelled(r) \/ RunDeadline(r) \/ RunRaises(r) \/ RunReturns(r)
             \/ WorkerComplete(r) \/ WorkerStop(r) \/ WorkerError(r)
    BY <2>2, <2>3
       DEF WorkerTake, WorkerClaim, WorkerClaimCancelled, WorkerBuild, RunCancelled, RunDeadline,
           RunRaises, RunReturns, WorkerComplete, WorkerStop, WorkerError, Worker
  <2>4. CASE WorkerRegister(r)
    <3>1. /\ wpc'[r] = "check" /\ \A x \in Runs \ {r} : wpc'[x] = wpc[x]
          /\ loops' = loops \cup {r} /\ taskCancelled' = taskCancelled
      BY <2>4 DEF WorkerRegister, Worker, Goto, TypeOK
    <3> QED
      BY <2>1, <3>1, SignalWorker
  <2>5. CASE WorkerCheck(r)
    <3>1. /\ wpc'[r] = "run" /\ \A x \in Runs \ {r} : wpc'[x] = wpc[x]
          /\ loops' = loops /\ taskCancelled \subseteq taskCancelled'
          /\ wpc[r] = "check" /\ (cancelReq[r] => r \in taskCancelled')
      BY <2>5 DEF WorkerCheck, Worker, Goto, TypeOK
    <3>2. r \in loops'
      BY <3>1 DEF SignalInv
    <3> QED
      BY <2>1, <3>1, <3>2, SignalWorker
  <2>6. CASE WorkerUnregister(r) \/ WorkerClose(r)
    <3>1. /\ wpc'[r] \in {"close", "done"} /\ \A x \in Runs \ {r} : wpc'[x] = wpc[x]
          /\ loops' = loops \ {r} /\ taskCancelled' = taskCancelled
      BY <2>6 DEF WorkerUnregister, WorkerClose, Worker, Goto, TypeOK
    <3> QED
      BY <2>1, <3>1, SignalWorker
  <2>7. CASE Trace(r) \/ TraceError(r)
    BY <1>1, <2>7 DEF Trace, TraceError
  <2> QED
    BY <1>12, <2>3, <2>4, <2>5, <2>6, <2>7 DEF WorkerStep, ControllerStep
<1>13. CASE Crash \/ Boot
  BY <1>13 DEF Crash, Boot, SignalInv
<1>14. CASE NextDay \/ UNCHANGED vars
  BY <1>1, <1>14 DEF NextDay, vars
<1>15. ASSUME NEW r \in Runs, Expire(r) PROVE SignalInv'
  BY <1>1, <1>15 DEF Expire
<1> QED
  BY <1>3, <1>4, <1>5, <1>6, <1>7, <1>8, <1>9, <1>10, <1>11, <1>12, <1>13, <1>14, <1>15
     DEF Next, Cancel, CloseStep, CloseError

LEMMA SignalInit == Init => SignalInv
  BY DEF Init, SignalInv

(* No interleaving of a cancellation with the registration of the loop loses it.  *)
THEOREM CancelNotLostCorrect == Spec => []CancelNotLost
<1>1. Inv /\ SignalInv /\ [Next]_vars => SignalInv'
  BY SignalStep
<1>2. SignalInv => CancelNotLost
  BY DEF SignalInv, Signalled, CancelNotLost
<1> QED
  BY <1>1, <1>2, SignalInit, InvCorrect, PTL DEF Spec

-----------------------------------------------------------------------------
(* Shutdown.                                                                *)

\* Somebody has yet to give the run an outcome: its call, the pool or a worker.
Attended(r) ==
    \/ th[r].pc = "submit" \/ future[r] = "pending" \/ wpc[r] \in Executing \cup {"claim"}

\* What the pool has not taken is in _futures, and in the copy close() made of it.
KnownInv ==
    /\ \A r \in Runs : future[r] = "pending" => r \in known
    /\ \A t \in Closers : th[t].pc = "loops" =>
         \A r \in Runs : future[r] = "pending" => r \in th[t].futs

(* The inductive invariant behind CleanShutdown: without SQLite errors every     *)
(* active run is attended to, also after close() gave the lock up.              *)
AttendedInv == faults = 0 /\ (Serving \/ closed) => \A r \in Active : Attended(r)

\* The pool is given nothing, and no close() copies anything.
LEMMA KnownFrame ==
    ASSUME KnownInv, NEW t \in Threads, \A u \in Threads \ {t} : th'[u] = th[u],
           th'[t].pc = "loops" /\ t \in Closers =>
               \A r \in Runs : future'[r] = "pending" => r \in th'[t].futs,
           \A r \in Runs : future'[r] = "pending" => future[r] = "pending" /\ (r \in known => r \in known')
    PROVE  KnownInv'
  BY Disjoint DEF KnownInv

LEMMA KnownStep == Inv /\ KnownInv /\ [Next]_vars => KnownInv'
<1> SUFFICES ASSUME Inv, KnownInv, [Next]_vars PROVE KnownInv'
  OBVIOUS
<1> USE InvParts, Disjoint DEF rows, service, workers, environment
<1>1. UNCHANGED <<future, known, th>> => KnownInv'
  BY DEF KnownInv
<1>2. ASSUME NEW t \in Runs \cup Cancellers, NEW c, Becomes(t, c), UNCHANGED <<future, known>>
      PROVE  KnownInv'
  BY <1>2, BecomesCall, KnownFrame
<1>3. ASSUME NEW r \in Runs, Start(r) PROVE KnownInv'
  <2>1. CASE StartSubmit(r)
    <3>1. \A t \in Closers : th'[t] = th[t] /\ th[t].pc # "loops"
      BY <2>1, BecomesCall DEF StartSubmit, Return, CloseInv, Closing
    <3> QED
      BY <2>1, <3>1 DEF StartSubmit, KnownInv, TypeOK
  <2> QED
    BY <1>2, <1>3, <2>1
       DEF Start, StartCheck, AdmitExisting, AdmitRejected, AdmitNew, StartTakeBack,
           StartTakeBackError, Return, Move
<1>4. ASSUME NEW t \in Cancellers, Cancel(t) PROVE KnownInv'
  <2>1. CASE CancelQueued(t) \/ CancelQueuedError(t)
    <3>1. \A u \in Threads \ {t} : th'[u] = th[u]
      BY <2>1, BecomesCall DEF CancelQueued, CancelQueuedError, Return
    <3>2. PICK r \in Runs : future' = [future EXCEPT ![r] = "cancelled"] /\ known' = known \ {r}
      BY <2>1 DEF CancelQueued, CancelQueuedError, TypeOK
    <3> QED
      BY <3>1, <3>2, KnownFrame DEF TypeOK
  <2> QED
    BY <1>2, <1>4, <2>1 DEF Cancel, CancelMark, CancelRunning, CancelNothing, Return
<1>5. ASSUME NEW t \in Closers, CloseBegin(t) \/ CloseRelease(t) \/ CloseMarkError(t)
                                \/ \E r \in Runs : CloseSignalError(t, r)
      PROVE  KnownInv'
  <2>1. PICK c : Becomes(t, c) /\ c.pc \in {"mark", "done", "raised"}
    <3>1. th[t] \in Calls
      BY DEF TypeOK
    <3>2. \A pc : [th[t] EXCEPT !.pc = pc].pc = pc
      BY <3>1 DEF Calls
    <3>3. Ended(None, None).pc = "done"
      BY DEF Ended, Waiting
    <3> QED
      BY <1>5, <3>2, <3>3 DEF CloseBegin, CloseRelease, CloseMarkError, CloseSignalError, Move, Return
  <2>2. UNCHANGED <<future, known>>
    BY <1>5 DEF CloseBegin, CloseRelease, CloseMarkError, CloseSignalError
  <2> QED
    BY <2>1, <2>2, BecomesCall, KnownFrame
<1>6. ASSUME NEW t \in Closers, CloseMark(t) PROVE KnownInv'
  <2> DEFINE c == [th[t] EXCEPT !.pc = "loops", !.sigs = loops, !.futs = known]
  <2>1. c.futs = known
    <3>1. th[t] \in Calls
      BY DEF TypeOK
    <3> QED
      BY <3>1 DEF Calls
  <2>2. Becomes(t, c) /\ UNCHANGED <<future, known>>
    BY <1>6 DEF CloseMark
  <2> HIDE DEF c
  <2>3. \A r \in Runs : future[r] = "pending" => r \in c.futs
    BY <2>1 DEF KnownInv
  <2> QED
    BY <2>2, <2>3, BecomesCall, KnownFrame
<1>7. ASSUME NEW t \in Closers, NEW r \in Runs, CloseSignal(t, r) PROVE KnownInv'
  <2> DEFINE c == [th[t] EXCEPT !.sigs = @ \ {r}]
  <2>1. c.futs = th[t].futs
    <3>1. th[t] \in Calls
      BY DEF TypeOK
    <3> QED
      BY <3>1 DEF Calls
  <2>2. Becomes(t, c) /\ UNCHANGED <<future, known>> /\ th[t].pc = "loops"
    BY <1>7 DEF CloseSignal
  <2> HIDE DEF c
  <2>3. \A x \in Runs : future[x] = "pending" => x \in c.futs
    BY <2>1, <2>2 DEF KnownInv
  <2> QED
    BY <2>2, <2>3, BecomesCall, KnownFrame
<1>8. ASSUME NEW t \in Closers, NEW r \in Runs, CloseFuture(t, r) PROVE KnownInv'
  <2> DEFINE c == [th[t] EXCEPT !.futs = @ \ {r}]
  <2>1. c.futs = th[t].futs \ {r}
    <3>1. th[t] \in Calls
      BY DEF TypeOK
    <3> QED
      BY <3>1 DEF Calls
  <2>2. /\ Becomes(t, c) /\ th[t].pc = "loops"
        /\ future' = [future EXCEPT ![r] = "cancelled"] /\ known' = known \ {r}
    BY <1>8 DEF CloseFuture
  <2> HIDE DEF c
  <2>3. \A x \in Runs : future'[x] = "pending" => future[x] = "pending" /\ x # r
    BY <2>2 DEF TypeOK
  <2>4. \A x \in Runs : future'[x] = "pending" => x \in c.futs
    BY <2>1, <2>2, <2>3 DEF KnownInv
  <2>5. th'[t] = c /\ \A u \in Threads \ {t} : th'[u] = th[u]
    BY <2>2, BecomesCall
  <2> QED
    BY <2>2, <2>3, <2>4, <2>5, KnownFrame
<1>9. ASSUME NEW t \in Closers, CloseShutdown(t) PROVE KnownInv'
  <2>1. \A r \in Runs : future'[r] # "pending"
    BY <1>9 DEF CloseShutdown
  <2> QED
    BY <2>1 DEF KnownInv
<1>10. ASSUME NEW r \in Runs,
             WorkerStep(r) \/ ControllerStep(r) \/ TraceError(r) \/ WorkerError(r)
      PROVE  KnownInv'
  <2>1. CASE WorkerTake(r) \/ WorkerClose(r)
    <3>1. \A x \in Runs : future'[x] = "pending" => x # r /\ future[x] = "pending"
      BY <2>1 DEF WorkerTake, WorkerClose, TypeOK
    <3>2. th' = th /\ known \ {r} \subseteq known'
      BY <2>1 DEF WorkerTake, WorkerClose
    <3> QED
      BY <3>1, <3>2 DEF KnownInv
  <2> QED
    BY <1>1, <1>10, <2>1
       DEF WorkerStep, ControllerStep, WorkerClaim, WorkerClaimCancelled, WorkerBuild,
           WorkerRegister, WorkerCheck, RunCancelled, RunDeadline, RunRaises, RunReturns,
           Trace, TraceError, WorkerComplete, WorkerStop, WorkerError, WorkerUnregister
<1>11. CASE Crash \/ Boot
  <2>1. \A r \in Runs : future'[r] # "pending"
    BY <1>11 DEF Crash, Boot
  <2> QED
    BY <2>1 DEF KnownInv
<1>12. CASE NextDay \/ UNCHANGED vars
  BY <1>1, <1>12 DEF NextDay, vars
<1>13. ASSUME NEW r \in Runs, Expire(r) PROVE KnownInv'
  BY <1>1, <1>13 DEF Expire
<1>14. ASSUME NEW t \in Closers, NEW r \in Runs, CloseFutureError(t, r) PROVE KnownInv'
  <2> DEFINE c == [th[t] EXCEPT !.pc = "raised"]
  <2>1. c.pc = "raised"
    <3>1. th[t] \in Calls
      BY DEF TypeOK
    <3> QED
      BY <3>1 DEF Calls
  <2>2. /\ Becomes(t, c)
        /\ future' = [future EXCEPT ![r] = "cancelled"] /\ known' = known \ {r}
    BY <1>14 DEF CloseFutureError, Move
  <2> HIDE DEF c
  <2>3. \A x \in Runs : future'[x] = "pending" => future[x] = "pending" /\ x # r
    BY <2>2 DEF TypeOK
  <2>4. th'[t] = c /\ \A u \in Threads \ {t} : th'[u] = th[u]
    BY <2>2, BecomesCall
  <2> QED
    BY <2>1, <2>2, <2>3, <2>4, KnownFrame
<1> QED
  BY <1>3, <1>4, <1>5, <1>6, <1>7, <1>8, <1>9, <1>10, <1>11, <1>12, <1>13, <1>14
     DEF Next, CloseStep, CloseError

LEMMA KnownInit == Init => KnownInv
<1> SUFFICES ASSUME Init PROVE KnownInv
  OBVIOUS
<1>1. \A t \in Closers : th[t].pc = "idle"
  BY Disjoint DEF Init, Waiting
<1> QED
  BY <1>1 DEF Init, KnownInv

\* A step that makes no run active, and takes nobody off one that stays so.
LEMMA AttendedFrame ==
    ASSUME AttendedInv, faults' = 0 => faults = 0,
           Serving' \/ closed' => Serving \/ closed,
           \A r \in Runs : r \in Active' => r \in Active /\ (Attended(r) => Attended(r)')
    PROVE  AttendedInv'
  BY DEF AttendedInv, Active

\* One of them without a transaction, that is not of a worker or the pool.
LEMMA AttendedSame ==
    ASSUME AttendedInv, UNCHANGED <<status, future, wpc, faults>>,
           Serving' \/ closed' => Serving \/ closed,
           \A r \in Runs : th[r].pc = "submit" => th'[r].pc = "submit"
    PROVE  AttendedInv'
<1>1. Active' = Active
  BY DEF Active
<1>2. \A r \in Runs : Attended(r) => Attended(r)'
  BY DEF Attended
<1> QED
  BY <1>1, <1>2, AttendedFrame DEF Active

\* One that gives one run an outcome.
LEMMA AttendedFinish ==
    ASSUME AttendedInv, TypeOK, NEW r \in Runs, NEW s \in TerminalStatuses, NEW k, Finish(r, s, k),
           UNCHANGED <<faults, lockHolder, closed>>,
           \A x \in Runs \ {r} : /\ future'[x] = future[x] /\ wpc'[x] = wpc[x]
                                 /\ th[x].pc = "submit" => th'[x].pc = "submit"
    PROVE  AttendedInv'
<1>1. /\ \A x \in Runs \ {r} : status'[x] = status[x]
      /\ status'[r] = s /\ s \notin ActiveStatuses
  BY Outcomes DEF Finish, TypeOK
<1>2. r \notin Active' /\ \A x \in Runs \ {r} : x \in Active' => x \in Active
  BY <1>1 DEF Active
<1>3. \A x \in Runs \ {r} : Attended(x) => Attended(x)'
  BY DEF Attended
<1> QED
  BY <1>2, <1>3, AttendedFrame DEF Serving

\* One that moves one worker on.
LEMMA AttendedWorker ==
    ASSUME Inv, AttendedInv, NEW r \in Runs, wpc[r] \notin {"idle", "done"},
           NEW pc, Goto(r, pc), UNCHANGED <<status, faults, lockHolder, closed, th>>,
           \A x \in Runs \ {r} : future'[x] = future[x],
           pc \in Executing \/ wpc[r] \notin Executing \cup {"claim"}
    PROVE  AttendedInv'
<1>1. \A x \in Runs \ {r} : wpc'[x] = wpc[x]
  BY InvParts DEF Goto, TypeOK
<1>2. wpc'[r] = pc
  BY InvParts DEF Goto, TypeOK
<1>3. future[r] # "pending" /\ th[r].pc # "submit"
  BY InvParts DEF CallInv, FutureInv
<1>4. Attended(r) => Attended(r)'
  BY <1>2, <1>3 DEF Attended
<1>5. \A x \in Runs \ {r} : Attended(x) => Attended(x)'
  BY <1>1 DEF Attended
<1> QED
  BY <1>4, <1>5, AttendedFrame DEF Active, Serving

LEMMA AttendedStep == Inv /\ KnownInv /\ AttendedInv /\ [Next]_vars => AttendedInv'
<1> SUFFICES ASSUME Inv, KnownInv, AttendedInv, [Next]_vars PROVE AttendedInv'
  OBVIOUS
<1> USE InvParts, Disjoint DEF rows, service, workers, environment
<1>0. StoreError => faults' # 0
  BY DEF StoreError, TypeOK
<1>1. ASSUME NEW r \in Runs, Start(r) PROVE AttendedInv'
  <2>0. ASSUME NEW c, Becomes(r, c) PROVE \A x \in Runs \ {r} : th'[x] = th[x]
    BY <2>0, BecomesCall
  <2>1. ASSUME NEW c, Becomes(r, c), UNCHANGED <<status, future, wpc, faults, lockHolder, closed>>,
               th[r].pc # "submit"
        PROVE  AttendedInv'
    BY <2>0, <2>1, AttendedSame DEF Serving
  <2>2. CASE StartTakeBack(r)
    <3>1. \A x \in Runs \ {r} : th'[x] = th[x]
      BY <2>0, <2>2 DEF StartTakeBack, Return
    <3> QED
      BY <2>2, <3>1, AttendedFinish, Outcomes DEF StartTakeBack
  <2>3. CASE StartSubmit(r)
    <3>1. \A x \in Runs \ {r} : th'[x] = th[x] /\ future'[x] = future[x]
      BY <2>0, <2>3 DEF StartSubmit, Return, TypeOK
    <3>2. future'[r] = "pending" /\ UNCHANGED <<status, wpc, faults, lockHolder, closed>>
      BY <2>3 DEF StartSubmit, TypeOK
    <3>3. \A x \in Runs : Attended(x) => Attended(x)'
      BY <3>1, <3>2 DEF Attended
    <3> QED
      BY <3>2, <3>3, AttendedFrame DEF Active, Serving
  <2>4. CASE AdmitNew(r)
    <3>1. \A x \in Runs \ {r} : th'[x] = th[x] /\ status'[x] = status[x]
      BY <2>0, <2>4 DEF AdmitNew, Move, TypeOK
    <3>2. th'[r].pc = "submit" /\ UNCHANGED <<future, wpc, faults, lockHolder, closed>>
      BY <2>4, StartMoves DEF AdmitNew, Moves
    <3>3. Attended(r)' /\ \A x \in Runs \ {r} : Attended(x) => Attended(x)'
      BY <3>1, <3>2 DEF Attended
    <3> QED
      BY <3>1, <3>2, <3>3 DEF AttendedInv, Active, Serving
  <2>5. CASE StartTakeBackError(r)
    BY <1>0, <2>5 DEF StartTakeBackError, AttendedInv
  <2> QED
    BY <1>1, <2>1, <2>2, <2>3, <2>4, <2>5
       DEF Start, StartCheck, AdmitExisting, AdmitRejected, Return
<1>2. ASSUME NEW t \in Cancellers \cup Closers, NEW c, Becomes(t, c)
      PROVE  \A x \in Runs : th'[x] = th[x]
  BY <1>2, BecomesCall
<1>3. ASSUME NEW t \in Cancellers, Cancel(t) PROVE AttendedInv'
  <2>1. \A x \in Runs : th'[x] = th[x]
    BY <1>2, <1>3 DEF Cancel, CancelMark, CancelRunning, CancelQueued, CancelQueuedError,
                      CancelNothing, Return
  <2>2. ASSUME NEW r \in Runs, CancelMark(t, r) PROVE AttendedInv'
    <3>1. \A x \in Runs : status'[x] \in ActiveStatuses => status[x] \in ActiveStatuses
      BY <2>2 DEF CancelMark, TypeOK
    <3>2. \A x \in Runs : Attended(x) => Attended(x)'
      BY <2>1, <2>2 DEF Attended, CancelMark
    <3> QED
      BY <2>2, <3>1, <3>2, AttendedFrame DEF Active, Serving, CancelMark
  <2>3. CASE CancelQueued(t)
    <3>1. PICK r \in Runs : /\ future' = [future EXCEPT ![r] = "cancelled"]
                            /\ Finish(r, "cancelled", "cancellation_acknowledged")
      BY <2>3 DEF CancelQueued, TypeOK
    <3>2. \A x \in Runs \ {r} : future'[x] = future[x]
      BY <3>1 DEF TypeOK
    <3>3. UNCHANGED <<wpc, faults, lockHolder, closed>>
      BY <2>3 DEF CancelQueued
    <3> QED
      BY <2>1, <3>1, <3>2, <3>3, AttendedFinish, Outcomes
  <2>4. CASE CancelQueuedError(t)
    BY <1>0, <2>4 DEF CancelQueuedError, AttendedInv
  <2> QED
    BY <1>3, <2>1, <2>2, <2>3, <2>4, AttendedSame DEF Cancel, CancelRunning, CancelNothing, Serving
<1>4. ASSUME NEW t \in Closers, CloseBegin(t) \/ CloseStep(t) \/ CloseError(t)
      PROVE  AttendedInv'
  <2>1. \A x \in Runs : th'[x] = th[x]
    BY <1>2, <1>4
       DEF CloseStep, CloseError, CloseBegin, CloseMark, CloseMarkError, CloseSignal,
           CloseSignalError, CloseFuture, CloseFutureError, CloseShutdown, CloseRelease, Return, Move
  <2>2. CASE CloseBegin(t) \/ CloseRelease(t) \/ \E r \in Runs : CloseSignal(t, r) \/ CloseSignalError(t, r)
    <3>1. Serving' \/ closed' => Serving \/ closed
      BY <2>2 DEF CloseBegin, CloseRelease, CloseSignal, CloseSignalError, CloseInv, Closing, Serving
    <3>2. UNCHANGED <<status, future, wpc, faults>>
      BY <2>2 DEF CloseBegin, CloseRelease, CloseSignal, CloseSignalError
    <3> QED
      BY <2>1, <3>1, <3>2, AttendedSame
  <2>3. CASE CloseError(t)
    BY <1>0, <2>3 DEF CloseError, CloseMarkError, CloseFutureError, AttendedInv
  <2>4. CASE CloseMark(t)
    <3>1. \A x \in Runs : status'[x] \in ActiveStatuses => status[x] \in ActiveStatuses
      BY <2>4 DEF CloseMark, Active
    <3>2. \A x \in Runs : Attended(x) => Attended(x)'
      BY <2>1, <2>4 DEF Attended, CloseMark
    <3> QED
      BY <2>4, <3>1, <3>2, AttendedFrame DEF Active, Serving, CloseMark
  <2>5. ASSUME NEW r \in Runs, CloseFuture(t, r) PROVE AttendedInv'
    <3>1. \A x \in Runs \ {r} : future'[x] = future[x]
      BY <2>5 DEF CloseFuture, TypeOK
    <3> QED
      BY <2>1, <2>5, <3>1, AttendedFinish, Outcomes DEF CloseFuture
  <2>6. CASE CloseShutdown(t)
    <3>1. \A x \in Runs : future[x] # "pending"
      BY <2>6 DEF CloseShutdown, KnownInv
    <3>2. \A x \in Runs : Attended(x) => Attended(x)'
      BY <2>1, <2>6, <3>1 DEF Attended, CloseShutdown
    <3> QED
      BY <2>6, <3>2, AttendedFrame DEF Active, Serving, CloseShutdown
  <2> QED
    BY <1>4, <2>2, <2>3, <2>4, <2>5, <2>6 DEF CloseStep
<1>5. ASSUME NEW r \in Runs,
             WorkerStep(r) \/ ControllerStep(r) \/ TraceError(r) \/ WorkerError(r)
      PROVE  AttendedInv'
  <2>1. CASE WorkerTake(r)
    <3>1. /\ \A x \in Runs \ {r} : future'[x] = future[x] /\ wpc'[x] = wpc[x]
          /\ wpc'[r] = "claim" /\ UNCHANGED <<status, faults, lockHolder, closed, th>>
      BY <2>1 DEF WorkerTake, Worker, Goto, TypeOK
    <3>2. \A x \in Runs : Attended(x) => Attended(x)'
      BY <3>1 DEF Attended
    <3> QED
      BY <3>1, <3>2, AttendedFrame DEF Active, Serving
  <2>2. CASE WorkerClaim(r)
    <3>1. /\ \A x \in Runs \ {r} : status'[x] = status[x] /\ wpc'[x] = wpc[x]
          /\ wpc'[r] = "build" /\ status[r] \in ActiveStatuses
          /\ UNCHANGED <<future, faults, lockHolder, closed, th>>
      BY <2>2 DEF WorkerClaim, Worker, Goto, Finish, TypeOK, ActiveStatuses
    <3>2. \A x \in Runs : Attended(x) => Attended(x)'
      BY <3>1 DEF Attended, Executing
    <3> QED
      BY <3>1, <3>2, AttendedFrame DEF Active, Serving
  <2>3. ASSUME NEW s \in TerminalStatuses, NEW k, Finish(r, s, k), NEW pc, Goto(r, pc),
               UNCHANGED <<future, faults, lockHolder, closed, th>>
        PROVE  AttendedInv'
    <3>1. \A x \in Runs \ {r} : wpc'[x] = wpc[x]
      BY <2>3 DEF Goto, TypeOK
    <3> QED
      BY <2>3, <3>1, AttendedFinish
  <2>4. CASE WorkerClaimCancelled(r) \/ WorkerComplete(r) \/ WorkerStop(r)
    BY <2>3, <2>4, Outcomes DEF WorkerClaimCancelled, WorkerComplete, WorkerStop, Worker
  <2>5. ASSUME NEW a, NEW pc, Worker(r, a, pc), a \notin {"idle", "done"},
               UNCHANGED <<status, faults, lockHolder, closed, th>>,
               \A x \in Runs \ {r} : future'[x] = future[x],
               pc \in Executing \/ a \in {"unregister", "close"}
        PROVE  AttendedInv'
    <3>1. wpc[r] = a /\ Goto(r, pc)
      BY <2>5 DEF Worker
    <3>2. pc \in Executing \/ wpc[r] \notin Executing \cup {"claim"}
      BY <2>5, <3>1 DEF Executing
    <3> QED
      BY <2>5, <3>1, <3>2, AttendedWorker
  <2>6. CASE WorkerBuild(r) \/ WorkerRegister(r) \/ WorkerCheck(r)
    BY <2>5, <2>6 DEF WorkerBuild, WorkerRegister, WorkerCheck, Executing
  <2>7. CASE RunCancelled(r) \/ RunDeadline(r) \/ RunRaises(r) \/ RunReturns(r)
    BY <2>5, <2>7 DEF RunCancelled, RunDeadline, RunRaises, RunReturns, Executing
  <2>8. CASE WorkerUnregister(r)
    BY <2>5, <2>8 DEF WorkerUnregister
  <2>9. CASE WorkerClose(r)
    <3>1. \A x \in Runs \ {r} : future'[x] = future[x]
      BY <2>9 DEF WorkerClose, TypeOK
    <3> QED
      BY <2>5, <2>9, <3>1 DEF WorkerClose
  <2>10. CASE Trace(r)
    BY <2>10, AttendedSame DEF Trace, Serving
  <2>11. CASE TraceError(r) \/ WorkerError(r)
    BY <1>0, <2>11 DEF TraceError, WorkerError, AttendedInv
  <2> QED
    BY <1>5, <2>1, <2>2, <2>4, <2>6, <2>7, <2>8, <2>9, <2>10, <2>11
       DEF WorkerStep, ControllerStep
<1>6. CASE Crash
  BY <1>6 DEF Crash, AttendedInv, Serving
<1>7. CASE Boot
  <2>1. Active' = {}
    BY <1>7, Outcomes DEF Boot, Active, ActiveStatuses
  <2> QED
    BY <2>1 DEF AttendedInv
<1>8. CASE NextDay \/ UNCHANGED vars
  BY <1>8, AttendedSame DEF NextDay, vars, Serving
<1>9. ASSUME NEW r \in Runs, Expire(r) PROVE AttendedInv'
  BY <1>9, AttendedSame DEF Expire, Serving
<1> QED
  BY <1>1, <1>3, <1>4, <1>5, <1>6, <1>7, <1>8, <1>9 DEF Next

LEMMA AttendedInit == Init => AttendedInv
  BY DEF Init, AttendedInv, Active, ActiveStatuses

(* When close() has given the lock up nothing is queued or running any more: but   *)
(* for SQLite errors, every run has its outcome or a call that will take it back.  *)
THEOREM CleanShutdownCorrect == Spec => []CleanShutdown
<1>1. Inv /\ KnownInv /\ AttendedInv /\ [Next]_vars => KnownInv' /\ AttendedInv'
  BY KnownStep, AttendedStep
<1>2. Inv /\ AttendedInv => CleanShutdown
  <2> SUFFICES ASSUME Inv, AttendedInv, closed, ~Serving, faults = 0, NEW r \in Active
               PROVE  th[r].pc = "submit"
    BY DEF CleanShutdown
  <2>1. r \in Runs /\ Attended(r)
    BY DEF AttendedInv, Active
  <2>2. future[r] \notin {"pending", "running"}
    BY <2>1, InvParts DEF LockInv
  <2>3. wpc[r] \notin Executing \cup {"claim"}
    BY <2>1, <2>2, InvParts DEF FutureInv, Executing
  <2> QED
    BY <2>1, <2>2, <2>3 DEF Attended
<1> QED
  BY <1>1, <1>2, KnownInit, AttendedInit, InvCorrect, PTL DEF Spec

=============================================================================
