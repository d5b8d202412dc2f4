------------------------ MODULE EntityResearchProofs ------------------------
(***************************************************************************)
(* Theorems about EntityResearch for every number of items, runners, threads *)
(* and every limit: the inductive invariant Inv, and from it the safety      *)
(* properties of the runner.                                                *)
(***************************************************************************)
EXTENDS EntityResearch, TLAPS

-----------------------------------------------------------------------------
(* What the helpers do                                                      *)

LEMMA BecomesFacts ==
    ASSUME TypeOK, NEW k \in Runners, NEW w \in Workers, NEW x, Becomes(k, w, x)
    PROVE  \A l \in Runners, v \in Workers :
              worker'[l][v] = IF l = k /\ v = w THEN x ELSE worker[l][v]
  BY DEF TypeOK, Becomes

LEMMA BecomesType ==
    ASSUME TypeOK, NEW k \in Runners, NEW w \in Workers, NEW x \in WorkerStates,
           Becomes(k, w, x)
    PROVE  worker' \in [Runners -> [Workers -> WorkerStates]]
  BY DEF TypeOK, Becomes

LEMMA WorkerStateType ==
    /\ Off \in WorkerStates
    /\ At("claim", 0, 0) \in WorkerStates
    /\ \A i \in Items, a \in Nat, pc \in {"handle", "complete", "fail"} :
          At(pc, i, a) \in WorkerStates
  BY DEF Off, At, WorkerStates

LEMMA MoveType ==
    ASSUME TypeOK, NEW k \in Runners, NEW w \in Workers, NEW pc \in {"complete", "fail"}
    PROVE  /\ [worker[k][w] EXCEPT !.pc = pc] \in WorkerStates
           /\ [worker[k][w] EXCEPT !.pc = pc] = At(pc, worker[k][w].item, worker[k][w].attempt)
<1>1. worker[k][w] \in WorkerStates
  BY DEF TypeOK
<1> QED BY <1>1 DEF WorkerStates, At

\* What the actions of a thread do to it.
LEMMA ThreadMoves ==
    ASSUME TypeOK, NEW k \in Runners, NEW w \in Workers
    PROVE  /\ Claim(k, w) => \E i \in Claimable :
                 Becomes(k, w, At("handle", i, attempts[i] + 1))
           /\ HandlerEnds(k, w) => \E pc \in {"complete", "fail"} :
                 Becomes(k, w, At(pc, worker[k][w].item, worker[k][w].attempt))
           /\ Complete(k, w) =>
                 \/ Becomes(k, w, At("claim", 0, 0))
                 \/ Becomes(k, w, At("fail", worker[k][w].item, worker[k][w].attempt))
           /\ WorkerError(k, w) =>
                 \/ Becomes(k, w, At("fail", worker[k][w].item, worker[k][w].attempt))
                 \/ Becomes(k, w, Off)
<1>1. Claim(k, w) => \E i \in Claimable : Becomes(k, w, At("handle", i, attempts[i] + 1))
  BY DEF Claim
<1>2. HandlerEnds(k, w) => \E pc \in {"complete", "fail"} :
         Becomes(k, w, At(pc, worker[k][w].item, worker[k][w].attempt))
  BY MoveType DEF HandlerEnds
<1>3. Complete(k, w) =>
         \/ Becomes(k, w, At("claim", 0, 0))
         \/ Becomes(k, w, At("fail", worker[k][w].item, worker[k][w].attempt))
  BY DEF Complete
<1>4. WorkerError(k, w) =>
         \/ Becomes(k, w, At("fail", worker[k][w].item, worker[k][w].attempt))
         \/ Becomes(k, w, Off)
  BY MoveType DEF WorkerError
<1> QED BY <1>1, <1>2, <1>3, <1>4

\* A thread that executes has an item of the dataset.
LEMMA ExecutingHasItem ==
    ASSUME TypeOK, ExecutionInv, NEW k \in Runners, NEW w \in Workers, Executing(k, w)
    PROVE  worker[k][w].item \in Items /\ worker[k][w].attempt \in Nat
<1>1. worker[k][w] \in WorkerStates
  BY DEF TypeOK
<1> QED BY <1>1 DEF ExecutionInv, WorkerStates

-----------------------------------------------------------------------------
(* Types.                                                                   *)

LEMMA TypeInit == Init => TypeOK
<1>1. Off \in WorkerStates
  BY WorkerStateType
<1> QED BY <1>1, EntityResearchAssumption DEF Init, TypeOK

LEMMA TypeNext ==
    ASSUME TypeOK, ExecutionInv, [Next]_vars
    PROVE  TypeOK'
<1> USE EntityResearchAssumption DEF store, spending
<1>1. ASSUME NEW k \in Runners,
             Open(k) \/ CloseBegin(k) \/ CloseEnd(k) \/ Crash(k) \/ RunBegin(k) \/ RunEnd(k)
      PROVE  TypeOK'
  <2> USE DEF TypeOK
  <2>1. CASE Open(k)
    BY <2>1 DEF Open
  <2>2. CASE CloseBegin(k)
    BY <2>2 DEF CloseBegin
  <2>3. CASE CloseEnd(k)
    BY <2>3 DEF CloseEnd
  <2>4. CASE Crash(k)
    BY <2>4, WorkerStateType DEF Crash
  <2>5. CASE RunBegin(k)
    BY <2>5, WorkerStateType DEF RunBegin
  <2>6. CASE RunEnd(k)
    BY <2>6 DEF RunEnd
  <2> QED BY <1>1, <2>1, <2>2, <2>3, <2>4, <2>5, <2>6
<1>2. ASSUME NEW k \in Runners, NEW w \in Workers, WorkerStep(k, w) \/ WorkerError(k, w)
      PROVE  TypeOK'
  <2>1. CASE Claim(k, w)
    <3>1. PICK i \in Claimable : /\ status' = [status EXCEPT ![i] = "running"]
                                 /\ attempts' = [attempts EXCEPT ![i] = @ + 1]
                                 /\ contexts' = contexts \cup {Context(k, i, attempts[i] + 1)}
                                 /\ Becomes(k, w, At("handle", i, attempts[i] + 1))
      BY <2>1 DEF Claim
    <3>2. i \in Items /\ attempts[i] + 1 \in Nat
      BY DEF Claimable, TypeOK
    <3>3. worker' \in [Runners -> [Workers -> WorkerStates]]
      BY <3>1, <3>2, BecomesType, WorkerStateType
    <3> QED BY <2>1, <3>1, <3>2, <3>3 DEF Claim, TypeOK, Context
  <2>2. CASE ClaimNothing(k, w)
    <3>1. worker' \in [Runners -> [Workers -> WorkerStates]]
      BY <2>2, BecomesType, WorkerStateType DEF ClaimNothing
    <3> QED BY <2>2, <3>1 DEF ClaimNothing, TypeOK
  <2>3. CASE HandlerEnds(k, w)
    <3>1. worker' \in [Runners -> [Workers -> WorkerStates]]
      BY <2>3, BecomesType, MoveType DEF HandlerEnds
    <3> QED BY <2>3, <3>1 DEF HandlerEnds, TypeOK
  <2>4. CASE Complete(k, w)
    <3>1. worker[k][w].item \in Items /\ worker[k][w].attempt \in Nat
      BY <2>4, ExecutingHasItem DEF Complete, Executing
    <3>2. \/ Becomes(k, w, At("claim", 0, 0))
          \/ Becomes(k, w, At("fail", worker[k][w].item, worker[k][w].attempt))
      BY <2>4, ThreadMoves
    <3>3. worker' \in [Runners -> [Workers -> WorkerStates]]
      BY <3>1, <3>2, BecomesType, WorkerStateType
    <3> QED BY <2>4, <3>1, <3>3 DEF Complete, TypeOK
  <2>5. CASE Fail(k, w)
    <3>1. worker[k][w].item \in Items
      BY <2>5, ExecutingHasItem DEF Fail, Executing
    <3>2. worker' \in [Runners -> [Workers -> WorkerStates]]
      BY <2>5, BecomesType, WorkerStateType DEF Fail
    <3> QED BY <2>5, <3>1, <3>2 DEF Fail, TypeOK
  <2>6. CASE WorkerError(k, w)
    <3>1. worker' \in [Runners -> [Workers -> WorkerStates]]
      BY <2>6, BecomesType, WorkerStateType, MoveType DEF WorkerError
    <3> QED BY <2>6, <3>1 DEF WorkerError, Fault, TypeOK
  <2> QED BY <1>2, <2>1, <2>2, <2>3, <2>4, <2>5, <2>6 DEF WorkerStep
<1>3. ASSUME NEW S \in SUBSET Items, Submit(S) \/ Retry(S)
      PROVE  TypeOK'
  <2>1. CASE Submit(S)
    BY <2>1 DEF Submit, TypeOK
  <2>2. CASE Retry(S)
    BY <2>2 DEF Retry, TypeOK
  <2> QED BY <1>3, <2>1, <2>2
<1>4. ASSUME NEW x \in contexts, NEW c \in Costs, Reserve(x, c)
      PROVE  TypeOK'
  <2>1. x.runner \in Runners /\ c \in Nat
    BY DEF TypeOK
  <2> QED BY <1>4, <2>1 DEF Reserve, TypeOK
<1>5. ASSUME NEW g \in granted, Operate(g)
      PROVE  TypeOK'
  BY <1>5 DEF Operate, TypeOK
<1>6. CASE UNCHANGED vars
  BY <1>6 DEF vars, TypeOK
<1> QED BY <1>1, <1>2, <1>3, <1>4, <1>5, <1>6 DEF Next

-----------------------------------------------------------------------------
(* The lock.                                                                *)

LEMMA LockStep ==
    ASSUME TypeOK, LockInv, [Next]_vars
    PROVE  LockInv'
<1> USE EntityResearchAssumption DEF store, spending
<1>1. ASSUME NEW k \in Runners,
             Open(k) \/ CloseBegin(k) \/ CloseEnd(k) \/ Crash(k) \/ RunBegin(k) \/ RunEnd(k)
      PROVE  LockInv'
  <2> USE DEF TypeOK, LockInv
  <2>1. CASE Open(k)
    BY <2>1 DEF Open
  <2>2. CASE CloseBegin(k)
    BY <2>2 DEF CloseBegin
  <2>3. CASE CloseEnd(k)
    BY <2>3 DEF CloseEnd
  <2>4. CASE Crash(k)
    BY <2>4 DEF Crash, Off
  <2>5. CASE RunBegin(k)
    <3>1. \A l \in Runners, v \in Workers : l # k => worker'[l][v] = worker[l][v]
      BY <2>5 DEF RunBegin
    <3> QED BY <2>5, <3>1 DEF RunBegin
  <2>6. CASE RunEnd(k)
    BY <2>6 DEF RunEnd, Off
  <2> QED BY <1>1, <2>1, <2>2, <2>3, <2>4, <2>5, <2>6
<1>2. ASSUME NEW k \in Runners, NEW w \in Workers, WorkerStep(k, w) \/ WorkerError(k, w)
      PROVE  LockInv'
  <2>1. worker[k][w].pc # "off" /\ UNCHANGED <<lock, life, running>>
    BY <1>2 DEF WorkerStep, Claim, ClaimNothing, HandlerEnds, Complete, Fail, WorkerError
  <2>2. \E x : Becomes(k, w, x)
    BY <1>2 DEF WorkerStep, Claim, ClaimNothing, HandlerEnds, Complete, Fail, WorkerError
  <2>3. \A l \in Runners, v \in Workers : l # k \/ v # w => worker'[l][v] = worker[l][v]
    BY <2>2, BecomesFacts
  <2> QED BY <2>1, <2>3 DEF LockInv
<1>3. ASSUME NEW S \in SUBSET Items, Submit(S) \/ Retry(S)
      PROVE  LockInv'
  BY <1>3 DEF Submit, Retry, LockInv
<1>4. ASSUME NEW x \in contexts, NEW c \in Costs, Reserve(x, c)
      PROVE  LockInv'
  BY <1>4 DEF Reserve, LockInv
<1>5. ASSUME NEW g \in granted, Operate(g)
      PROVE  LockInv'
  BY <1>5 DEF Operate, LockInv
<1>6. CASE UNCHANGED vars
  BY <1>6 DEF vars, LockInv
<1> QED BY <1>1, <1>2, <1>3, <1>4, <1>5, <1>6 DEF Next

-----------------------------------------------------------------------------
(* Execution.                                                               *)

\* Two runners never execute at once.
LEMMA OneRunner ==
    ASSUME LockInv, NEW k \in Runners, NEW w \in Workers, Executing(k, w)
    PROVE  lock = k /\ running[k]
  BY DEF LockInv, Executing

LEMMA ExecutionStep ==
    ASSUME TypeOK, LockInv, ExecutionInv, [Next]_vars
    PROVE  ExecutionInv'
<1> USE EntityResearchAssumption DEF store, spending
<1>1. ASSUME NEW k \in Runners,
             Open(k) \/ CloseBegin(k) \/ CloseEnd(k) \/ Crash(k) \/ RunBegin(k) \/ RunEnd(k)
      PROVE  ExecutionInv'
  <2>1. CASE Open(k)
    <3>1. \A l \in Runners, v \in Workers : ~Executing(l, v)
      BY <2>1, OneRunner DEF Open
    <3> QED BY <2>1, <3>1 DEF Open, ExecutionInv, Executing
  <2>2. CASE UNCHANGED <<status, attempts>> /\ \A l \in Runners, v \in Workers :
                worker'[l][v] = worker[l][v] \/ ~Executing(l, v)'
    BY <2>2 DEF ExecutionInv, Executing, Current
  <2>3. CASE CloseBegin(k) \/ CloseEnd(k) \/ RunEnd(k)
    BY <2>3, <2>2 DEF CloseBegin, CloseEnd, RunEnd
  <2>4. CASE Crash(k)
    BY <2>4, <2>2 DEF Crash, Off, TypeOK, Executing
  <2>5. CASE RunBegin(k)
    <3>1. \A l \in Runners, v \in Workers :
             worker'[l][v] = worker[l][v] \/ worker'[l][v] \in {Off, At("claim", 0, 0)}
      BY <2>5 DEF RunBegin, TypeOK
    <3> QED BY <2>5, <2>2, <3>1 DEF RunBegin, Off, At, Executing
  <2> QED BY <1>1, <2>1, <2>3, <2>4, <2>5
<1>2. ASSUME NEW k \in Runners, NEW w \in Workers, WorkerStep(k, w) \/ WorkerError(k, w)
      PROVE  ExecutionInv'
  <2>1. CASE Claim(k, w)
    <3>1. PICK i \in Claimable : /\ status' = [status EXCEPT ![i] = "running"]
                                 /\ attempts' = [attempts EXCEPT ![i] = @ + 1]
                                 /\ Becomes(k, w, At("handle", i, attempts[i] + 1))
      BY <2>1 DEF Claim
    <3>2. i \in Items /\ status[i] = "queued"
      BY DEF Claimable
    <3>3. \A l \in Runners, v \in Workers :
             worker'[l][v] = IF l = k /\ v = w THEN At("handle", i, attempts[i] + 1)
                             ELSE worker[l][v]
      BY <3>1, BecomesFacts
    <3>4. \A l \in Runners, v \in Workers : Executing(l, v) => worker[l][v].item # i
      BY <3>2 DEF ExecutionInv, Current
    <3>5. status'[i] = "running" /\ attempts'[i] = attempts[i] + 1
      BY <3>1, <3>2 DEF TypeOK
    <3>6. \A j \in Items : j # i => status'[j] = status[j] /\ attempts'[j] = attempts[j]
      BY <3>1, <3>2 DEF TypeOK
    <3>7. ASSUME NEW l \in Runners, NEW v \in Workers, Executing(l, v)', l # k \/ v # w
          PROVE  /\ worker'[l][v] = worker[l][v] /\ Executing(l, v)
                 /\ worker[l][v].item # i
      BY <3>3, <3>4, <3>7 DEF Executing
    <3>8. worker'[k][w].item = i /\ worker'[k][w].attempt = attempts'[i]
      BY <3>3, <3>5 DEF At
    <3>9. ASSUME NEW l \in Runners, NEW v \in Workers, Executing(l, v)', l # k \/ v # w
          PROVE  /\ worker'[l][v].item \in Items \ {i}
                 /\ Current(worker[l][v].item, worker[l][v].attempt)'
                 /\ \A u \in Workers : Executing(l, u)' /\ worker'[l][u].item = worker'[l][v].item
                       => u = v
      <4>1. worker'[l][v] = worker[l][v] /\ Executing(l, v) /\ worker[l][v].item # i
        BY <3>7, <3>9
      <4>2. worker[l][v].item \in Items /\ Current(worker[l][v].item, worker[l][v].attempt)
        BY <4>1 DEF ExecutionInv
      <4>3. worker'[l][v].item \in Items \ {i} /\ Current(worker[l][v].item, worker[l][v].attempt)'
        BY <4>1, <4>2, <3>6 DEF Current
      <4>4. ASSUME NEW u \in Workers, Executing(l, u)', worker'[l][u].item = worker'[l][v].item
            PROVE  u = v
        <5>1. l # k \/ u # w
          BY <4>1, <4>4, <3>8
        <5> QED BY <5>1, <4>1, <4>4, <3>7 DEF ExecutionInv
      <4> QED BY <4>3, <4>4
    <3>10. \A u \in Workers : Executing(k, u)' /\ worker'[k][u].item = i => u = w
      BY <3>9
    <3>11. worker'[k][w].item \in Items /\ Current(worker[k][w].item, worker[k][w].attempt)'
      BY <3>2, <3>5, <3>8 DEF Current
    <3>12. ASSUME NEW l \in Runners, NEW v \in Workers, Executing(l, v)'
           PROVE  /\ worker'[l][v].item \in Items
                  /\ Current(worker[l][v].item, worker[l][v].attempt)'
                  /\ \A u \in Workers : Executing(l, u)' /\ worker'[l][u].item = worker'[l][v].item
                       => u = v
      <4>1. CASE l = k /\ v = w
        BY <4>1, <3>8, <3>10, <3>11
      <4>2. CASE l # k \/ v # w
        BY <4>2, <3>9, <3>12
      <4> QED BY <4>1, <4>2
    <3> QED BY <3>12 DEF ExecutionInv
  <2>2. CASE ClaimNothing(k, w)
    BY <2>2, BecomesFacts DEF ClaimNothing, Off, ExecutionInv, Executing, Current
  <2>3. CASE HandlerEnds(k, w)
    <3>1. PICK pc \in {"complete", "fail"} :
             Becomes(k, w, At(pc, worker[k][w].item, worker[k][w].attempt))
      BY <2>3, ThreadMoves
    <3>2. Executing(k, w) /\ UNCHANGED <<status, attempts>>
      BY <2>3 DEF HandlerEnds, Executing
    <3> QED BY <3>1, <3>2, BecomesFacts DEF At, ExecutionInv, Executing, Current
  <2>4. CASE (Complete(k, w) \/ Fail(k, w)) /\ Becomes(k, w, At("claim", 0, 0))
    <3>0. Executing(k, w) /\ UNCHANGED attempts
      BY <2>4 DEF Complete, Fail, Executing
    <3>1. \A j \in Items : j # worker[k][w].item => status'[j] = status[j]
      BY <2>4 DEF Complete, Fail, TypeOK
    <3>2. \A l \in Runners, v \in Workers :
             worker'[l][v] = IF l = k /\ v = w THEN At("claim", 0, 0) ELSE worker[l][v]
      BY <2>4, BecomesFacts
    <3>3. ASSUME NEW l \in Runners, NEW v \in Workers, Executing(l, v)'
          PROVE  /\ worker'[l][v] = worker[l][v] /\ Executing(l, v)
                 /\ worker[l][v].item # worker[k][w].item
      <4>1. l # k \/ v # w
        BY <3>2, <3>3 DEF Executing, At
      <4>2. worker'[l][v] = worker[l][v] /\ Executing(l, v)
        BY <4>1, <3>2, <3>3 DEF Executing
      <4>3. l = k
        BY <4>2, <3>0, OneRunner
      <4> QED BY <4>1, <4>2, <4>3, <3>0 DEF ExecutionInv
    <3> QED BY <3>0, <3>1, <3>3 DEF ExecutionInv, Current
  <2>5. CASE Complete(k, w) /\ ~Becomes(k, w, At("claim", 0, 0))
    <3>1. Executing(k, w) /\ ~Current(worker[k][w].item, worker[k][w].attempt)
      BY <2>5 DEF Complete, Executing
    <3> QED BY <3>1 DEF ExecutionInv
  <2>6. CASE WorkerError(k, w)
    <3>1. \/ Becomes(k, w, At("fail", worker[k][w].item, worker[k][w].attempt))
             /\ Executing(k, w)
          \/ Becomes(k, w, Off)
      BY <2>6, MoveType DEF WorkerError, Executing
    <3>2. UNCHANGED <<status, attempts>>
      BY <2>6 DEF WorkerError
    <3> QED BY <3>1, <3>2, BecomesFacts DEF At, Off, ExecutionInv, Executing, Current
  <2> QED BY <1>2, <2>1, <2>2, <2>3, <2>4, <2>5, <2>6 DEF WorkerStep, Fail
<1>3. ASSUME NEW S \in SUBSET Items, Submit(S) \/ Retry(S)
      PROVE  ExecutionInv'
  <2>1. /\ \A i \in Items : status[i] = "running" => status'[i] = "running"
        /\ UNCHANGED <<attempts, worker>>
    BY <1>3 DEF Submit, Retry, TypeOK
  <2> QED BY <2>1 DEF ExecutionInv, Executing, Current
<1>4. ASSUME NEW x \in contexts, NEW c \in Costs, Reserve(x, c)
      PROVE  ExecutionInv'
  BY <1>4 DEF Reserve, ExecutionInv, Executing, Current
<1>5. ASSUME NEW g \in granted, Operate(g)
      PROVE  ExecutionInv'
  BY <1>5 DEF Operate, ExecutionInv, Executing, Current
<1>6. CASE UNCHANGED vars
  BY <1>6 DEF vars, ExecutionInv, Executing, Current
<1> QED BY <1>1, <1>2, <1>3, <1>4, <1>5, <1>6 DEF Next

-----------------------------------------------------------------------------
(* Attempts and contexts.                                                   *)

LEMMA AttemptStep ==
    ASSUME TypeOK, ExecutionInv, AttemptInv, [Next]_vars
    PROVE  AttemptInv'
<1> USE EntityResearchAssumption DEF store, spending
<1>1. CASE UNCHANGED <<attempts, contexts>>
  BY <1>1 DEF AttemptInv
<1>2. ASSUME NEW k \in Runners, NEW w \in Workers, Claim(k, w)
      PROVE  AttemptInv'
  <2>1. PICK i \in Claimable : /\ attempts' = [attempts EXCEPT ![i] = @ + 1]
                               /\ contexts' = contexts \cup {Context(k, i, attempts[i] + 1)}
    BY <1>2 DEF Claim
  <2>2. i \in Items /\ attempts[i] < MaxAttempts /\ attempts[i] \in Nat
    BY DEF Claimable, TypeOK
  <2>3. /\ attempts'[i] = attempts[i] + 1
        /\ \A j \in Items : j # i => attempts'[j] = attempts[j]
    BY <2>1, <2>2 DEF TypeOK
  <2>4. \A j \in Items : attempts'[j] <= MaxAttempts
    BY <2>2, <2>3 DEF AttemptInv
  <2>5. ASSUME NEW x \in contexts
        PROVE  /\ x.attempt <= attempts'[x.item]
               /\ ~(x.item = i /\ x.attempt = attempts[i] + 1)
    <3>1. x.item \in Items /\ x.attempt \in Nat /\ attempts[x.item] \in Nat
      BY DEF TypeOK
    <3>2. x.attempt <= attempts[x.item]
      BY DEF AttemptInv
    <3>3. CASE x.item = i
      <4>1. x.attempt <= attempts[i]
        BY <3>2, <3>3
      <4> QED BY <4>1, <3>1, <3>3, <2>2, <2>3
    <3>4. CASE x.item # i
      BY <3>1, <3>2, <3>4, <2>3
    <3> QED BY <3>3, <3>4
  <2>6. \A x \in contexts' : x.attempt <= attempts'[x.item]
    BY <2>1, <2>2, <2>3, <2>5 DEF Context
  <2>7. \A x, y \in contexts' : x.item = y.item /\ x.attempt = y.attempt => x = y
    BY <2>1, <2>5 DEF AttemptInv, Context
  <2> QED BY <2>4, <2>6, <2>7 DEF AttemptInv
<1>3. ASSUME NEW k \in Runners, NEW w \in Workers, WorkerStep(k, w) \/ WorkerError(k, w),
             ~Claim(k, w)
      PROVE  UNCHANGED <<attempts, contexts>>
  BY <1>3 DEF WorkerStep, ClaimNothing, HandlerEnds, Complete, Fail, WorkerError
<1>4. ASSUME NEW k \in Runners,
             Open(k) \/ CloseBegin(k) \/ CloseEnd(k) \/ Crash(k) \/ RunBegin(k) \/ RunEnd(k)
      PROVE  UNCHANGED <<attempts, contexts>>
  BY <1>4 DEF Open, CloseBegin, CloseEnd, Crash, RunBegin, RunEnd
<1>5. ASSUME NEW S \in SUBSET Items, Submit(S) \/ Retry(S)
      PROVE  UNCHANGED <<attempts, contexts>>
  BY <1>5 DEF Submit, Retry
<1>6. (\E x \in contexts, c \in Costs : Reserve(x, c)) \/ (\E g \in granted : Operate(g))
         => UNCHANGED <<attempts, contexts>>
  BY DEF Reserve, Operate
<1>7. UNCHANGED vars => UNCHANGED <<attempts, contexts>>
  BY DEF vars
<1> QED BY <1>1, <1>2, <1>3, <1>4, <1>5, <1>6, <1>7 DEF Next

-----------------------------------------------------------------------------
(* Spending.                                                                *)

LEMMA SpendingStep ==
    ASSUME TypeOK, SpendingInv, [Next]_vars
    PROVE  SpendingInv'
<1> USE EntityResearchAssumption DEF store, spending
<1>1. CASE UNCHANGED <<calls, cost, granted, begun>>
  BY <1>1 DEF SpendingInv, QuotaHolds
<1>2. ASSUME NEW k \in Runners, Crash(k)
      PROVE  SpendingInv'
  BY <1>2 DEF Crash, SpendingInv, QuotaHolds
<1>3. ASSUME NEW x \in contexts, NEW c \in Costs, Reserve(x, c)
      PROVE  SpendingInv'
  <2> DEFINE new == [runner |-> x.runner, number |-> calls + 1]
  <2>1. calls' = calls + 1 /\ calls + 1 <= MaxCalls /\ cost' <= MaxCost /\ begun' = begun
    BY <1>3 DEF Reserve
  <2>2. granted' = granted \cup {new} /\ calls \in Nat
    BY <1>3 DEF Reserve, TypeOK
  <2>3. \A n \in begun \cup {g.number : g \in granted} : n \in 1..calls
    BY DEF SpendingInv, QuotaHolds
  <2>4. calls + 1 \notin begun /\ \A g \in granted : g.number # calls + 1
    BY <2>2, <2>3
  <2>5. begun' \cap {g.number : g \in granted'} = {}
    BY <2>1, <2>2, <2>4 DEF SpendingInv, QuotaHolds
  <2>6. \A n \in begun' \cup {g.number : g \in granted'} : n \in 1..calls'
    BY <2>1, <2>2, <2>3
  <2>7. \A g, h \in granted' : g.number = h.number => g = h
    BY <2>2, <2>4 DEF SpendingInv
  <2> QED BY <2>1, <2>5, <2>6, <2>7 DEF SpendingInv, QuotaHolds
<1>4. ASSUME NEW g \in granted, Operate(g)
      PROVE  SpendingInv'
  BY <1>4 DEF Operate, SpendingInv, QuotaHolds
<1>5. ASSUME NEW k \in Runners, NEW w \in Workers, WorkerStep(k, w) \/ WorkerError(k, w)
      PROVE  UNCHANGED <<calls, cost, granted, begun>>
  BY <1>5 DEF WorkerStep, Claim, ClaimNothing, HandlerEnds, Complete, Fail, WorkerError
<1>6. ASSUME NEW k \in Runners,
             Open(k) \/ CloseBegin(k) \/ CloseEnd(k) \/ RunBegin(k) \/ RunEnd(k)
      PROVE  UNCHANGED <<calls, cost, granted, begun>>
  BY <1>6 DEF Open, CloseBegin, CloseEnd, RunBegin, RunEnd
<1>7. ASSUME NEW S \in SUBSET Items, Submit(S) \/ Retry(S)
      PROVE  UNCHANGED <<calls, cost, granted, begun>>
  BY <1>7 DEF Submit, Retry
<1>8. UNCHANGED vars => UNCHANGED <<calls, cost, granted, begun>>
  BY DEF vars
<1> QED BY <1>1, <1>2, <1>3, <1>4, <1>5, <1>6, <1>7, <1>8 DEF Next

-----------------------------------------------------------------------------
(* Without faults.                                                          *)

LEMMA FaultlessStep ==
    ASSUME TypeOK, LockInv, ExecutionInv, AttemptInv, FaultlessInv, [Next]_vars
    PROVE  FaultlessInv'
<1> USE EntityResearchAssumption DEF store, spending
<1>0. SUFFICES ASSUME faults' = 0 PROVE FaultlessInv'
  BY DEF FaultlessInv
<1>1. faults = 0
  <2> DEFINE Kept == faults' = faults \/ faults' = faults + 1
  <2>1. ASSUME NEW k \in Runners,
               Open(k) \/ CloseBegin(k) \/ CloseEnd(k) \/ Crash(k) \/ RunBegin(k) \/ RunEnd(k)
        PROVE  Kept
    BY <2>1 DEF Open, CloseBegin, CloseEnd, Crash, RunBegin, RunEnd
  <2>2. ASSUME NEW k \in Runners, NEW w \in Workers, WorkerStep(k, w) \/ WorkerError(k, w)
        PROVE  Kept
    BY <2>2 DEF WorkerStep, Claim, ClaimNothing, HandlerEnds, Complete, Fail, WorkerError, Fault
  <2>3. ASSUME NEW S \in SUBSET Items, Submit(S) \/ Retry(S)
        PROVE  Kept
    BY <2>3 DEF Submit, Retry
  <2>4. ASSUME NEW x \in contexts, NEW c \in Costs, Reserve(x, c)
        PROVE  Kept
    BY <2>4 DEF Reserve
  <2>5. ASSUME NEW g \in granted, Operate(g)
        PROVE  Kept
    BY <2>5 DEF Operate
  <2>6. UNCHANGED vars => Kept
    BY DEF vars
  <2>7. Kept
    BY <2>1, <2>2, <2>3, <2>4, <2>5, <2>6 DEF Next
  <2> QED BY <1>0, <2>7 DEF TypeOK
<1>2. ASSUME UNCHANGED <<lock, life, contexts, attempts>>,
             \A i \in Items : status'[i] = "running" => status[i] = "running",
             \A k \in Runners, w \in Workers : Executing(k, w) =>
                Executing(k, w)' /\ worker'[k][w].item = worker[k][w].item
      PROVE  FaultlessInv'
  <2>1. \A k \in Runners, i \in Items : lock' = k /\ status'[i] = "running" =>
            \E w \in Workers : Executing(k, w)' /\ worker'[k][w].item = i
    BY <1>1, <1>2 DEF FaultlessInv
  <2>2. \A x \in contexts : x.item \in Items
    BY DEF TypeOK
  <2>3. \A x \in contexts' : x.runner \in Alive' /\ Current(x.item, x.attempt)' => lock' = x.runner
    BY <1>1, <1>2, <2>2 DEF FaultlessInv, Alive, Current
  <2> QED BY <2>1, <2>3 DEF FaultlessInv
<1>3. ASSUME NEW k \in Runners, CloseEnd(k) \/ Crash(k)
      PROVE  FaultlessInv'
  <2>1. CASE CloseEnd(k)
    <3>1. lock = k /\ ~running[k]
      BY <2>1 DEF CloseEnd, LockInv
    <3>2. \A w \in Workers : ~Executing(k, w)
      BY <3>1, OneRunner
    <3>3. \A i \in Items : status[i] # "running"
      BY <1>1, <3>1, <3>2 DEF FaultlessInv
    <3> QED BY <2>1, <3>3 DEF CloseEnd, FaultlessInv, Current, TypeOK
  <2>2. CASE Crash(k)
    <3>1. UNCHANGED <<status, attempts, contexts>> /\ Alive' = Alive \ {k}
      BY <2>2 DEF Crash, Alive, TypeOK
    <3>2. \A l \in Runners : l # k => lock' = l <=> lock = l
      BY <2>2 DEF Crash
    <3>3. lock' # k
      BY <2>2 DEF Crash
    <3>4. \A l \in Runners, w \in Workers : l # k => worker'[l][w] = worker[l][w]
      BY <2>2 DEF Crash, TypeOK
    <3> QED BY <1>1, <3>1, <3>2, <3>3, <3>4 DEF FaultlessInv, Executing, Current, TypeOK
  <2> QED BY <1>3, <2>1, <2>2
<1>4. ASSUME NEW k \in Runners, Open(k)
      PROVE  FaultlessInv'
  <2>1. \A i \in Items : status'[i] # "running"
    BY <1>4 DEF Open, TypeOK
  <2>2. \A x \in contexts' : x.item \in Items
    BY <1>4 DEF Open, TypeOK
  <2> QED BY <2>1, <2>2 DEF FaultlessInv, Current
<1>5. ASSUME NEW k \in Runners, CloseBegin(k)
      PROVE  FaultlessInv'
  BY <1>1, <1>5 DEF CloseBegin, FaultlessInv, Executing, Current, Alive, TypeOK
<1>6. ASSUME NEW k \in Runners, RunBegin(k)
      PROVE  FaultlessInv'
  <2>1. \A w \in Workers : ~Executing(k, w)
    BY <1>6, OneRunner DEF RunBegin
  <2>2. \A l \in Runners, w \in Workers : l # k => worker'[l][w] = worker[l][w]
    BY <1>6 DEF RunBegin, TypeOK
  <2>3. \A l \in Runners, w \in Workers : Executing(l, w) => worker'[l][w] = worker[l][w]
    BY <2>1, <2>2
  <2> QED BY <1>6, <1>2, <2>3 DEF RunBegin, Executing
<1>7. ASSUME NEW k \in Runners, RunEnd(k)
      PROVE  FaultlessInv'
  BY <1>7, <1>2 DEF RunEnd, Executing
<1>8. ASSUME NEW k \in Runners, NEW w \in Workers, Claim(k, w)
      PROVE  FaultlessInv'
  <2>1. PICK i \in Claimable : /\ status' = [status EXCEPT ![i] = "running"]
                               /\ attempts' = [attempts EXCEPT ![i] = @ + 1]
                               /\ contexts' = contexts \cup {Context(k, i, attempts[i] + 1)}
                               /\ Becomes(k, w, At("handle", i, attempts[i] + 1))
    BY <1>8 DEF Claim
  <2>2. i \in Items /\ attempts[i] \in Nat
    BY DEF Claimable, TypeOK
  <2>3. worker[k][w].pc = "claim" /\ UNCHANGED <<lock, life>>
    BY <1>8 DEF Claim
  <2>4. lock = k
    BY <2>3 DEF LockInv
  <2>5. \A l \in Runners, v \in Workers :
           worker'[l][v] = IF l = k /\ v = w THEN At("handle", i, attempts[i] + 1)
                           ELSE worker[l][v]
    BY <2>1, BecomesFacts
  <2>6. Executing(k, w)' /\ worker'[k][w].item = i /\ ~Executing(k, w)
    BY <2>3, <2>5 DEF At, Executing
  <2>7. \A l \in Runners, v \in Workers : Executing(l, v) => worker'[l][v] = worker[l][v]
    BY <2>5, <2>6
  <2>8. \A j \in Items : j # i => status'[j] = status[j] /\ attempts'[j] = attempts[j]
    BY <2>1, <2>2 DEF TypeOK
  <2>9. attempts'[i] = attempts[i] + 1
    BY <2>1, <2>2 DEF TypeOK
  <2>10. \A l \in Runners, j \in Items : lock' = l /\ status'[j] = "running" =>
            \E v \in Workers : Executing(l, v)' /\ worker'[l][v].item = j
    <3> SUFFICES ASSUME NEW j \in Items, status'[j] = "running"
                 PROVE  \E v \in Workers : Executing(k, v)' /\ worker'[k][v].item = j
      BY <2>3, <2>4
    <3>1. CASE j = i
      BY <3>1, <2>6
    <3>2. CASE j # i
      <4>1. PICK v \in Workers : Executing(k, v) /\ worker[k][v].item = j
        BY <3>2, <2>4, <2>8, <1>1 DEF FaultlessInv
      <4> QED BY <4>1, <2>7 DEF Executing
    <3> QED BY <3>1, <3>2
  <2>11. ASSUME NEW x \in contexts, x.runner \in Alive', Current(x.item, x.attempt)'
         PROVE  lock' = x.runner
    <3>1. x.item \in Items /\ x.attempt \in Nat /\ x.attempt <= attempts[x.item]
      BY DEF TypeOK, AttemptInv
    <3>2. x.item # i
      BY <3>1, <2>11, <2>9, <2>2 DEF Current
    <3> QED BY <3>1, <3>2, <2>3, <2>8, <2>11, <1>1 DEF FaultlessInv, Current, Alive
  <2>12. \A x \in contexts' : x.runner \in Alive' /\ Current(x.item, x.attempt)' => lock' = x.runner
    BY <2>1, <2>3, <2>4, <2>11 DEF Context
  <2> QED BY <2>10, <2>12 DEF FaultlessInv
<1>9. ASSUME NEW k \in Runners, NEW w \in Workers, ClaimNothing(k, w)
      PROVE  FaultlessInv'
  <2>1. \A l \in Runners, v \in Workers : Executing(l, v) => worker'[l][v] = worker[l][v]
    BY <1>9, BecomesFacts DEF ClaimNothing, Executing
  <2> QED BY <1>9, <1>2, <2>1 DEF ClaimNothing, Executing
<1>10. ASSUME NEW k \in Runners, NEW w \in Workers, HandlerEnds(k, w)
       PROVE  FaultlessInv'
  <2>1. PICK pc \in {"complete", "fail"} :
           Becomes(k, w, At(pc, worker[k][w].item, worker[k][w].attempt))
    BY <1>10, ThreadMoves
  <2>2. \A l \in Runners, v \in Workers : Executing(l, v) =>
           Executing(l, v)' /\ worker'[l][v].item = worker[l][v].item
    BY <2>1, BecomesFacts DEF At, Executing
  <2> QED BY <1>10, <1>2, <2>2 DEF HandlerEnds
<1>11. ASSUME NEW k \in Runners, NEW w \in Workers, Complete(k, w) \/ Fail(k, w)
       PROVE  FaultlessInv'
  <2> DEFINE i == worker[k][w].item
  <2>0. Executing(k, w)
    BY <1>11 DEF Complete, Fail, Executing
  <2>1. i \in Items /\ Current(i, worker[k][w].attempt)
    BY <2>0 DEF ExecutionInv
  <2>2. /\ Becomes(k, w, At("claim", 0, 0))
        /\ status'[i] # "running"
        /\ \A j \in Items : j # i => status'[j] = status[j]
        /\ UNCHANGED <<lock, life, contexts, attempts>>
    BY <1>11, <2>1 DEF Complete, Fail, TypeOK
  <2>3. lock = k
    BY <2>0, OneRunner
  <2>4. \A v \in Workers : v # w => worker'[k][v] = worker[k][v]
    BY <2>2, BecomesFacts
  <2>5. ASSUME NEW j \in Items, status'[j] = "running"
        PROVE  \E v \in Workers : Executing(k, v)' /\ worker'[k][v].item = j
    <3>1. j # i /\ status[j] = "running"
      BY <2>2, <2>5
    <3>2. PICK v \in Workers : Executing(k, v) /\ worker[k][v].item = j
      BY <3>1, <2>3, <1>1 DEF FaultlessInv
    <3>3. v # w
      BY <3>1, <3>2
    <3> QED BY <3>2, <3>3, <2>4 DEF Executing
  <2>6. ASSUME NEW x \in contexts, x.runner \in Alive', Current(x.item, x.attempt)'
        PROVE  lock' = x.runner
    <3>1. x.item \in Items
      BY DEF TypeOK
    <3>2. x.item # i
      BY <2>2, <2>6 DEF Current
    <3> QED BY <3>1, <3>2, <2>2, <2>6, <1>1 DEF FaultlessInv, Current, Alive
  <2> QED BY <2>2, <2>3, <2>5, <2>6 DEF FaultlessInv
<1>12. ASSUME NEW k \in Runners, NEW w \in Workers, WorkerError(k, w)
       PROVE  FALSE
  BY <1>0, <1>1, <1>12 DEF WorkerError, Fault
<1>13. ASSUME NEW S \in SUBSET Items, Submit(S) \/ Retry(S)
       PROVE  FaultlessInv'
  <2>1. \A i \in Items : status'[i] = "running" => status[i] = "running"
    BY <1>13 DEF Submit, Retry
  <2> QED BY <1>13, <1>2, <2>1 DEF Submit, Retry, Executing
<1>14. ASSUME NEW x \in contexts, NEW c \in Costs, Reserve(x, c)
       PROVE  FaultlessInv'
  BY <1>14, <1>2 DEF Reserve, Executing
<1>15. ASSUME NEW g \in granted, Operate(g)
       PROVE  FaultlessInv'
  BY <1>15, <1>2 DEF Operate, Executing
<1>16. CASE UNCHANGED vars
  BY <1>16, <1>2 DEF vars, Executing
<1> QED BY <1>3, <1>4, <1>5, <1>6, <1>7, <1>8, <1>9, <1>10, <1>11, <1>12, <1>13, <1>14,
           <1>15, <1>16 DEF Next, WorkerStep

-----------------------------------------------------------------------------
(* The theorems                                                             *)

LEMMA InvInit == Init => Inv
<1> SUFFICES ASSUME Init PROVE Inv
  OBVIOUS
<1>1. \A k \in Runners, w \in Workers : ~Executing(k, w) /\ worker[k][w].pc = "off"
  BY DEF Init, Off, Executing
<1>2. LockInv
  BY <1>1, EntityResearchAssumption DEF Init, LockInv
<1>3. ExecutionInv /\ AttemptInv
  BY <1>1, EntityResearchAssumption DEF Init, ExecutionInv, AttemptInv
<1>4. FaultlessInv
  BY DEF Init, FaultlessInv
<1>5. SpendingInv
  BY EntityResearchAssumption DEF Init, SpendingInv, QuotaHolds
<1> QED BY TypeInit, <1>2, <1>3, <1>4, <1>5 DEF Inv

LEMMA InvNext == Inv /\ [Next]_vars => Inv'
  BY TypeNext, LockStep, ExecutionStep, AttemptStep, SpendingStep, FaultlessStep DEF Inv

(* Every execution of the runners keeps the inductive invariant: types, the    *)
(* lock's ownership of threads, one thread per item, numbered attempts.       *)
THEOREM InvCorrect == Spec => []Inv
  BY InvInit, InvNext, PTL DEF Spec

(* Type correctness.                                                        *)
THEOREM TypeCorrect == Spec => []TypeOK
<1>1. Inv => TypeOK
  BY DEF Inv
<1> QED BY <1>1, InvCorrect, PTL

(* Reservations and the operations they pay for stay within the limits of the *)
(* dataset, for every number of runners, crashes and retries.                *)
THEOREM QuotaCorrect == Spec => []QuotaHolds
<1>1. Inv => QuotaHolds
  BY DEF Inv, SpendingInv
<1> QED BY <1>1, InvCorrect, PTL

(* No item is executed by two threads, nor by a runner without the lock.      *)
THEOREM ExclusiveExecutionCorrect == Spec => []ExclusiveExecution
<1>1. Inv => ExclusiveExecution
  <2> SUFFICES ASSUME Inv PROVE ExclusiveExecution
    OBVIOUS
  <2>1. \A k \in Runners, w \in Workers : Executing(k, w) => lock = k
    BY OneRunner DEF Inv
  <2>2. ASSUME NEW k \in Runners, NEW l \in Runners, NEW w \in Workers, NEW v \in Workers,
               Executing(k, w), Executing(l, v), worker[k][w].item = worker[l][v].item
        PROVE  k = l /\ w = v
    <3>1. k = l
      BY <2>1, <2>2
    <3> QED BY <3>1, <2>2 DEF Inv, ExecutionInv
  <2> QED BY <2>1, <2>2 DEF ExclusiveExecution
<1> QED BY <1>1, InvCorrect, PTL

(* Attempts are numbered, bounded and given to one context each.              *)
THEOREM AttemptsCorrect == Spec => []AttemptsAreSpent
<1>1. Inv => AttemptsAreSpent
  BY DEF Inv, AttemptInv, AttemptsAreSpent
<1> QED BY <1>1, InvCorrect, PTL

(* A runner that is not running anything has no item in the running state.    *)
THEOREM NothingStrandedCorrect == Spec => []NothingStranded
<1>1. Inv => NothingStranded
  <2> SUFFICES ASSUME Inv, faults = 0, NEW k \in Runners, lock = k, ~running[k],
                      NEW i \in Items, status[i] = "running"
               PROVE  FALSE
    BY DEF NothingStranded
  <2>1. PICK w \in Workers : Executing(k, w)
    BY DEF Inv, FaultlessInv
  <2> QED BY <2>1, OneRunner DEF Inv
<1> QED BY <1>1, InvCorrect, PTL

(* What a completed item holds never changes again.                          *)
THEOREM CompletedIsFinalCorrect == Spec => CompletedIsFinal
<1> DEFINE Final == \A i \in Items : status[i] = "completed" =>
              status'[i] = "completed" /\ claim'[i] = claim[i] /\ attempts'[i] = attempts[i]
<1>1. Inv /\ [Next]_vars => [Final]_vars
  <2> SUFFICES ASSUME Inv, Next, NEW i \in Items, status[i] = "completed"
               PROVE  status'[i] = "completed" /\ claim'[i] = claim[i] /\ attempts'[i] = attempts[i]
    BY DEF vars
  <2> USE DEF Inv, TypeOK
  <2>1. ASSUME NEW k \in Runners,
               Open(k) \/ CloseBegin(k) \/ CloseEnd(k) \/ Crash(k) \/ RunBegin(k) \/ RunEnd(k)
        PROVE  status'[i] = "completed" /\ UNCHANGED <<claim, attempts>>
    BY <2>1 DEF Open, CloseBegin, CloseEnd, Crash, RunBegin, RunEnd, store
  <2>2. ASSUME NEW k \in Runners, NEW w \in Workers, Claim(k, w)
        PROVE  status'[i] = "completed" /\ claim'[i] = claim[i] /\ attempts'[i] = attempts[i]
    BY <2>2 DEF Claim, Claimable
  <2>3. ASSUME NEW k \in Runners, NEW w \in Workers, Complete(k, w) \/ Fail(k, w)
        PROVE  status'[i] = "completed" /\ claim'[i] = claim[i] /\ attempts'[i] = attempts[i]
    <3>1. worker[k][w].item # i /\ worker[k][w].item \in Items
      BY <2>3 DEF Complete, Fail, ExecutionInv, Executing, Current
    <3> QED BY <2>3, <3>1 DEF Complete, Fail
  <2>4. ASSUME NEW k \in Runners, NEW w \in Workers,
               ClaimNothing(k, w) \/ HandlerEnds(k, w) \/ WorkerError(k, w)
        PROVE  UNCHANGED <<status, claim, attempts>>
    BY <2>4 DEF ClaimNothing, HandlerEnds, WorkerError, store
  <2>5. ASSUME NEW S \in SUBSET Items, Submit(S) \/ Retry(S)
        PROVE  status'[i] = "completed" /\ UNCHANGED <<claim, attempts>>
    BY <2>5 DEF Submit, Retry
  <2>6. (\E x \in contexts, c \in Costs : Reserve(x, c)) \/ (\E g \in granted : Operate(g))
           => UNCHANGED <<status, claim, attempts>>
    BY DEF Reserve, Operate, store
  <2> QED BY <2>1, <2>2, <2>3, <2>4, <2>5, <2>6 DEF Next, WorkerStep
<1> QED BY <1>1, InvCorrect, PTL DEF Spec, CompletedIsFinal

(* Only the thread that executes an attempt can spend on it.                  *)
THEOREM GrantsCorrect == Spec => GrantsOnlyToExecutor
<1> DEFINE Fenced == \A x \in contexts, c \in Costs : faults = 0 /\ Reserve(x, c) =>
         \E k \in Runners, w \in Workers :
            Executing(k, w) /\ worker[k][w].item = x.item /\ worker[k][w].attempt = x.attempt
<1>1. Inv => Fenced
  <2> SUFFICES ASSUME Inv, faults = 0, NEW x \in contexts, NEW c \in Costs, Reserve(x, c)
               PROVE  \E k \in Runners, w \in Workers :
                         Executing(k, w) /\ worker[k][w].item = x.item
                                         /\ worker[k][w].attempt = x.attempt
    OBVIOUS
  <2>1. x.runner \in Alive /\ Current(x.item, x.attempt) /\ x.item \in Items /\ x.runner \in Runners
    BY DEF Reserve, Inv, TypeOK
  <2>2. PICK w \in Workers : Executing(x.runner, w) /\ worker[x.runner][w].item = x.item
    BY <2>1 DEF Inv, FaultlessInv, Current
  <2>3. worker[x.runner][w].attempt = x.attempt
    BY <2>1, <2>2 DEF Inv, ExecutionInv, Current
  <2> QED BY <2>1, <2>2, <2>3
<1>2. Inv => [Fenced]_vars
  BY <1>1
<1> QED BY <1>2, InvCorrect, PTL DEF GrantsOnlyToExecutor
=============================================================================
