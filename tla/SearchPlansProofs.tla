-------------------------- MODULE SearchPlansProofs --------------------------
(***************************************************************************)
(* Proofs about Frontier, Recipes, Trajectories, PageFetch and Wayback, each   *)
(* by itself: nothing is searched or fetched twice and the queue is only left   *)
(* when nothing in it can be paid for; a recipe's shadow stays within both       *)
(* budgets and is not blamed for them; no merge of trajectories beats the best   *)
(* of its suppliers; what a fetch() gives to the ledger is vetted; and the         *)
(* archive is asked no sooner and no more often than allowed.                     *)
(*                                                                          *)
(* Sums over sets and PutInOrder are recursive: what they return is proved by    *)
(* induction over sets of sets or of numbers, from the least element that a set   *)
(* of naturals has.                                                          *)
(***************************************************************************)
EXTENDS Frontier, Recipes, Trajectories, PageFetch, Wayback, FiniteSetTheorems, WellFoundedInduction,
        TLAPS

(***************************************************************************)
(* The inductive invariants.                                               *)
(***************************************************************************)

\* What waits in the frontier.
Provenances == {"template", "entity_query", "serp", "entity_serp", "link"}
Leads == [kind : {"query", "url"}, provenance : Provenances, score : Int, depth : Int]
LeadTypes == leads \in [DOMAIN leads -> Leads]
Keys == Templates \cup EntityQueries \cup Urls
LeadKeys == DOMAIN leads \subseteq Keys

\* Nothing that was popped or reached waits.
SeenInv == DOMAIN leads \cap seen = {} /\ reached \subseteq seen

ChargeTypes == used \in [search : Nat, fetch : Nat, extract : Nat]
ChargeBounds == used.fetch <= Caps.fetch /\ used.extract <= Caps.extract

RoundTypes ==
    /\ fpc \in {"search", "rescore", "fetch", "read", "stop"} /\ rounds \in Nat
    /\ queried \in BOOLEAN /\ possible \in BOOLEAN

\* A round that searched nothing had nothing to search or nothing to pay with.
IdleInv == fpc \in {"rescore", "fetch"} /\ ~queried => (Waiting("query") # {} => Searches = 0)

FrontierInv ==
    LeadTypes /\ LeadKeys /\ SeenInv /\ ChargeTypes /\ ChargeBounds /\ RoundTypes /\ IdleInv
    /\ SpentOrDone

\* Where the shadow of a run is, and what comes of it.
Outcomes == {"passed", "budget_limited", "error", "drift_detected", "postcondition_failed"}
Short == {"budget_limited", "error"}
PcTypes ==
    /\ rpc \in [RecipeRuns -> {"begin", "step", "gate", "report", "end"}]
    /\ outcome \in [RecipeRuns -> Outcomes]

ShadowTypes ==
    /\ PcTypes /\ at \in [RecipeRuns -> Nat \ {0}]
    /\ discovered \in [RecipeRuns -> SUBSET PageUrls]
    /\ spent \in [RecipeRuns -> [search : Nat, fetch : Nat]]

SpentInv ==
    \A r \in RecipeRuns : \A k \in {"search", "fetch"} :
        spent[r][k] <= Left[k] /\ spent[r][k] <= RecipeCaps[k]

\* A shadow that was cut short is over, and says why.
CutInv ==
    \A r \in cut : rpc[r] \in {"gate", "report", "end"} /\ outcome[r] \in Short
\* A shadow that was blamed has passed the gate.
BlameInv == \A r \in blamers : rpc[r] \in {"report", "end"}
BlamedRuns == cut \subseteq RecipeRuns /\ blamers \subseteq RecipeRuns /\ blamers \cap cut = {}

RecipeInv == ShadowTypes /\ SpentInv /\ CutInv /\ BlameInv /\ BlamedRuns

\* The archive's client and its recoveries.
Steps == Over \cup {"wait", "asking", "backoff"}
RecoveryType ==
    [doc : {"captures", "page"}, step : Steps, until : Int, attempt : Nat, status : Int,
     sent : Nat, at : Int, limited : Int]
ClientTypes ==
    /\ now \in Nat /\ lastTs \in Nat \cup {Never} /\ consec429 \in Nat /\ breakerOpen \in BOOLEAN
    /\ recovery \in [Recoveries -> RecoveryType]
    /\ lastTs <= now

BreakerInv == ~breakerOpen => consec429 < BreakerThreshold

\* How old the requests are that a recovery waits for.
TimesHold(r) ==
    /\ r.at # Never => lastTs # Never /\ lastTs >= r.at
    /\ r.step = "wait" /\ r.at # Never => r.until >= r.at + MinInterval
    /\ r.limited # Never /\ r.step # "backoff" => now >= r.limited + Backoff(r.attempt - 1)
    /\ r.step = "backoff" => r.until >= r.limited + Backoff(r.attempt - 1)
    /\ r.limited # Never => r.attempt >= 1

\* How often a recovery has asked.
Before(r) == IF r.doc = "captures" THEN 0 ELSE MaxRetries + 1
AttemptsHold(r) ==
    /\ r.attempt <= MaxRetries
    /\ r.step \in {"wait", "backoff"} => r.sent <= Before(r) + r.attempt
    /\ r.step = "asking" => r.sent <= Before(r) + r.attempt + 1

ArchiveInv ==
    /\ ClientTypes /\ BreakerInv
    /\ \A c \in Recoveries : TimesHold(recovery[c]) /\ AttemptsHold(recovery[c])
-----------------------------------------------------------------------------
(* Wayback                                                                  *)

\* The delay before a retry is a time.
LEMMA BackoffType == \A k \in Nat : Backoff(k) \in Int
<1> SUFFICES ASSUME NEW k \in Nat PROVE Backoff(k) \in Int
    OBVIOUS
<1>1. 2^k \in Int
    OBVIOUS
<1> QED BY <1>1, WaybackAssumption DEF Backoff

\* What holds of one recovery.
RecoveryHolds(c) == TimesHold(recovery[c]) /\ AttemptsHold(recovery[c])

\* A recovery that takes no step is not affected by what the others do.
LEMMA OthersKept ==
    ASSUME ClientTypes, NEW c \in Recoveries, RecoveryHolds(c), recovery'[c] = recovery[c],
           now' \in {now, now + 1}, lastTs' \in {lastTs, now}
    PROVE  RecoveryHolds(c)'
<1> DEFINE r == recovery[c]
<1>1. r \in RecoveryType /\ now \in Nat /\ lastTs \in Int
    BY DEF ClientTypes, Never
<1>2. r.limited # Never => Backoff(r.attempt - 1) \in Int
    <2> SUFFICES ASSUME r.limited # Never PROVE Backoff(r.attempt - 1) \in Int
        OBVIOUS
    <2>1. r.attempt - 1 \in Nat
        BY <1>1 DEF RecoveryHolds, TimesHold, RecoveryType
    <2> QED BY <2>1, BackoffType
<1>3. AttemptsHold(recovery[c])'
    BY DEF RecoveryHolds, AttemptsHold, Before
<1>4. r.at \in Int /\ r.until \in Int /\ r.limited \in Int
    BY <1>1 DEF RecoveryType
<1>5. TimesHold(r)
    BY DEF RecoveryHolds
<1>6. r.at # Never => lastTs' # Never /\ lastTs' >= r.at
    BY <1>1, <1>4, <1>5 DEF ClientTypes, TimesHold, Never
<1>7. r.limited # Never /\ r.step # "backoff" => now' >= r.limited + Backoff(r.attempt - 1)
    BY <1>1, <1>2, <1>4, <1>5 DEF TimesHold
<1>8. TimesHold(recovery[c])'
    BY <1>5, <1>6, <1>7 DEF TimesHold
<1> QED BY <1>3, <1>8 DEF RecoveryHolds
\* What a recovery has behind it when it may send, or wait until it may.
Ready(r) ==
    /\ r.at # Never => lastTs # Never /\ lastTs >= r.at
    /\ r.limited # Never => r.attempt >= 1 /\ now >= r.limited + Backoff(r.attempt - 1)
    /\ r.attempt <= MaxRetries /\ r.sent <= Before(r) + r.attempt

\* A step of recovery c, after which it has what it should.
Took(c) ==
    /\ recovery' \in [Recoveries -> RecoveryType] /\ RecoveryHolds(c)'
    /\ \A d \in Recoveries \ {c} : recovery'[d] = recovery[d]
    /\ lastTs' \in {lastTs, now}

\* If it sent then it was in time, and it did not send too often.
Timely(c, asked) ==
    recovery'[c].step = "asking" =>
        /\ asked # Never => now >= asked + MinInterval
        /\ recovery'[c].sent <= 2 * (MaxRetries + 1)

\* The request is sent.
LEMMA SendHolds ==
    ASSUME ClientTypes, NEW c \in Recoveries, NEW r \in RecoveryType, Ready(r), Send(c, r),
           now' = now
    PROVE  /\ Took(c) /\ recovery'[c].step = "asking"
           /\ recovery'[c].sent <= 2 * (MaxRetries + 1)
<1> PICK n : n = [r EXCEPT !.step = "asking", !.at = now, !.sent = @ + 1]
    OBVIOUS
<1>0. now \in Nat
    BY DEF ClientTypes
<1>1. n \in RecoveryType
  <2>1. "asking" \in Steps /\ r.sent + 1 \in Nat /\ now \in Int
      BY <1>0 DEF RecoveryType, Steps
  <2>2. [r EXCEPT !.step = "asking", !.at = now, !.sent = r.sent + 1] \in RecoveryType
      BY <2>1 DEF RecoveryType
  <2> QED BY <2>2
<1>2. /\ n.step = "asking" /\ n.at = now /\ n.sent = r.sent + 1 /\ n.attempt = r.attempt
      /\ n.limited = r.limited /\ n.doc = r.doc
    BY DEF RecoveryType
<1>3. Goes(c, n) /\ lastTs' = now
    BY DEF Send
<1>4. r.sent \in Nat /\ r.attempt \in Nat /\ MaxRetries \in Nat /\ r.doc \in {"captures", "page"}
    BY WaybackAssumption DEF RecoveryType
<1>5. AttemptsHold(n) /\ n.sent <= 2 * (MaxRetries + 1)
    BY <1>2, <1>4 DEF AttemptsHold, Ready, Before
<1>6. /\ n.at # Never => now # Never /\ now >= n.at
      /\ n.limited # Never => now >= n.limited + Backoff(n.attempt - 1) /\ n.attempt >= 1
    BY <1>0, <1>2 DEF Ready, Never
<1>7. recovery'[c] = n /\ Took(c)
  <2>1. recovery' = [recovery EXCEPT ![c] = n] /\ recovery \in [Recoveries -> RecoveryType]
      BY <1>3 DEF Goes, ClientTypes
  <2>2. recovery'[c] = n /\ recovery' \in [Recoveries -> RecoveryType]
      BY <2>1, <1>1
  <2>3. \A d \in Recoveries \ {c} : recovery'[d] = recovery[d]
      BY <2>1
  <2>4. TimesHold(recovery[c])'
      BY <2>2, <1>2, <1>3, <1>6 DEF TimesHold
  <2>5. AttemptsHold(recovery[c])'
      BY <2>2, <1>5 DEF AttemptsHold, Before
  <2> QED BY <2>2, <2>3, <2>4, <2>5, <1>3 DEF Took, RecoveryHolds
<1> QED BY <1>2, <1>5, <1>7
\* A recovery goes on without a request.
LEMMA RestHolds ==
    ASSUME ClientTypes, NEW c \in Recoveries, NEW n \in RecoveryType, TimesHold(n),
           AttemptsHold(n), Goes(c, n), lastTs' = lastTs, now' = now
    PROVE  Took(c) /\ recovery'[c] = n
<1>1. recovery' = [recovery EXCEPT ![c] = n] /\ recovery \in [Recoveries -> RecoveryType]
    BY DEF Goes, ClientTypes
<1>2. recovery'[c] = n /\ recovery' \in [Recoveries -> RecoveryType]
    BY <1>1
<1>3. \A d \in Recoveries \ {c} : recovery'[d] = recovery[d]
    BY <1>1
<1>4. TimesHold(recovery[c])'
    BY <1>2 DEF TimesHold
<1>5. AttemptsHold(recovery[c])'
    BY <1>2 DEF AttemptsHold, Before
<1> QED BY <1>2, <1>3, <1>4, <1>5 DEF Took, RecoveryHolds

\* The throttle.
LEMMA ThrottledHolds ==
    ASSUME ClientTypes, NEW c \in Recoveries, NEW r \in RecoveryType, Ready(r),
           Throttled(c, r), now' = now
    PROVE  Took(c) /\ Timely(c, r.at)
<1>0. now \in Nat /\ lastTs \in Int /\ MinInterval \in Nat
    BY WaybackAssumption DEF ClientTypes, Never
<1>1. CASE lastTs = Never \/ now >= lastTs + MinInterval
  <2>1. Send(c, r)
      BY <1>1 DEF Throttled
  <2>2. r.at # Never => now >= r.at + MinInterval
      BY <1>0, <1>1 DEF Ready, RecoveryType
  <2> QED BY <2>1, <2>2, SendHolds DEF Timely
<1>2. CASE ~(lastTs = Never \/ now >= lastTs + MinInterval)
  <2> PICK n : n = [r EXCEPT !.step = "wait", !.until = lastTs + MinInterval]
      OBVIOUS
  <2>1. Goes(c, n) /\ lastTs' = lastTs
      BY <1>2 DEF Throttled
  <2>2. n \in RecoveryType
    <3>1. "wait" \in Steps /\ lastTs + MinInterval \in Int
        BY <1>0 DEF Steps
    <3>2. [r EXCEPT !.step = "wait", !.until = lastTs + MinInterval] \in RecoveryType
        BY <3>1 DEF RecoveryType
    <3> QED BY <3>2
  <2>3. /\ n.step = "wait" /\ n.until = lastTs + MinInterval /\ n.at = r.at /\ n.sent = r.sent
        /\ n.attempt = r.attempt /\ n.limited = r.limited /\ n.doc = r.doc
      BY DEF RecoveryType
  <2>4. r.at \in Int
      BY DEF RecoveryType
  <2>5. TimesHold(n)
      BY <1>0, <2>3, <2>4 DEF TimesHold, Ready
  <2>6. AttemptsHold(n)
      BY <2>3 DEF AttemptsHold, Ready, Before
  <2>7. Took(c) /\ recovery'[c] = n
      BY <2>1, <2>2, <2>5, <2>6, RestHolds
  <2> QED BY <2>3, <2>7 DEF Timely
<1> QED BY <1>1, <1>2

\* The first attempt of a request.
LEMMA RequestHolds ==
    ASSUME ClientTypes, BreakerInv, NEW c \in Recoveries, NEW r \in RecoveryType, Ready(r),
           r.sent <= Before(r), Request(c, r), now' = now
    PROVE  /\ Took(c) /\ Timely(c, r.at)
           /\ recovery'[c].step = "asking" => consec429 < BreakerThreshold
<1>1. CASE breakerOpen
  <2> PICK n : n = [r EXCEPT !.step = "none"]
      OBVIOUS
  <2>1. Goes(c, n) /\ lastTs' = lastTs
      BY <1>1 DEF Request
  <2>2. n \in RecoveryType
    <3>1. "none" \in Steps
        BY DEF Steps, Over
    <3>2. [r EXCEPT !.step = "none"] \in RecoveryType
        BY <3>1 DEF RecoveryType
    <3> QED BY <3>2
  <2>3. /\ n.step = "none" /\ n.at = r.at /\ n.attempt = r.attempt /\ n.limited = r.limited
      BY DEF RecoveryType
  <2>5. TimesHold(n)
      BY <2>3 DEF TimesHold, Ready
  <2>6. AttemptsHold(n)
      BY <2>3 DEF AttemptsHold, Ready
  <2>7. Took(c) /\ recovery'[c] = n
      BY <2>1, <2>2, <2>5, <2>6, RestHolds
  <2> QED BY <2>3, <2>7 DEF Timely
<1>2. CASE ~breakerOpen
  <2> PICK n : n = [r EXCEPT !.attempt = 0, !.limited = Never]
      OBVIOUS
  <2>1. Throttled(c, n)
      BY <1>2 DEF Request
  <2>2. n \in RecoveryType
    <3>1. Never \in Int
        BY DEF Never
    <3>2. [r EXCEPT !.attempt = 0, !.limited = Never] \in RecoveryType
        BY <3>1 DEF RecoveryType
    <3> QED BY <3>2
  <2>3. n.at = r.at /\ n.sent = r.sent /\ n.attempt = 0 /\ n.limited = Never /\ n.doc = r.doc
      BY DEF RecoveryType
  <2>4. MaxRetries \in Nat /\ r.sent \in Nat /\ Before(r) \in Int
      BY WaybackAssumption DEF RecoveryType, Before
  <2>5. Ready(n)
    <3>1. Before(n) = Before(r)
        BY <2>3 DEF Before
    <3> QED BY <2>3, <2>4, <3>1 DEF Ready
  <2>6. Took(c) /\ Timely(c, n.at)
      BY <2>1, <2>2, <2>5, ThrottledHolds
  <2> QED BY <1>2, <2>3, <2>6 DEF BreakerInv
<1> QED BY <1>1, <1>2
\* What ArchiveSpared says of a step of recovery c.
Spared(c) ==
    LET r == recovery[c] IN
    Sends(c) => /\ r.at # Never => now >= r.at + MinInterval
                /\ r.limited # Never => now >= r.limited + Backoff(r.attempt - 1)
                /\ recovery'[c].sent <= 2 * (MaxRetries + 1)
                /\ r.step \in Over => consec429 < BreakerThreshold

\* A step of recovery c as the invariant and the property want it.
Right(c) == Took(c) /\ Spared(c) /\ now' = now /\ consec429' \in Nat /\ breakerOpen' \in BOOLEAN
            /\ BreakerInv'

\* recover() keeps the archive invariant.
LEMMA RecoverRight ==
    ASSUME ArchiveInv, NEW c \in Recoveries, Recover(c)
    PROVE  Right(c)
<1> DEFINE r == recovery[c]
<1>0. ClientTypes /\ BreakerInv /\ TimesHold(r) /\ r \in RecoveryType
    BY DEF ArchiveInv, ClientTypes
<1> PICK n : n = [Fresh EXCEPT !.at = r.at]
    OBVIOUS
<1>1. Request(c, n) /\ now' = now /\ consec429' = consec429 /\ breakerOpen' = breakerOpen
    BY DEF Recover
<1>2. r.at \in Int /\ Never \in Int /\ MaxRetries \in Nat
    BY <1>0, WaybackAssumption DEF RecoveryType, Never
<1>3. n = [doc |-> "captures", step |-> "idle", until |-> 0, attempt |-> 0, status |-> 0,
           sent |-> 0, at |-> r.at, limited |-> Never]
    BY DEF Fresh
<1>4. n \in RecoveryType
  <2>1. "idle" \in Steps
      BY DEF Steps, Over
  <2>2. [doc |-> "captures", step |-> "idle", until |-> 0, attempt |-> 0, status |-> 0,
         sent |-> 0, at |-> r.at, limited |-> Never] \in RecoveryType
      BY <1>2, <2>1 DEF RecoveryType
  <2> QED BY <1>3, <2>2
<1>5. Ready(n) /\ n.sent <= Before(n)
    BY <1>0, <1>2, <1>3 DEF Ready, Before, TimesHold
<1>6. Took(c) /\ Timely(c, n.at) /\ (recovery'[c].step = "asking" => consec429 < BreakerThreshold)
    BY <1>0, <1>1, <1>4, <1>5, RequestHolds
<1>7. n.at = r.at
    BY <1>3
<1>8. r.step # "backoff"
    BY DEF Recover, Over
<1>9. r.limited # Never => now >= r.limited + Backoff(r.attempt - 1)
    BY <1>0, <1>8 DEF TimesHold
<1>10. Spared(c)
    BY <1>6, <1>7, <1>9 DEF Spared, Sends, Timely
<1> QED BY <1>0, <1>1, <1>6, <1>10 DEF Right, ClientTypes, BreakerInv

\* A wait for a token that ends keeps it.
LEMMA WaitEndsRight ==
    ASSUME ArchiveInv, NEW c \in Recoveries, WaitEnds(c)
    PROVE  Right(c)
<1> DEFINE r == recovery[c]
<1>0. ClientTypes /\ BreakerInv /\ TimesHold(r) /\ AttemptsHold(r) /\ r \in RecoveryType
    BY DEF ArchiveInv, ClientTypes
<1>1. /\ r.step = "wait" /\ now >= r.until /\ Send(c, r) /\ now' = now
      /\ consec429' = consec429 /\ breakerOpen' = breakerOpen
    BY DEF WaitEnds
<1>2. r.at \in Int /\ r.until \in Int /\ now \in Nat /\ MinInterval \in Nat
    BY <1>0, WaybackAssumption DEF RecoveryType, ClientTypes
<1>3. Ready(r)
    BY <1>0, <1>1 DEF Ready, TimesHold, AttemptsHold
<1>4. Took(c) /\ recovery'[c].step = "asking" /\ recovery'[c].sent <= 2 * (MaxRetries + 1)
    BY <1>0, <1>1, <1>3, SendHolds
<1>5. r.at # Never => now >= r.at + MinInterval
    BY <1>0, <1>1, <1>2 DEF TimesHold
<1>6. r.limited # Never => now >= r.limited + Backoff(r.attempt - 1)
    BY <1>0, <1>1 DEF TimesHold
<1>7. Spared(c)
    BY <1>1, <1>4, <1>5, <1>6 DEF Spared, Over
<1> QED BY <1>0, <1>1, <1>4, <1>7 DEF Right, ClientTypes, BreakerInv

\* A backoff that ends keeps it.
LEMMA BackoffEndsRight ==
    ASSUME ArchiveInv, NEW c \in Recoveries, BackoffEnds(c)
    PROVE  Right(c)
<1> DEFINE r == recovery[c]
<1>0. ClientTypes /\ BreakerInv /\ TimesHold(r) /\ AttemptsHold(r) /\ r \in RecoveryType
    BY DEF ArchiveInv, ClientTypes
<1>1. /\ r.step = "backoff" /\ now >= r.until /\ Throttled(c, r) /\ now' = now
      /\ consec429' = consec429 /\ breakerOpen' = breakerOpen
    BY DEF BackoffEnds
<1>2. r.limited \in Int /\ r.until \in Int /\ now \in Nat
    BY <1>0 DEF RecoveryType, ClientTypes
<1>3. r.limited # Never => now >= r.limited + Backoff(r.attempt - 1)
  <2> SUFFICES ASSUME r.limited # Never PROVE now >= r.limited + Backoff(r.attempt - 1)
      OBVIOUS
  <2>1. r.attempt - 1 \in Nat
      BY <1>0 DEF TimesHold, RecoveryType
  <2>2. Backoff(r.attempt - 1) \in Int
      BY <2>1, BackoffType
  <2> QED BY <1>0, <1>1, <1>2, <2>2 DEF TimesHold
<1>4. Ready(r)
    BY <1>0, <1>1, <1>3 DEF Ready, TimesHold, AttemptsHold
<1>5. Took(c) /\ Timely(c, r.at)
    BY <1>0, <1>1, <1>4, ThrottledHolds
<1>6. Spared(c)
    BY <1>1, <1>3, <1>5 DEF Spared, Over, Timely, Sends
<1> QED BY <1>0, <1>1, <1>5, <1>6 DEF Right, ClientTypes, BreakerInv
\* An answer 429 or 5xx keeps it.
LEMMA RateLimitedRight ==
    ASSUME ArchiveInv, NEW c \in Recoveries, RateLimited(c)
    PROVE  Right(c)
<1> PICK r : r = recovery[c]
    OBVIOUS
<1>0. ClientTypes /\ BreakerInv /\ TimesHold(r) /\ AttemptsHold(r) /\ r \in RecoveryType
    BY DEF ArchiveInv, ClientTypes
<1>1. /\ r.step = "asking" /\ consec429' = consec429 + 1 /\ now' = now /\ lastTs' = lastTs
      /\ breakerOpen' = (breakerOpen \/ consec429' >= BreakerThreshold)
    BY DEF RateLimited
<1>2. /\ r.attempt \in Nat /\ r.sent \in Nat /\ now \in Nat /\ MaxRetries \in Nat
      /\ consec429 \in Nat /\ r.doc \in {"captures", "page"}
    BY <1>0, WaybackAssumption DEF RecoveryType, ClientTypes
<1>3. /\ consec429' \in Nat /\ breakerOpen' \in BOOLEAN /\ BreakerInv'
  <2>1. consec429' \in Nat
      BY <1>1, <1>2
  <2>2. BreakerThreshold \in Nat
      BY WaybackAssumption
  <2>3. ~breakerOpen' => ~(consec429' >= BreakerThreshold)
      BY <1>1, Zenon
  <2>5. ~breakerOpen' => consec429' < BreakerThreshold
      BY <2>1, <2>2, <2>3
  <2>4. breakerOpen' \in BOOLEAN
      BY <1>1
  <2> QED BY <2>1, <2>4, <2>5 DEF BreakerInv
<1>4. Took(c) /\ recovery'[c].step # "asking"
  <2>1. CASE consec429' >= BreakerThreshold \/ r.attempt = MaxRetries
    <3> PICK n : n = [r EXCEPT !.step = "none"]
        OBVIOUS
    <3>1. Goes(c, n)
        BY <2>1 DEF RateLimited
    <3>2. "none" \in Steps
        BY DEF Steps, Over
    <3>3. [r EXCEPT !.step = "none"] \in RecoveryType
        BY <1>0, <3>2 DEF RecoveryType
    <3>4. n \in RecoveryType
        BY <3>3
    <3>5. n.step = "none" /\ n.at = r.at /\ n.attempt = r.attempt /\ n.limited = r.limited
        BY <1>0 DEF RecoveryType
    <3>6. TimesHold(n)
        BY <1>0, <1>1, <3>5 DEF TimesHold
    <3>7. AttemptsHold(n)
        BY <1>0, <3>5 DEF AttemptsHold
    <3>8. Took(c) /\ recovery'[c] = n
        BY <1>0, <1>1, <3>1, <3>4, <3>6, <3>7, RestHolds
    <3> QED BY <3>5, <3>8
  <2>2. CASE ~(consec429' >= BreakerThreshold \/ r.attempt = MaxRetries)
    <3> PICK n : n = [r EXCEPT !.step = "backoff", !.attempt = @ + 1, !.limited = now,
                               !.until = now + Backoff(r.attempt)]
        OBVIOUS
    <3>1. Goes(c, n)
        BY <2>2 DEF RateLimited
    <3>2. "backoff" \in Steps /\ r.attempt + 1 \in Nat /\ now \in Int
        BY <1>2 DEF Steps
    <3>3. now + Backoff(r.attempt) \in Int
        BY <1>2, BackoffType
    <3>4. [r EXCEPT !.step = "backoff", !.attempt = r.attempt + 1, !.limited = now,
                    !.until = now + Backoff(r.attempt)] \in RecoveryType
        BY <1>0, <3>2, <3>3 DEF RecoveryType
    <3>5. n \in RecoveryType
        BY <3>4
    <3>6. /\ n.step = "backoff" /\ n.at = r.at /\ n.attempt = r.attempt + 1 /\ n.limited = now
          /\ n.until = now + Backoff(r.attempt) /\ n.sent = r.sent /\ n.doc = r.doc
        BY <1>0 DEF RecoveryType
    <3>7. n.attempt - 1 = r.attempt
        BY <1>2, <3>6
    <3>8. TimesHold(n)
        BY <1>0, <1>2, <3>3, <3>6, <3>7 DEF TimesHold
    <3>9. AttemptsHold(n)
        BY <1>0, <1>1, <1>2, <2>2, <3>6 DEF AttemptsHold, Before
    <3>10. Took(c) /\ recovery'[c] = n
        BY <1>0, <1>1, <3>1, <3>5, <3>8, <3>9, RestHolds
    <3> QED BY <3>6, <3>10
  <2> QED BY <2>1, <2>2
<1> QED BY <1>1, <1>3, <1>4 DEF Right, Spared, Sends

\* Any other answer keeps it.
LEMMA AnsweredRight ==
    ASSUME ArchiveInv, NEW c \in Recoveries, NEW status \in {200, 503}, NEW useful \in BOOLEAN,
           Answered(c, status, useful)
    PROVE  Right(c)
<1> PICK r : r = recovery[c]
    OBVIOUS
<1>0. ClientTypes /\ BreakerInv /\ TimesHold(r) /\ AttemptsHold(r) /\ r \in RecoveryType
    BY DEF ArchiveInv, ClientTypes
<1>1. r.step = "asking" /\ consec429' = 0 /\ now' = now /\ breakerOpen' = breakerOpen
    BY DEF Answered
<1>2. r.attempt \in Nat /\ r.sent \in Nat /\ MaxRetries \in Nat
    BY <1>0, WaybackAssumption DEF RecoveryType
<1>3. consec429' \in Nat /\ breakerOpen' \in BOOLEAN /\ BreakerInv'
    BY <1>0, <1>1, WaybackAssumption DEF BreakerInv, ClientTypes
<1>4. r.limited # Never => now >= r.limited + Backoff(r.attempt - 1)
    BY <1>0, <1>1 DEF TimesHold
<1>5. CASE status = 200 /\ useful /\ r.doc = "captures"
  <2> DEFINE asked == [r EXCEPT !.doc = "page", !.status = 200]
  <2>1. Request(c, asked)
      BY <1>5 DEF Answered
  <2>2. asked \in RecoveryType
    <3>1. [r EXCEPT !.doc = "page"] \in RecoveryType
        BY <1>0 DEF RecoveryType
    <3>2. ASSUME NEW q \in RecoveryType, NEW s \in Int PROVE [q EXCEPT !.status = s] \in RecoveryType
        BY DEF RecoveryType
    <3>3. status \in Int
        OBVIOUS
    <3>4. [[r EXCEPT !.doc = "page"] EXCEPT !.status = status] \in RecoveryType
        BY <3>1, <3>2, <3>3
    <3> QED BY <1>5, <3>4
  <2>3. /\ asked.doc = "page" /\ asked.at = r.at /\ asked.attempt = r.attempt
        /\ asked.limited = r.limited /\ asked.sent = r.sent
      BY <1>0 DEF RecoveryType
  <2> HIDE DEF asked
  <2> PICK n \in RecoveryType :
        /\ Request(c, n) /\ n.doc = "page" /\ n.at = r.at /\ n.attempt = r.attempt
        /\ n.limited = r.limited /\ n.sent = r.sent
      BY <2>1, <2>2, <2>3
  <2>5. Ready(n) /\ n.sent <= Before(n)
      BY <1>0, <1>1, <1>2, <1>4, <1>5 DEF Ready, Before, AttemptsHold, TimesHold
  <2>6. Took(c) /\ Timely(c, n.at)
    <3>1. ClientTypes /\ BreakerInv /\ now' = now
        BY <1>0, <1>1
    <3> QED BY <2>5, <3>1, RequestHolds
  <2>7. Spared(c)
      BY <1>1, <1>4, <2>6 DEF Spared, Sends, Timely, Over
  <2> QED BY <1>1, <1>3, <2>6, <2>7 DEF Right
<1>6. CASE ~(status = 200 /\ useful /\ r.doc = "captures")
  <2> PICK n : n = [r EXCEPT !.status = status,
                             !.step = IF status = 200 /\ useful THEN "found" ELSE "none"]
      OBVIOUS
  <2>1. Goes(c, n) /\ lastTs' = lastTs
      BY <1>6 DEF Answered
  <2>2. (IF status = 200 /\ useful THEN "found" ELSE "none") \in {"found", "none"} /\ status \in Int
      OBVIOUS
  <2>3. PICK to \in {"found", "none"} : n = [r EXCEPT !.status = status, !.step = to]
      BY <2>2
  <2>4. to \in Steps
      BY DEF Steps, Over
  <2>5. [r EXCEPT !.status = status, !.step = to] \in RecoveryType
      BY <1>0, <2>2, <2>4 DEF RecoveryType
  <2>6. n \in RecoveryType
      BY <2>3, <2>5
  <2>7. n.step = to /\ n.at = r.at /\ n.attempt = r.attempt /\ n.limited = r.limited
    <3>1. n = [r EXCEPT !.status = status, !.step = to]
        BY <2>3
    <3>2. n.step = to
      <4>1. [r EXCEPT !.status = status] \in RecoveryType
          BY <1>0 DEF RecoveryType
      <4>2. [[r EXCEPT !.status = status] EXCEPT !.step = to].step = to
          BY <4>1 DEF RecoveryType
      <4> QED BY <3>1, <4>2
    <3>3. n.at = r.at
        BY <1>0, <3>1 DEF RecoveryType
    <3>4. n.attempt = r.attempt
        BY <1>0, <3>1 DEF RecoveryType
    <3>5. n.limited = r.limited
        BY <1>0, <3>1 DEF RecoveryType
    <3> QED BY <3>2, <3>3, <3>4, <3>5
  <2>8. TimesHold(n)
      BY <1>0, <1>1, <2>7 DEF TimesHold
  <2>9. AttemptsHold(n)
      BY <1>0, <2>7 DEF AttemptsHold
  <2>10. Took(c) /\ recovery'[c] = n
      BY <1>0, <1>1, <2>1, <2>6, <2>8, <2>9, RestHolds
  <2>11. Spared(c)
      BY <2>7, <2>10 DEF Spared, Sends
  <2> QED BY <1>1, <1>3, <2>10, <2>11 DEF Right
<1> QED BY <1>5, <1>6
\* A request without an answer ends the recovery.
LEMMA UnansweredRight ==
    ASSUME ArchiveInv, NEW c \in Recoveries, Unanswered(c)
    PROVE  Right(c)
<1> PICK r : r = recovery[c]
    OBVIOUS
<1>0. ClientTypes /\ BreakerInv /\ TimesHold(r) /\ AttemptsHold(r) /\ r \in RecoveryType
    BY DEF ArchiveInv, ClientTypes
<1> PICK n : n = [r EXCEPT !.step = "none"]
    OBVIOUS
<1>1. /\ r.step = "asking" /\ Goes(c, n)
      /\ now' = now /\ lastTs' = lastTs /\ consec429' = consec429 /\ breakerOpen' = breakerOpen
    BY DEF Unanswered
<1>2. "none" \in Steps
    BY DEF Steps, Over
<1>3. /\ n \in RecoveryType /\ n.step = "none" /\ n.at = r.at /\ n.attempt = r.attempt
      /\ n.limited = r.limited
    BY <1>0, <1>2 DEF RecoveryType
<1>4. TimesHold(n) /\ AttemptsHold(n)
    BY <1>0, <1>1, <1>3 DEF TimesHold, AttemptsHold
<1>5. Took(c) /\ recovery'[c] = n
    BY <1>0, <1>1, <1>3, <1>4, RestHolds
<1>6. Spared(c)
    BY <1>3, <1>5 DEF Spared, Sends
<1>7. consec429' \in Nat /\ breakerOpen' \in BOOLEAN /\ BreakerInv'
    BY <1>0, <1>1 DEF BreakerInv, ClientTypes
<1> QED BY <1>1, <1>5, <1>6, <1>7 DEF Right
\* It holds at the start.
LEMMA ArchiveInit == WaybackInit => ArchiveInv
<1> SUFFICES ASSUME WaybackInit PROVE ArchiveInv
    OBVIOUS
<1>1. /\ now = 0 /\ lastTs = Never /\ consec429 = 0 /\ breakerOpen = FALSE
      /\ recovery = [c \in Recoveries |-> Fresh]
    BY DEF WaybackInit
<1>2. Fresh \in RecoveryType
  <2>1. "idle" \in Steps /\ Never \in Int
      BY DEF Steps, Over, Never
  <2> QED BY <2>1 DEF RecoveryType, Fresh
<1>3. ClientTypes
  <2>1. now \in Nat /\ lastTs <= now
      BY <1>1 DEF Never
  <2>2. recovery \in [Recoveries -> RecoveryType]
      BY <1>1, <1>2
  <2>3. lastTs \in Nat \cup {Never} /\ consec429 \in Nat /\ breakerOpen \in BOOLEAN
      BY <1>1
  <2> QED BY <2>1, <2>2, <2>3 DEF ClientTypes
<1>4. BreakerInv
    BY <1>1, WaybackAssumption DEF BreakerInv
<1>5. TimesHold(Fresh)
    BY DEF TimesHold, Fresh
<1>6. AttemptsHold(Fresh)
    BY WaybackAssumption DEF AttemptsHold, Fresh
<1> QED BY <1>1, <1>3, <1>4, <1>5, <1>6 DEF ArchiveInv

\* A step of a recovery as it should be keeps the invariant, and spares the archive.
LEMMA RightKeeps ==
    ASSUME ArchiveInv, NEW c \in Recoveries, Right(c)
    PROVE  ArchiveInv' /\ \A d \in Recoveries : Spared(d)
<1>1. ClientTypes /\ Took(c) /\ Spared(c) /\ now' = now /\ consec429' \in Nat
      /\ breakerOpen' \in BOOLEAN /\ BreakerInv'
    BY DEF ArchiveInv, Right
<1>2. now \in Nat /\ lastTs \in Nat \cup {Never} /\ lastTs <= now
    BY <1>1 DEF ClientTypes
<1>3. lastTs' \in {lastTs, now} /\ recovery' \in [Recoveries -> RecoveryType]
    BY <1>1 DEF Took
<1>4. now' \in Nat /\ lastTs' \in Nat \cup {Never} /\ lastTs' <= now'
    BY <1>1, <1>2, <1>3 DEF Never
<1>5. ClientTypes'
  <2>1. Never' = Never /\ Steps' = Steps /\ RecoveryType' = RecoveryType
      BY DEF Never, Steps, Over, RecoveryType
  <2> QED BY <1>1, <1>3, <1>4, <2>1 DEF ClientTypes
<1>6. ASSUME NEW d \in Recoveries PROVE RecoveryHolds(d)' /\ Spared(d)
  <2>1. CASE d = c
      BY <1>1, <2>1 DEF Took
  <2>2. CASE d # c
    <3>1. recovery'[d] = recovery[d]
        BY <1>1, <2>2 DEF Took
    <3>2. RecoveryHolds(d)
        BY DEF ArchiveInv, RecoveryHolds
    <3>3. RecoveryHolds(d)'
        BY <1>1, <1>3, <3>1, <3>2, OthersKept
    <3>4. Spared(d)
        BY <3>1 DEF Spared, Sends
    <3> QED BY <3>3, <3>4
  <2> QED BY <2>1, <2>2
<1> QED BY <1>1, <1>5, <1>6 DEF ArchiveInv, RecoveryHolds

\* Every step keeps the invariant, and spares the archive.
LEMMA ArchiveStep ==
    ArchiveInv /\ [WaybackNext]_wvars => ArchiveInv' /\ \A c \in Recoveries : Spared(c)
<1> SUFFICES ASSUME ArchiveInv, [WaybackNext]_wvars
             PROVE  ArchiveInv' /\ \A c \in Recoveries : Spared(c)
    OBVIOUS
<1>1. ASSUME recovery' = recovery, lastTs' = lastTs, consec429' = consec429,
             breakerOpen' = breakerOpen, now' \in {now, now + 1}
      PROVE  ArchiveInv' /\ \A c \in Recoveries : Spared(c)
  <2>1. ClientTypes /\ BreakerInv
      BY DEF ArchiveInv
  <2>2. now' \in Nat /\ lastTs' <= now'
      BY <1>1, <2>1 DEF ClientTypes, Never
  <2>3. ClientTypes'
      BY <1>1, <2>1, <2>2 DEF ClientTypes
  <2>4. BreakerInv'
      BY <1>1, <2>1 DEF BreakerInv
  <2>5. ASSUME NEW c \in Recoveries PROVE RecoveryHolds(c)' /\ Spared(c)
    <3>1. RecoveryHolds(c)
        BY DEF ArchiveInv, RecoveryHolds
    <3>2. recovery'[c] = recovery[c] /\ lastTs' \in {lastTs, now}
        BY <1>1
    <3>3. RecoveryHolds(c)'
        BY <1>1, <2>1, <3>1, <3>2, OthersKept
    <3> QED BY <3>2, <3>3 DEF Spared, Sends
  <2> QED BY <2>3, <2>4, <2>5 DEF ArchiveInv, RecoveryHolds
<1>2. CASE Second
    BY <1>1, <1>2 DEF Second
<1>3. ASSUME NEW c \in Recoveries,
             \/ Recover(c) \/ WaitEnds(c) \/ RateLimited(c) \/ BackoffEnds(c) \/ Unanswered(c)
             \/ \E status \in {200, 503}, useful \in BOOLEAN : Answered(c, status, useful)
      PROVE  ArchiveInv' /\ \A d \in Recoveries : Spared(d)
  <2>1. Right(c)
      BY <1>3, RecoverRight, WaitEndsRight, RateLimitedRight, BackoffEndsRight, AnsweredRight,
         UnansweredRight
  <2> QED BY <2>1, RightKeeps
<1>4. CASE UNCHANGED wvars
    BY <1>1, <1>4 DEF wvars
<1> QED BY <1>2, <1>3, <1>4 DEF WaybackNext

\* The invariant of the archive's client holds, for any numbers of recoveries,
\* retries and seconds.
THEOREM ArchiveInvCorrect == WaybackSpec => []ArchiveInv
<1>1. ArchiveInv /\ [WaybackNext]_wvars => ArchiveInv'
    BY ArchiveStep
<1> QED BY <1>1, ArchiveInit, PTL DEF WaybackSpec

\* No request is repeated sooner than the throttle and the delay after a 429 allow,
\* or more often than its retries, and none begins while the archive limits
\* (wayback.py:155), however the recoveries interleave.
THEOREM ArchiveSparedCorrect == WaybackSpec => ArchiveSpared
<1>1. ArchiveInv /\ [WaybackNext]_wvars =>
        [\A c \in Recoveries :
           LET r == recovery[c] IN
           Sends(c) => /\ r.at # Never => now >= r.at + MinInterval
                       /\ r.limited # Never => now >= r.limited + Backoff(r.attempt - 1)
                       /\ recovery'[c].sent <= 2 * (MaxRetries + 1)
                       /\ r.step \in Over => consec429 < BreakerThreshold]_wvars
    BY ArchiveStep DEF Spared
<1> QED BY <1>1, ArchiveInvCorrect, PTL DEF WaybackSpec, ArchiveSpared
-----------------------------------------------------------------------------
(* Recipes                                                                  *)

\* The less of two numbers.
LEMMA LeastFact ==
    ASSUME NEW a \in Int, NEW b \in Int
    PROVE  Least({a, b}) = IF a <= b THEN a ELSE b
<1> DEFINE m == IF a <= b THEN a ELSE b
<1>1. m \in {a, b} /\ \A k \in {a, b} : m <= k
    OBVIOUS
<1>2. \A n \in {a, b} : (\A k \in {a, b} : n <= k) => n = m
    OBVIOUS
<1> HIDE DEF m
<1>3. Least({a, b}) \in {a, b} /\ \A k \in {a, b} : Least({a, b}) <= k
    BY <1>1 DEF Least
<1>4. Least({a, b}) = m
    BY <1>2, <1>3
<1> QED BY <1>4 DEF m

\* What a step may still charge is what both budgets leave.
LEMMA AllowanceFact ==
    ASSUME RecipeInv, NEW r \in RecipeRuns, NEW k \in {"search", "fetch"}
    PROVE  /\ Allowance(r, k) \in Nat /\ Left[k] \in Nat /\ RecipeCaps[k] \in Nat
           /\ spent[r][k] \in Nat /\ spent[r][k] + Allowance(r, k) <= Left[k]
           /\ spent[r][k] + Allowance(r, k) <= RecipeCaps[k]
<1>1. Left[k] \in Nat /\ RecipeCaps[k] \in Nat
    BY PlanAssumption
<1>2. spent[r][k] \in Nat
    BY DEF RecipeInv, ShadowTypes
<1>3. spent[r][k] <= Left[k] /\ spent[r][k] <= RecipeCaps[k]
    BY DEF RecipeInv, SpentInv
<1> DEFINE a == Left[k] - spent[r][k]
           b == RecipeCaps[k] - spent[r][k]
<1>4. a \in Int /\ b \in Int
    BY <1>1, <1>2
<1>5. Allowance(r, k) = IF a <= b THEN a ELSE b
  <2> HIDE DEF a, b
  <2>1. Least({a, b}) = IF a <= b THEN a ELSE b
      BY <1>4, LeastFact
  <2> QED BY <2>1 DEF Allowance, a, b
<1> QED BY <1>1, <1>2, <1>3, <1>5
\* Only run r moves.
Only(r) == \A s \in RecipeRuns \ {r} : rpc'[s] = rpc[s] /\ outcome'[s] = outcome[s]

\* The parts of the invariant that are about one run follow for the others.
LEMMA ShadowStep ==
    ASSUME RecipeInv, NEW r \in RecipeRuns, ShadowTypes', SpentInv', Only(r),
           cut' \in {cut, cut \cup {r}}, blamers' \in {blamers, blamers \cup {r}},
           r \in cut' => rpc'[r] \in {"gate", "report", "end"} /\ outcome'[r] \in Short,
           r \in blamers' => rpc'[r] \in {"report", "end"} /\ r \notin cut'
    PROVE  RecipeInv'
<1>1. CutInv'
  <2> SUFFICES ASSUME NEW s \in cut'
               PROVE  rpc'[s] \in {"gate", "report", "end"} /\ outcome'[s] \in Short
      BY DEF CutInv
  <2>1. s \in RecipeRuns /\ (s # r => s \in cut)
      BY DEF RecipeInv, BlamedRuns
  <2> QED BY <2>1 DEF RecipeInv, CutInv, Only
<1>2. BlameInv'
  <2> SUFFICES ASSUME NEW s \in blamers' PROVE rpc'[s] \in {"report", "end"}
      BY DEF BlameInv
  <2>1. s \in RecipeRuns /\ (s # r => s \in blamers)
      BY DEF RecipeInv, BlamedRuns
  <2> QED BY <2>1 DEF RecipeInv, BlameInv, Only
<1>3. BlamedRuns'
    BY DEF RecipeInv, BlamedRuns
<1> QED BY <1>1, <1>2, <1>3 DEF RecipeInv

\* A run that leaves its plan.
LEMMA LeaveFact ==
    ASSUME PcTypes, NEW r \in RecipeRuns, NEW why \in Outcomes, Leave(r, why)
    PROVE  PcTypes' /\ Only(r) /\ rpc'[r] = "gate" /\ outcome'[r] = why
<1>1. /\ rpc' = [rpc EXCEPT ![r] = "gate"] /\ outcome' = [outcome EXCEPT ![r] = why]
    BY DEF Leave
<1>2. rpc' \in [RecipeRuns -> {"begin", "step", "gate", "report", "end"}] /\ rpc'[r] = "gate"
      /\ \A s \in RecipeRuns \ {r} : rpc'[s] = rpc[s]
    BY <1>1 DEF PcTypes
<1>3. outcome' \in [RecipeRuns -> Outcomes] /\ outcome'[r] = why
      /\ \A s \in RecipeRuns \ {r} : outcome'[s] = outcome[s]
    BY <1>1 DEF PcTypes
<1> QED BY <1>2, <1>3 DEF PcTypes, Only, Outcomes

\* A run that stays in it.
LEMMA StayFact ==
    ASSUME PcTypes, NEW r \in RecipeRuns, StayIn(r)
    PROVE  PcTypes' /\ Only(r) /\ rpc'[r] = rpc[r] /\ outcome'[r] = outcome[r]
BY DEF PcTypes, StayIn, Only, Outcomes

\* A charge of n calls of one kind that the allowance covers.
LEMMA ChargeFact ==
    ASSUME RecipeInv, NEW r \in RecipeRuns, NEW k \in {"search", "fetch"}, NEW n \in Nat,
           n <= Allowance(r, k), spent' = [spent EXCEPT ![r][k] = @ + n]
    PROVE  spent' \in [RecipeRuns -> [search : Nat, fetch : Nat]] /\ SpentInv'
<1> PICK row : row = [spent[r] EXCEPT ![k] = @ + n]
    OBVIOUS
<1>0. spent \in [RecipeRuns -> [search : Nat, fetch : Nat]]
    BY DEF RecipeInv, ShadowTypes
<1>1. spent' = [spent EXCEPT ![r] = row]
    OBVIOUS
<1>2. /\ Left[k] \in Nat /\ RecipeCaps[k] \in Nat /\ spent[r][k] \in Nat /\ Allowance(r, k) \in Nat
      /\ spent[r][k] + Allowance(r, k) <= Left[k]
      /\ spent[r][k] + Allowance(r, k) <= RecipeCaps[k]
    BY AllowanceFact
<1>3. spent[r] \in [search : Nat, fetch : Nat]
    BY <1>0
<1>4. row \in [search : Nat, fetch : Nat] /\ row[k] = spent[r][k] + n
    BY <1>2, <1>3
<1>5. \A j \in {"search", "fetch"} \ {k} : row[j] = spent[r][j]
    BY <1>3
<1>6. spent' \in [RecipeRuns -> [search : Nat, fetch : Nat]] /\ spent'[r] = row
    BY <1>0, <1>1, <1>4
<1>7. \A s \in RecipeRuns \ {r} : spent'[s] = spent[s]
    BY <1>0, <1>1
<1>8. row[k] <= Left[k] /\ row[k] <= RecipeCaps[k]
    BY <1>2, <1>4
<1>9. ASSUME NEW s \in RecipeRuns, NEW j \in {"search", "fetch"}
      PROVE  spent'[s][j] <= Left[j] /\ spent'[s][j] <= RecipeCaps[j]
  <2>1. spent[s][j] <= Left[j] /\ spent[s][j] <= RecipeCaps[j]
      BY DEF RecipeInv, SpentInv
  <2> QED BY <1>5, <1>6, <1>7, <1>8, <2>1
<1> QED BY <1>6, <1>9 DEF SpentInv
\* A step that leaves where the runs are, and what they charged, alone.
LEMMA RecipeKept ==
    ASSUME RecipeInv, UNCHANGED <<rpc, at, discovered, spent, outcome, cut, blamers>>
    PROVE  RecipeInv'
<1>1. ShadowTypes' /\ SpentInv'
    BY DEF RecipeInv, ShadowTypes, PcTypes, SpentInv
<1>2. CutInv' /\ BlameInv' /\ BlamedRuns'
    BY DEF RecipeInv, CutInv, BlameInv, BlamedRuns
<1> QED BY <1>1, <1>2 DEF RecipeInv

\* A run that has not passed its plan was neither cut short nor blamed.
LEMMA NotYet ==
    ASSUME RecipeInv, NEW r \in RecipeRuns, rpc[r] \in {"begin", "step"}
    PROVE  r \notin cut /\ r \notin blamers
BY DEF RecipeInv, CutInv, BlameInv

\* The start of a shadow keeps the recipe invariant.
LEMMA BeginShadowKeeps ==
    ASSUME RecipeInv, NEW r \in RecipeRuns, BeginShadow(r)
    PROVE  RecipeInv'
<1>1. ShadowTypes /\ PcTypes
    BY DEF RecipeInv, ShadowTypes
<1>2. PICK to \in {"end", "step"} : rpc' = [rpc EXCEPT ![r] = to]
    BY DEF BeginShadow
<1>3. rpc[r] = "begin" /\ UNCHANGED <<at, discovered, spent, outcome, cut, blamers>>
    BY DEF BeginShadow
<1>4. rpc' \in [RecipeRuns -> {"begin", "step", "gate", "report", "end"}]
      /\ \A s \in RecipeRuns \ {r} : rpc'[s] = rpc[s]
    BY <1>1, <1>2 DEF PcTypes
<1>5. ShadowTypes' /\ Only(r)
    BY <1>1, <1>3, <1>4 DEF ShadowTypes, PcTypes, Only
<1>6. SpentInv'
    BY <1>3 DEF RecipeInv, SpentInv
<1>7. r \notin cut' /\ r \notin blamers'
    BY <1>3, NotYet
<1> QED BY <1>3, <1>5, <1>6, <1>7, ShadowStep

\* A search step keeps it.
LEMMA SearchStepKeeps ==
    ASSUME RecipeInv, NEW r \in RecipeRuns, SearchStep(r)
    PROVE  RecipeInv'
<1>1. /\ ShadowTypes /\ PcTypes /\ SpentInv /\ at \in [RecipeRuns -> Nat \ {0}]
      /\ discovered \in [RecipeRuns -> SUBSET PageUrls]
      /\ spent \in [RecipeRuns -> [search : Nat, fetch : Nat]]
    BY DEF RecipeInv, ShadowTypes
<1>2. rpc[r] = "step" /\ at' = [at EXCEPT ![r] = @ + 1] /\ UNCHANGED <<cut, blamers>>
    BY DEF SearchStep
<1>3. at' \in [RecipeRuns -> Nat \ {0}]
    BY <1>1, <1>2
<1>4. r \notin cut' /\ r \notin blamers'
    BY <1>2, NotYet
<1>5. PcTypes' /\ Only(r)
  <2>1. StayIn(r) \/ \E why \in {"budget_limited", "error"} : Leave(r, why)
      BY DEF SearchStep
  <2>2. \A why \in {"budget_limited", "error"} : why \in Outcomes
      BY DEF Outcomes
  <2> QED BY <1>1, <2>1, <2>2, LeaveFact, StayFact
<1>6. discovered' \in [RecipeRuns -> SUBSET PageUrls]
  <2>1. discovered' = discovered
        \/ \E urls \in SUBSET PageUrls : discovered' = [discovered EXCEPT ![r] = @ \cup urls]
      BY DEF SearchStep
  <2> QED BY <1>1, <2>1
<1>7. spent' \in [RecipeRuns -> [search : Nat, fetch : Nat]] /\ SpentInv'
  <2>1. CASE Allowance(r, "search") <= 0
    <3>1. spent' = spent
        BY <2>1 DEF SearchStep
    <3> QED BY <1>1, <3>1 DEF SpentInv
  <2>2. CASE ~(Allowance(r, "search") <= 0)
    <3>1. spent' = [spent EXCEPT ![r]["search"] = @ + 1]
        BY <2>2 DEF SearchStep
    <3>2. Allowance(r, "search") \in Nat
        BY AllowanceFact
    <3>3. 1 <= Allowance(r, "search")
        BY <2>2, <3>2
    <3> QED BY <3>1, <3>3, ChargeFact
  <2> QED BY <2>1, <2>2
<1>8. ShadowTypes'
    BY <1>3, <1>5, <1>6, <1>7 DEF ShadowTypes
<1> QED BY <1>2, <1>4, <1>5, <1>7, <1>8, ShadowStep
\* A fetch step keeps it.
LEMMA FetchStepKeeps ==
    ASSUME RecipeInv, NEW r \in RecipeRuns, FetchStep(r)
    PROVE  RecipeInv'
<1> DEFINE limit == Plan[at[r]]
           allowance == Allowance(r, "fetch")
           allowed == Least({limit, allowance})
           waiting == discovered[r] \ fetched[r]
           size == Cardinality(waiting)
<1>1. /\ ShadowTypes /\ PcTypes /\ SpentInv /\ at \in [RecipeRuns -> Nat \ {0}]
      /\ discovered \in [RecipeRuns -> SUBSET PageUrls]
      /\ spent \in [RecipeRuns -> [search : Nat, fetch : Nat]]
    BY DEF RecipeInv, ShadowTypes
<1>2. /\ rpc[r] = "step" /\ at' = [at EXCEPT ![r] = @ + 1] /\ blamers' = blamers
      /\ discovered' = discovered /\ at[r] \in FetchSteps
    BY DEF FetchStep
<1>3. at' \in [RecipeRuns -> Nat \ {0}]
    BY <1>1, <1>2
<1>4. r \notin cut /\ r \notin blamers'
    BY <1>2, NotYet
<1>5. limit \in Nat /\ limit # 0
  <2>1. at[r] \in DOMAIN Plan /\ limit # 0
      BY <1>2 DEF FetchSteps, SearchSteps
  <2>2. Plan \in Seq(Nat)
      BY PlanAssumption
  <2> QED BY <2>1, <2>2
<1>6. size \in Nat
  <2>1. waiting \subseteq PageUrls /\ IsFiniteSet(PageUrls)
      BY <1>1, PlanAssumption
  <2>2. IsFiniteSet(waiting)
      BY <2>1, FS_Subset
  <2> QED BY <2>2, FS_CardinalityType
<1>7. allowance \in Nat
    BY AllowanceFact
<1>8. allowed = IF limit <= allowance THEN limit ELSE allowance
    BY <1>5, <1>7, LeastFact
<1>9. Least({limit, size}) = IF limit <= size THEN limit ELSE size
  <2> HIDE DEF limit, size
  <2>1. limit \in Int /\ size \in Int
      BY <1>5, <1>6
  <2> QED BY <2>1, LeastFact
<1>10. allowed \in Nat /\ allowed <= allowance
    BY <1>5, <1>7, <1>8
<1>11. Least({allowed, size}) = IF allowed <= size THEN allowed ELSE size
  <2> HIDE DEF allowed, size
  <2>1. allowed \in Int /\ size \in Int
      BY <1>6, <1>10
  <2> QED BY <2>1, LeastFact
<1>12. cut' = IF allowed < Least({limit, size}) THEN cut \cup {r} ELSE cut
    BY DEF FetchStep
<1>13. "budget_limited" \in Outcomes /\ "error" \in Outcomes /\ "passed" \in Outcomes
       /\ "budget_limited" \in Short /\ "error" \in Short
    BY DEF Outcomes, Short
<1> DEFINE Done ==
        /\ PcTypes' /\ Only(r) /\ spent' \in [RecipeRuns -> [search : Nat, fetch : Nat]]
        /\ SpentInv'
        /\ allowed < Least({limit, size}) => rpc'[r] = "gate" /\ outcome'[r] \in Short
<1>14. ASSUME allowed <= 0, Leave(r, "budget_limited"), UNCHANGED spent
       PROVE  Done
    BY <1>1, <1>13, <1>14, LeaveFact DEF SpentInv
<1>15. ASSUME allowed > 0, waiting = {}, Leave(r, "passed"), UNCHANGED spent
       PROVE  Done
  <2>1. size = 0
      BY <1>15, FS_EmptySet
  <2>2. ~(allowed < Least({limit, size}))
      BY <1>5, <1>9, <1>10, <2>1
  <2> QED BY <1>1, <1>13, <1>15, <2>2, LeaveFact DEF SpentInv
<1>16. ASSUME allowed > 0, NEW targets \in SUBSET waiting,
              Cardinality(targets) = Least({allowed, size}),
              spent' = [spent EXCEPT ![r].fetch = @ + Cardinality(targets)],
              FetchedSome(r, limit) \/ Leave(r, "error")
       PROVE  Done
  <2>1. Cardinality(targets) \in Nat /\ Cardinality(targets) <= allowance
      BY <1>6, <1>7, <1>10, <1>11, <1>16
  <2>2. spent' = [spent EXCEPT ![r]["fetch"] = @ + Cardinality(targets)]
      BY <1>16
  <2>3. spent' \in [RecipeRuns -> [search : Nat, fetch : Nat]] /\ SpentInv'
      BY <2>1, <2>2, ChargeFact
  <2>4. CASE Leave(r, "error")
      BY <1>1, <1>13, <2>3, <2>4, LeaveFact
  <2>5. CASE FetchedSome(r, limit) /\ allowance < limit
    <3>1. Leave(r, "budget_limited")
        BY <2>5 DEF FetchedSome
    <3> QED BY <1>1, <1>13, <2>3, <3>1, LeaveFact
  <2>6. CASE FetchedSome(r, limit) /\ ~(allowance < limit)
    <3>1. StayIn(r)
        BY <2>6 DEF FetchedSome
    <3>2. ~(allowed < Least({limit, size}))
        BY <1>5, <1>6, <1>7, <1>8, <1>9, <2>6
    <3> QED BY <1>1, <2>3, <3>1, <3>2, StayFact
  <2> QED BY <1>16, <2>4, <2>5, <2>6
<1>17. Done
  <2>1. \/ allowed <= 0 /\ Leave(r, "budget_limited") /\ UNCHANGED spent
        \/ allowed > 0 /\ waiting = {} /\ Leave(r, "passed") /\ UNCHANGED spent
        \/ /\ allowed > 0
           /\ \E targets \in SUBSET waiting :
                /\ Cardinality(targets) = Least({allowed, size})
                /\ spent' = [spent EXCEPT ![r].fetch = @ + Cardinality(targets)]
                /\ FetchedSome(r, limit) \/ Leave(r, "error")
      BY DEF FetchStep
  <2> QED BY <2>1, <1>14, <1>15, <1>16
<1>18. ShadowTypes'
    BY <1>1, <1>2, <1>3, <1>17 DEF ShadowTypes
<1>19. cut' \in {cut, cut \cup {r}}
       /\ (r \in cut' => rpc'[r] \in {"gate", "report", "end"} /\ outcome'[r] \in Short)
  <2> HIDE DEF allowed, limit, size
  <2> QED BY <1>4, <1>12, <1>17
<1> QED BY <1>2, <1>4, <1>17, <1>18, <1>19, ShadowStep

\* The end of the plan keeps it.
LEMMA PlanDoneKeeps ==
    ASSUME RecipeInv, NEW r \in RecipeRuns, PlanDone(r)
    PROVE  RecipeInv'
<1>1. ShadowTypes /\ PcTypes /\ SpentInv
    BY DEF RecipeInv, ShadowTypes
<1>2. /\ rpc[r] = "step" /\ Leave(r, "passed")
      /\ UNCHANGED <<at, discovered, spent, cut, blamers>>
    BY DEF PlanDone
<1>3. PcTypes' /\ Only(r)
  <2>1. "passed" \in Outcomes
      BY DEF Outcomes
  <2> QED BY <1>1, <1>2, <2>1, LeaveFact
<1>4. ShadowTypes' /\ SpentInv'
    BY <1>1, <1>2, <1>3 DEF ShadowTypes, SpentInv
<1>5. r \notin cut' /\ r \notin blamers'
    BY <1>2, NotYet
<1> QED BY <1>2, <1>3, <1>4, <1>5, ShadowStep

\* The gate keeps it.
LEMMA GateKeeps ==
    ASSUME RecipeInv, NEW r \in RecipeRuns, Gate(r)
    PROVE  RecipeInv'
<1>1. ShadowTypes /\ PcTypes /\ SpentInv /\ CutInv
    BY DEF RecipeInv, ShadowTypes
<1>2. /\ rpc' = [rpc EXCEPT ![r] = "report"] /\ outcome' = [outcome EXCEPT ![r] = Verdict(r)]
      /\ UNCHANGED <<at, discovered, spent, cut>>
    BY DEF Gate
<1>3. blamers' = IF Verdict(r) \in {"drift_detected", "postcondition_failed"}
                 THEN blamers \cup {r} ELSE blamers
    BY DEF Gate
<1>4. outcome[r] \in Outcomes
    BY <1>1 DEF PcTypes
<1>5. Verdict(r) \in Outcomes /\ (outcome[r] \in Short => Verdict(r) = outcome[r])
    BY <1>4 DEF Verdict, Outcomes, Short
<1>6. rpc' \in [RecipeRuns -> {"begin", "step", "gate", "report", "end"}] /\ rpc'[r] = "report"
      /\ \A s \in RecipeRuns \ {r} : rpc'[s] = rpc[s]
    BY <1>1, <1>2 DEF PcTypes
<1>7. outcome' \in [RecipeRuns -> Outcomes] /\ outcome'[r] = Verdict(r)
      /\ \A s \in RecipeRuns \ {r} : outcome'[s] = outcome[s]
    BY <1>1, <1>2, <1>5 DEF PcTypes
<1>8. PcTypes' /\ Only(r)
    BY <1>6, <1>7 DEF PcTypes, Only, Outcomes
<1>9. ShadowTypes' /\ SpentInv'
    BY <1>1, <1>2, <1>8 DEF ShadowTypes, SpentInv
<1>10. r \in cut => outcome[r] \in Short
    BY <1>1 DEF CutInv
<1>11. r \in cut' => rpc'[r] \in {"gate", "report", "end"} /\ outcome'[r] \in Short
    BY <1>2, <1>5, <1>6, <1>7, <1>10
<1>12. r \in blamers' => rpc'[r] \in {"report", "end"} /\ r \notin cut'
  <2>1. r \in blamers => r \notin cut
      BY DEF RecipeInv, BlamedRuns
  <2>2. Verdict(r) \in {"drift_detected", "postcondition_failed"} => r \notin cut
      BY <1>5, <1>10 DEF Short
  <2> QED BY <1>2, <1>3, <1>6, <2>1, <2>2
<1> QED BY <1>2, <1>3, <1>8, <1>9, <1>11, <1>12, ShadowStep

\* The report keeps it.
LEMMA ReportKeeps ==
    ASSUME RecipeInv, NEW r \in RecipeRuns, Report(r)
    PROVE  RecipeInv'
<1>1. ShadowTypes /\ PcTypes /\ SpentInv /\ CutInv
    BY DEF RecipeInv, ShadowTypes
<1>2. /\ rpc' = [rpc EXCEPT ![r] = "end"]
      /\ UNCHANGED <<at, discovered, spent, outcome, cut, blamers>>
    BY DEF Report
<1>3. rpc' \in [RecipeRuns -> {"begin", "step", "gate", "report", "end"}] /\ rpc'[r] = "end"
      /\ \A s \in RecipeRuns \ {r} : rpc'[s] = rpc[s]
    BY <1>1, <1>2 DEF PcTypes
<1>4. PcTypes' /\ Only(r)
    BY <1>1, <1>2, <1>3 DEF PcTypes, Only, Outcomes
<1>5. ShadowTypes' /\ SpentInv'
    BY <1>1, <1>2, <1>4 DEF ShadowTypes, SpentInv
<1>6. r \in cut' => rpc'[r] \in {"gate", "report", "end"} /\ outcome'[r] \in Short
    BY <1>1, <1>2, <1>3 DEF CutInv
<1>7. r \in blamers' => rpc'[r] \in {"report", "end"} /\ r \notin cut'
    BY <1>2, <1>3 DEF RecipeInv, BlamedRuns
<1> QED BY <1>2, <1>4, <1>5, <1>6, <1>7, ShadowStep

\* Every step keeps it.
LEMMA RecipeStep == RecipeInv /\ [RecipeNext]_rvars => RecipeInv'
<1> SUFFICES ASSUME RecipeInv, [RecipeNext]_rvars PROVE RecipeInv'
    OBVIOUS
<1>1. ASSUME NEW r \in RecipeRuns,
             \/ BeginShadow(r) \/ SearchStep(r) \/ FetchStep(r) \/ PlanDone(r) \/ Gate(r) \/ Report(r)
             \/ \E j \in Judges, v \in {"positive", "failure", "other"} : Judge(j, r, v)
      PROVE  RecipeInv'
  <2>1. ASSUME NEW j \in Judges, NEW v \in {"positive", "failure", "other"}, Judge(j, r, v)
        PROVE  RecipeInv'
      BY <2>1, RecipeKept DEF Judge
  <2> QED BY <1>1, <2>1, BeginShadowKeeps, SearchStepKeeps, FetchStepKeeps, PlanDoneKeeps,
             GateKeeps, ReportKeeps
<1>2. CASE DecidePromotion
    BY <1>2, RecipeKept DEF DecidePromotion
<1>3. CASE WritePromotion
    BY <1>3, RecipeKept DEF WritePromotion
<1>4. CASE UNCHANGED rvars
    BY <1>4, RecipeKept DEF rvars
<1> QED BY <1>1, <1>2, <1>3, <1>4 DEF RecipeNext

\* It holds at the start.
LEMMA RecipeBegins == RecipeInit => RecipeInv
<1> SUFFICES ASSUME RecipeInit PROVE RecipeInv
    OBVIOUS
<1>1. PcTypes
    BY DEF RecipeInit, PcTypes, Outcomes
<1>2. ShadowTypes
    BY <1>1 DEF RecipeInit, ShadowTypes
<1>3. SpentInv
    BY PlanAssumption DEF RecipeInit, SpentInv
<1>4. CutInv /\ BlameInv /\ BlamedRuns
    BY DEF RecipeInit, CutInv, BlameInv, BlamedRuns
<1> QED BY <1>2, <1>3, <1>4 DEF RecipeInv

\* Where a recipe's shadow is and what it charged, for any plan, budgets and runs.
THEOREM RecipeInvCorrect == RecipeSpec => []RecipeInv
<1>1. RecipeInv /\ [RecipeNext]_rvars => RecipeInv'
    BY RecipeStep
<1> QED BY <1>1, RecipeBegins, PTL DEF RecipeSpec

\* The shadow stays within what the baseline left and within its own budget, and a
\* version is never quarantined because a budget ran out (retrieval_recipes.py:538).
THEOREM ShadowIsFairCorrect == RecipeSpec => []ShadowIsFair
<1>1. RecipeInv => ShadowIsFair
    BY DEF RecipeInv, SpentInv, BlamedRuns, ShadowIsFair
<1> QED BY <1>1, RecipeInvCorrect, PTL
-----------------------------------------------------------------------------
(* Frontier                                                                 *)

LEMMA KeysFinite == \A K : K \subseteq Keys => IsFiniteSet(K)
<1>1. IsFiniteSet(Templates) /\ IsFiniteSet(EntityQueries) /\ IsFiniteSet(Urls)
    BY FrontierAssumption
<1>2. IsFiniteSet(Templates \cup EntityQueries)
    BY <1>1, FS_Union
<1>3. IsFiniteSet(Keys)
    BY <1>1, <1>2, FS_Union DEF Keys
<1> QED BY <1>3, FS_Subset

\* The best are no more than the limit, and none only if none waits or may be taken.
LEMMA BestFact ==
    ASSUME NEW K, IsFiniteSet(K), NEW limit \in Int, NEW B \in Best(K, limit)
    PROVE  /\ B \subseteq K /\ IsFiniteSet(B) /\ Cardinality(B) \in Nat
           /\ Cardinality(B) <= AtLeastZero(limit)
           /\ B = {} /\ K # {} => limit <= 0
<1>1. B \subseteq K /\ Cardinality(B) = Smaller(Cardinality(K), AtLeastZero(limit))
    BY DEF Best
<1>2. IsFiniteSet(B)
    BY <1>1, FS_Subset
<1>3. Cardinality(B) \in Nat /\ Cardinality(K) \in Nat
    BY <1>2, FS_CardinalityType
<1>4. Cardinality(B) <= AtLeastZero(limit)
    BY <1>1, <1>3 DEF Smaller, AtLeastZero
<1>5. ASSUME B = {}, K # {} PROVE limit <= 0
  <2>1. Cardinality(B) = 0
      BY <1>5, FS_EmptySet
  <2>2. Cardinality(K) # 0
      BY <1>5, FS_EmptySet
  <2> QED BY <1>1, <1>3, <2>1, <2>2 DEF Smaller, AtLeastZero
<1> QED BY <1>1, <1>2, <1>3, <1>4, <1>5

\* What is held back of a limit leaves some of it, if there is any.
LEMMA HeldFact ==
    ASSUME NEW limit \in Nat, NEW hold \in Nat
    PROVE  /\ Held(limit, hold) \in Nat /\ limit - Held(limit, hold) >= 0
           /\ limit - Held(limit, hold) <= 0 => limit = 0
BY DEF Held, Smaller, AtLeastZero

\* What the caps and the use leave is a number.
LEMMA LimitsType ==
    ASSUME ChargeTypes, ChargeBounds
    PROVE  Searches \in Nat /\ Fetches \in Nat
           /\ (Fetches <= Caps.fetch - used.fetch) /\ (Fetches <= Caps.extract - used.extract)
<1>1. /\ Caps.search \in Nat /\ Caps.fetch \in Nat /\ Caps.extract \in Nat /\ KeptSearches \in Nat
      /\ used.search \in Nat /\ used.fetch \in Nat /\ used.extract \in Nat
    BY FrontierAssumption DEF ChargeTypes
<1>2. Searches \in Nat
    BY <1>1 DEF Searches, AtLeastZero
<1>3. Fetches \in Nat /\ (Fetches <= Caps.fetch - used.fetch) /\ (Fetches <= Caps.extract - used.extract)
    BY <1>1 DEF Fetches, Smaller, ChargeBounds
<1> QED BY <1>2, <1>3

\* Of the leads those in K wait on, and some of those that `new` gives to N join them.
Refilled(K, N, new) ==
    /\ LeadTypes' /\ LeadKeys' /\ DOMAIN leads' \subseteq K \cup N
    /\ DOMAIN leads' \cap seen = {} /\ DOMAIN leads' \cap DOMAIN leads \subseteq K
    /\ \A k \in DOMAIN leads' : leads'[k] = IF k \in K THEN leads[k] ELSE new[k]

\* The queue after some of it was taken and others were added.
LEMMA AddedFact ==
    ASSUME LeadTypes, LeadKeys, SeenInv, NEW K, K \subseteq DOMAIN leads, NEW N, N \subseteq Keys,
           NEW old, DOMAIN old = K, \A k \in K : old[k] = leads[k],
           NEW new \in [N -> Leads], leads' = Added(old, new)
    PROVE  Refilled(K, N, new)
<1>1. Admitted(new) \subseteq N /\ Admitted(new) \cap seen = {} /\ Admitted(new) \cap DOMAIN leads = {}
    BY DEF Admitted
<1> PICK D : D = K \cup Admitted(new)
    OBVIOUS
<1>2. leads' = [k \in D |-> IF k \in K THEN leads[k] ELSE new[k]]
    BY DEF Added
<1>3. DOMAIN leads' = D /\ \A k \in D : leads'[k] = IF k \in K THEN leads[k] ELSE new[k]
    BY <1>2
<1>4. \A k \in D : leads'[k] \in Leads
    BY <1>1, <1>3 DEF LeadTypes
<1>5. LeadTypes'
  <2>1. leads' \in [D -> Leads]
      BY <1>2, <1>3, <1>4
  <2> QED BY <1>3, <2>1 DEF LeadTypes, Leads
<1>6. LeadKeys'
    BY <1>1, <1>3 DEF LeadKeys, Keys
<1> QED BY <1>1, <1>3, <1>5, <1>6 DEF SeenInv, Refilled
\* What a lead has.
LEMMA LeadFact ==
    ASSUME NEW kind \in {"query", "url"}, NEW provenance \in Provenances,
           NEW score \in Int, NEW depth \in Int
    PROVE  Lead(kind, provenance, score, depth) \in Leads /\ Lead(kind, provenance, score, depth).kind = kind
BY DEF Lead, Leads

\* A URL has a score.
LEMMA ScoreFact == \A u \in Urls : UrlScore[u] \in Int
BY FrontierAssumption

\* What waits is a lead of its kind.
LEMMA WaitingFact ==
    ASSUME LeadKeys, NEW kind, NEW provenance
    PROVE  /\ IsFiniteSet(Waiting(kind)) /\ Waiting(kind) \subseteq DOMAIN leads
           /\ IsFiniteSet(From(kind, provenance)) /\ From(kind, provenance) \subseteq Waiting(kind)
<1>1. From(kind, provenance) \subseteq Waiting(kind) /\ Waiting(kind) \subseteq DOMAIN leads
    BY DEF From, Waiting
<1>2. From(kind, provenance) \subseteq Keys /\ Waiting(kind) \subseteq Keys
    BY <1>1 DEF LeadKeys
<1> QED BY <1>1, <1>2, KeysFinite

\* The searches of a round keep the frontier invariant.
LEMMA SearchKeeps ==
    ASSUME FrontierInv, Search
    PROVE  FrontierInv'
<1>1. LeadTypes /\ LeadKeys /\ SeenInv /\ ChargeTypes /\ ChargeBounds /\ RoundTypes
    BY DEF FrontierInv
<1>2. PICK entity \in Best(From("query", "entity_query"), Searches) :
        LET hold == IF EntityPossible /\ entity = {} THEN Held(Searches, SearchHold) ELSE 0
        IN \E other \in Best(Waiting("query") \ entity, Searches - Cardinality(entity) - hold),
              found, named \in SUBSET Urls :
              /\ entity = {} => named = {}
              /\ other = {} => found = {}
              /\ found \cap named = {}
              /\ leads' = Added(Without(entity \cup other),
                     [u \in found \cup named |->
                         Lead("url", IF u \in named THEN "entity_serp" ELSE "serp",
                              UrlScore[u], 0)])
              /\ queried' = (entity \cup other # {})
              /\ seen' = Popped(entity \cup other)
              /\ reached' = reached \cup entity \cup other
              /\ used' = [used EXCEPT !.search = @ + Cardinality(entity \cup other)]
    BY DEF Search
<1> PICK hold : hold = IF EntityPossible /\ entity = {} THEN Held(Searches, SearchHold) ELSE 0
    OBVIOUS
<1>3. PICK other \in Best(Waiting("query") \ entity, Searches - Cardinality(entity) - hold),
           found \in SUBSET Urls, named \in SUBSET Urls :
              /\ leads' = Added(Without(entity \cup other),
                     [u \in found \cup named |->
                         Lead("url", IF u \in named THEN "entity_serp" ELSE "serp",
                              UrlScore[u], 0)])
              /\ queried' = (entity \cup other # {})
              /\ seen' = Popped(entity \cup other)
              /\ reached' = reached \cup entity \cup other
              /\ used' = [used EXCEPT !.search = @ + Cardinality(entity \cup other)]
    BY <1>2
<1>4. fpc' = "rescore" /\ rounds' = rounds + 1 /\ possible' = EntityPossible
    BY DEF Search
<1> PICK N : N = found \cup named
    OBVIOUS
<1> PICK K : K = DOMAIN leads \ (entity \cup other)
    OBVIOUS
<1> PICK new : new = [u \in N |-> Lead("url", IF u \in named THEN "entity_serp" ELSE "serp",
                                       UrlScore[u], 0)]
    OBVIOUS
<1>5. Searches \in Nat
    BY <1>1, LimitsType
<1>6. /\ entity \subseteq From("query", "entity_query") /\ Cardinality(entity) \in Nat
      /\ IsFiniteSet(entity)
  <2>1. IsFiniteSet(From("query", "entity_query"))
      BY <1>1, WaitingFact
  <2> QED BY <1>5, <2>1, BestFact
<1>7. hold \in Nat /\ (hold = 0 \/ hold = Held(Searches, SearchHold))
      /\ (Searches - hold <= 0 => Searches = 0)
  <2>1. SearchHold \in Nat
      BY FrontierAssumption
  <2>2. Held(Searches, SearchHold) \in Nat
        /\ (Searches - Held(Searches, SearchHold) <= 0 => Searches = 0)
      BY <1>5, <2>1, HeldFact
  <2> QED BY <1>5, <2>2
<1>8. /\ other \subseteq Waiting("query") /\ IsFiniteSet(other)
      /\ other = {} /\ Waiting("query") \ entity # {} => Searches - Cardinality(entity) - hold <= 0
  <2>1. IsFiniteSet(Waiting("query") \ entity)
      BY <1>1, WaitingFact, FS_Difference
  <2>2. Searches - Cardinality(entity) - hold \in Int
      BY <1>5, <1>6, <1>7
  <2> QED BY <2>1, <2>2, BestFact
<1>9. entity \cup other \subseteq DOMAIN leads
    BY <1>1, <1>6, <1>8, WaitingFact
<1>10. new \in [N -> Leads] /\ \A u \in N : new[u].kind = "url"
  <2> SUFFICES ASSUME NEW u \in N PROVE new[u] \in Leads /\ new[u].kind = "url"
      OBVIOUS
  <2>1. PICK p \in {"entity_serp", "serp"} : new[u] = Lead("url", p, UrlScore[u], 0)
      OBVIOUS
  <2>2. p \in Provenances
      BY DEF Provenances
  <2>3. UrlScore[u] \in Int
      BY ScoreFact
  <2> QED BY <2>1, <2>2, <2>3 DEF Lead, Leads
<1>11. /\ LeadTypes' /\ LeadKeys' /\ DOMAIN leads' \subseteq K \cup N
       /\ DOMAIN leads' \cap seen = {} /\ DOMAIN leads' \cap DOMAIN leads \subseteq K
       /\ \A k \in DOMAIN leads' : leads'[k] = IF k \in K THEN leads[k] ELSE new[k]
  <2> PICK old : old = [k \in K |-> leads[k]]
      OBVIOUS
  <2>1. leads' = Added(old, new)
      BY <1>3 DEF Without
  <2>2. N \subseteq Keys /\ K \subseteq DOMAIN leads
      BY DEF Keys
  <2>3. DOMAIN old = K /\ \A k \in K : old[k] = leads[k]
      OBVIOUS
  <2>4. LeadTypes /\ LeadKeys /\ SeenInv /\ new \in [N -> Leads]
      BY <1>1, <1>10
  <2>5. Refilled(K, N, new)
      BY <2>1, <2>2, <2>3, <2>4, AddedFact
  <2> QED BY <2>5 DEF Refilled
<1>12. SeenInv'
    BY <1>1, <1>3, <1>9, <1>11 DEF SeenInv, Popped
<1>13. Cardinality(entity \cup other) \in Nat
    BY <1>6, <1>8, FS_Union, FS_CardinalityType
<1>14. ChargeTypes' /\ ChargeBounds' /\ used'.search = used.search + Cardinality(entity \cup other)
  <2>1. used.search \in Nat /\ used.search + Cardinality(entity \cup other) \in Nat
      BY <1>1, <1>13 DEF ChargeTypes
  <2>2. used' = [used EXCEPT !.search = used.search + Cardinality(entity \cup other)]
      BY <1>3
  <2>3. ChargeTypes'
      BY <1>1, <2>1, <2>2 DEF ChargeTypes
  <2>4. /\ used'.search = used.search + Cardinality(entity \cup other)
        /\ used'.fetch = used.fetch /\ used'.extract = used.extract
      BY <1>1, <2>2 DEF ChargeTypes
  <2> QED BY <1>1, <2>3, <2>4 DEF ChargeBounds
<1>15. RoundTypes'
  <2>1. queried' \in BOOLEAN
      BY <1>3
  <2>2. possible' \in BOOLEAN
      BY <1>4 DEF EntityPossible
  <2>3. rounds' \in Nat
      BY <1>1, <1>4 DEF RoundTypes
  <2> QED BY <1>4, <2>1, <2>2, <2>3 DEF RoundTypes
<1>16. IdleInv'
  <2> SUFFICES ASSUME ~queried', Waiting("query")' # {} PROVE Searches' = 0
      BY DEF IdleInv
  <2>1. entity = {} /\ other = {}
      BY <1>3
  <2>2. Waiting("query")' \subseteq Waiting("query")
      BY <1>10, <1>11 DEF Waiting
  <2>3. Cardinality(entity) = 0 /\ Cardinality(entity \cup other) = 0
      BY <2>1, FS_EmptySet
  <2>4. Searches - Cardinality(entity) - hold <= 0
      BY <1>8, <2>1, <2>2
  <2>5. Searches = 0
      BY <1>5, <1>7, <2>3, <2>4
  <2>6. used'.search = used.search
      BY <1>1, <1>14, <2>3 DEF ChargeTypes
  <2> QED BY <2>5, <2>6 DEF Searches
<1>17. SpentOrDone'
    BY <1>4 DEF SpentOrDone
<1> QED BY <1>11, <1>12, <1>14, <1>15, <1>16, <1>17 DEF FrontierInv
\* Rescoring keeps it.
LEMMA RescoreKeeps ==
    ASSUME FrontierInv, Rescore
    PROVE  FrontierInv'
<1>1. LeadTypes /\ LeadKeys /\ SeenInv /\ ChargeTypes /\ ChargeBounds /\ RoundTypes /\ IdleInv
    BY DEF FrontierInv
<1>2. PICK delta \in [Waiting("url") -> {-1, 0, 1}] :
         leads' = [k \in DOMAIN leads |->
             IF k \in Waiting("url")
             THEN [leads[k] EXCEPT !.score = AtLeastZero(Smaller(MaxScore, @ + delta[k]))]
             ELSE leads[k]]
    BY DEF Rescore
<1>3. /\ fpc = "rescore" /\ fpc' = "fetch"
      /\ UNCHANGED <<seen, rounds, possible, queried, pages, used, expired, reached>>
    BY DEF Rescore
<1>4. DOMAIN leads' = DOMAIN leads
    BY <1>2
<1>5. ASSUME NEW k \in DOMAIN leads PROVE leads'[k] \in Leads /\ leads'[k].kind = leads[k].kind
  <2>1. leads[k] \in Leads
      BY <1>1 DEF LeadTypes
  <2>2. CASE k \in Waiting("url")
    <3> PICK s : s = AtLeastZero(Smaller(MaxScore, leads[k].score + delta[k]))
        OBVIOUS
    <3>1. delta[k] \in Int /\ leads[k].score \in Int /\ MaxScore \in Int
        BY <2>1, <2>2, FrontierAssumption DEF Leads
    <3>2. s \in Int
        BY <3>1 DEF AtLeastZero, Smaller
    <3>3. leads'[k] = [leads[k] EXCEPT !.score = s]
        BY <1>2, <2>2
    <3> QED BY <2>1, <3>2, <3>3 DEF Leads
  <2>3. CASE k \notin Waiting("url")
      BY <1>2, <2>1, <2>3
  <2> QED BY <2>2, <2>3
<1>6. LeadTypes'
  <2>1. leads' \in [DOMAIN leads -> Leads]
    <3> PICK f : f = leads'
        OBVIOUS
    <3>1. f = [k \in DOMAIN leads |-> f[k]]
        BY <1>2
    <3>2. \A k \in DOMAIN leads : f[k] \in Leads
        BY <1>5
    <3>3. f \in [DOMAIN leads -> Leads]
        BY <3>1, <3>2
    <3> QED BY <3>3
  <2> QED BY <1>4, <2>1 DEF LeadTypes, Leads, Provenances
<1>7. LeadKeys' /\ SeenInv'
    BY <1>1, <1>3, <1>4 DEF LeadKeys, Keys, SeenInv
<1>8. ChargeTypes' /\ ChargeBounds' /\ RoundTypes'
    BY <1>1, <1>3 DEF ChargeTypes, ChargeBounds, RoundTypes
<1>9. IdleInv'
  <2>1. Waiting("query")' = Waiting("query")
      BY <1>4, <1>5 DEF Waiting
  <2>2. Searches' = Searches
      BY <1>3 DEF Searches
  <2> QED BY <1>1, <1>3, <2>1, <2>2 DEF IdleInv
<1>10. SpentOrDone'
    BY <1>3 DEF SpentOrDone
<1> QED BY <1>6, <1>7, <1>8, <1>9, <1>10 DEF FrontierInv

\* The fetches of a round keep it.
LEMMA FetchKeeps ==
    ASSUME FrontierInv, Fetch
    PROVE  FrontierInv'
<1>1. LeadTypes /\ LeadKeys /\ SeenInv /\ ChargeTypes /\ ChargeBounds /\ RoundTypes /\ IdleInv
    BY DEF FrontierInv
<1>2. PICK entity \in Best(From("url", "entity_serp"), Fetches) :
         LET hold == IF possible /\ entity = {} THEN Held(Fetches, FetchHold) ELSE 0
         IN \E other \in Best(Waiting("url") \ entity, Fetches - Cardinality(entity) - hold) :
              LET urls == entity \cup other IN
              /\ leads' = Without(urls) /\ seen' = Popped(urls)
              /\ reached' = reached \cup urls
              /\ \E paid \in 0..Smaller(2 * Cardinality(urls), Caps.fetch - used.fetch),
                    read \in SUBSET urls :
                    /\ used' = [used EXCEPT !.fetch = @ + paid,
                                            !.extract = @ + Cardinality(read)]
                    /\ pages' = read
              /\ fpc' = IF urls # {} THEN "read" ELSE IF queried THEN "search" ELSE "stop"
    BY DEF Fetch
<1> PICK hold : hold = IF possible /\ entity = {} THEN Held(Fetches, FetchHold) ELSE 0
    OBVIOUS
<1>3. PICK other \in Best(Waiting("url") \ entity, Fetches - Cardinality(entity) - hold) :
         LET urls == entity \cup other IN
              /\ leads' = Without(urls) /\ seen' = Popped(urls)
              /\ reached' = reached \cup urls
              /\ \E paid \in 0..Smaller(2 * Cardinality(urls), Caps.fetch - used.fetch),
                    read \in SUBSET urls :
                    /\ used' = [used EXCEPT !.fetch = @ + paid,
                                            !.extract = @ + Cardinality(read)]
                    /\ pages' = read
              /\ fpc' = IF urls # {} THEN "read" ELSE IF queried THEN "search" ELSE "stop"
    BY <1>2
<1> PICK urls : urls = entity \cup other
    OBVIOUS
<1>4. /\ leads' = Without(urls) /\ seen' = Popped(urls) /\ reached' = reached \cup urls
      /\ fpc' = IF urls # {} THEN "read" ELSE IF queried THEN "search" ELSE "stop"
    BY <1>3
<1>5. PICK paid \in 0..Smaller(2 * Cardinality(urls), Caps.fetch - used.fetch),
            read \in SUBSET urls :
         used' = [used EXCEPT !.fetch = @ + paid, !.extract = @ + Cardinality(read)]
    BY <1>3
<1>6. fpc = "fetch" /\ UNCHANGED <<rounds, possible, queried, expired>>
    BY DEF Fetch
<1>7. /\ Fetches \in Nat /\ (Fetches <= Caps.fetch - used.fetch)
      /\ Fetches <= Caps.extract - used.extract
    BY <1>1, LimitsType
<1>8. /\ entity \subseteq From("url", "entity_serp") /\ Cardinality(entity) \in Nat
      /\ IsFiniteSet(entity) /\ Cardinality(entity) <= Fetches
  <2>1. IsFiniteSet(From("url", "entity_serp"))
      BY <1>1, WaitingFact
  <2>2. Cardinality(entity) <= AtLeastZero(Fetches)
      BY <1>7, <2>1, BestFact
  <2>3. AtLeastZero(Fetches) = Fetches
      BY <1>7 DEF AtLeastZero
  <2> QED BY <1>7, <2>1, <2>2, <2>3, BestFact
<1>9. hold \in Nat /\ (Fetches - hold <= 0 => Fetches = 0)
  <2>1. FetchHold \in Nat
      BY FrontierAssumption
  <2>2. Held(Fetches, FetchHold) \in Nat
        /\ (Fetches - Held(Fetches, FetchHold) <= 0 => Fetches = 0)
      BY <1>7, <2>1, HeldFact
  <2> QED BY <1>7, <2>2
<1>10. /\ other \subseteq Waiting("url") /\ IsFiniteSet(other) /\ Cardinality(other) \in Nat
       /\ other = {} /\ Waiting("url") \ entity # {} => Fetches - Cardinality(entity) - hold <= 0
       /\ Cardinality(entity) + Cardinality(other) <= Fetches
  <2>1. IsFiniteSet(Waiting("url") \ entity)
      BY <1>1, WaitingFact, FS_Difference
  <2>2. Fetches - Cardinality(entity) - hold \in Int
      BY <1>7, <1>8, <1>9
  <2>3. /\ other \subseteq Waiting("url") \ entity /\ IsFiniteSet(other) /\ Cardinality(other) \in Nat
        /\ Cardinality(other) <= AtLeastZero(Fetches - Cardinality(entity) - hold)
        /\ other = {} /\ Waiting("url") \ entity # {} => Fetches - Cardinality(entity) - hold <= 0
      BY <2>1, <2>2, BestFact
  <2>4. Cardinality(entity) + Cardinality(other) <= Fetches
      BY <1>7, <1>8, <1>9, <2>3 DEF AtLeastZero
  <2> QED BY <2>3, <2>4
<1>11. urls \subseteq DOMAIN leads
  <2>1. Waiting("url") \subseteq DOMAIN leads /\ From("url", "entity_serp") \subseteq Waiting("url")
      BY <1>1, WaitingFact
  <2> QED BY <1>8, <1>10, <2>1
<1>12. IsFiniteSet(urls) /\ Cardinality(urls) \in Nat /\ Cardinality(urls) <= Fetches
  <2>1. IsFiniteSet(entity \cap other)
      BY <1>8, FS_Intersection
  <2>3. IsFiniteSet(urls)
        /\ Cardinality(urls) = Cardinality(entity) + Cardinality(other) - Cardinality(entity \cap other)
    <3>1. IsFiniteSet(entity \cup other) /\ Cardinality(entity \cup other) =
            Cardinality(entity) + Cardinality(other) - Cardinality(entity \cap other)
        BY <1>8, <1>10, FS_Union
    <3> QED BY <3>1
  <2>2. Cardinality(urls) \in Nat /\ Cardinality(entity \cap other) \in Nat
      BY <2>1, <2>3, FS_CardinalityType
  <2> QED BY <1>7, <1>8, <1>10, <2>2, <2>3
<1>13. IsFiniteSet(read) /\ Cardinality(read) \in Nat /\ Cardinality(read) <= Fetches
  <2>1. IsFiniteSet(read) /\ Cardinality(read) <= Cardinality(urls)
      BY <1>12, FS_Subset
  <2>2. Cardinality(read) \in Nat
      BY <2>1, FS_CardinalityType
  <2> QED BY <1>7, <1>12, <2>1, <2>2
<1>14. used \in [search : Nat, fetch : Nat, extract : Nat]
    BY <1>1 DEF ChargeTypes
<1>15. paid \in Nat /\ paid <= Caps.fetch - used.fetch
  <2>1. Smaller(2 * Cardinality(urls), Caps.fetch - used.fetch) \in Int
        /\ Smaller(2 * Cardinality(urls), Caps.fetch - used.fetch) <= Caps.fetch - used.fetch
      BY <1>12, <1>14, FrontierAssumption DEF Smaller
  <2>2. Caps.fetch - used.fetch \in Int
      BY <1>14, FrontierAssumption
  <2> HIDE DEF Smaller
  <2> QED BY <2>1, <2>2
<1>16. ChargeTypes' /\ ChargeBounds'
  <2>1. used.fetch + paid \in Nat /\ used.fetch + paid <= Caps.fetch
      BY <1>14, <1>15, FrontierAssumption
  <2>2. used.extract + Cardinality(read) \in Nat /\ used.extract + Cardinality(read) <= Caps.extract
      BY <1>7, <1>13, <1>14, FrontierAssumption
  <2>3. used' = [used EXCEPT !.fetch = used.fetch + paid, !.extract = used.extract + Cardinality(read)]
      BY <1>5
  <2>4. ChargeTypes'
      BY <1>14, <2>1, <2>2, <2>3 DEF ChargeTypes
  <2>5. /\ used'.fetch = used.fetch + paid /\ used'.extract = used.extract + Cardinality(read)
      BY <1>14, <2>3
  <2> QED BY <2>1, <2>2, <2>4, <2>5 DEF ChargeBounds
<1>17. leads' = [k \in DOMAIN leads \ urls |-> leads[k]]
    BY <1>4 DEF Without
<1>18. LeadTypes' /\ LeadKeys' /\ SeenInv'
  <2>1. DOMAIN leads' = DOMAIN leads \ urls /\ \A k \in DOMAIN leads \ urls : leads'[k] = leads[k]
      BY <1>17
  <2>2. leads' \in [DOMAIN leads \ urls -> Leads]
      BY <1>1, <1>17 DEF LeadTypes
  <2>3. LeadTypes'
      BY <2>1, <2>2 DEF LeadTypes, Leads, Provenances
  <2>4. LeadKeys'
      BY <1>1, <2>1 DEF LeadKeys, Keys
  <2>5. SeenInv'
      BY <1>1, <1>4, <2>1 DEF SeenInv, Popped
  <2> QED BY <2>3, <2>4, <2>5
<1>19. fpc' \in {"read", "search", "stop"} /\ (fpc' = "stop" => urls = {} /\ ~queried)
    BY <1>4
<1>20. RoundTypes' /\ IdleInv'
    BY <1>1, <1>6, <1>19 DEF RoundTypes, IdleInv
<1>21. SpentOrDone'
  <2> SUFFICES ASSUME fpc' = "stop"
               PROVE  /\ Waiting("query")' # {} => Searches' = 0
                      /\ Waiting("url")' # {} => Fetches' = 0
      BY DEF SpentOrDone
  <2>1. urls = {} /\ entity = {} /\ other = {} /\ read = {} /\ ~queried
      BY <1>19
  <2>2. Cardinality(urls) = 0 /\ Cardinality(read) = 0 /\ Cardinality(entity) = 0
      BY <2>1, FS_EmptySet
  <2>3. leads' = leads
      BY <1>1, <1>17, <2>1 DEF LeadTypes
  <2>4. paid = 0
    <3>1. paid <= Smaller(0, Caps.fetch - used.fetch)
        BY <1>4, <1>14, <2>2, FrontierAssumption DEF Smaller
    <3> QED BY <1>14, <1>15, <3>1, FrontierAssumption DEF Smaller
  <2>5. used' = used
    <3>1. used.fetch + paid = used.fetch /\ used.extract + Cardinality(read) = used.extract
        BY <1>14, <2>2, <2>4
    <3>2. used' = [used EXCEPT !.fetch = used.fetch + paid,
                               !.extract = used.extract + Cardinality(read)]
        BY <1>5
    <3>3. used' = [used EXCEPT !.fetch = used.fetch, !.extract = used.extract]
        BY <3>1, <3>2
    <3> QED BY <1>14, <3>3
  <2>6. Waiting("query")' = Waiting("query") /\ Waiting("url")' = Waiting("url")
      BY <2>3 DEF Waiting
  <2>7. Searches' = Searches /\ Fetches' = Fetches
      BY <2>5 DEF Searches, Fetches
  <2>8. Waiting("url") # {} => Fetches = 0
    <3>1. Waiting("url") # {} => Waiting("url") \ entity # {}
        BY <2>1
    <3>2. Waiting("url") # {} => Fetches - Cardinality(entity) - hold <= 0
        BY <1>10, <2>1, <3>1
    <3> QED BY <1>7, <1>9, <2>2, <3>2
  <2>9. Waiting("query") # {} => Searches = 0
      BY <1>1, <1>6, <2>1 DEF IdleInv
  <2> QED BY <2>6, <2>7, <2>8, <2>9
<1> QED BY <1>16, <1>18, <1>20, <1>21 DEF FrontierInv
\* A new lead that a key in N gets, when the queue keeps those in K and more keys are seen.
LEMMA RefillKeeps ==
    ASSUME FrontierInv, NEW K, K \subseteq DOMAIN leads, NEW N, N \subseteq Keys, NEW gone,
           gone \cap (K \cup N) = {}, NEW new \in [N -> Leads],
           leads' = Added([k \in K |-> leads[k]], new),
           seen' = seen \cup gone, reached' = reached \cup gone,
           fpc' \in {"read", "search"}, UNCHANGED <<rounds, possible, queried, used, expired>>
    PROVE  FrontierInv'
<1>1. LeadTypes /\ LeadKeys /\ SeenInv /\ ChargeTypes /\ ChargeBounds /\ RoundTypes
    BY DEF FrontierInv
<1> PICK old : old = [k \in K |-> leads[k]]
    OBVIOUS
<1>2. leads' = Added(old, new) /\ DOMAIN old = K /\ \A k \in K : old[k] = leads[k]
    OBVIOUS
<1>3. Refilled(K, N, new)
    BY <1>1, <1>2, AddedFact
<1>4. /\ LeadTypes' /\ LeadKeys' /\ DOMAIN leads' \subseteq K \cup N /\ DOMAIN leads' \cap seen = {}
    BY <1>3 DEF Refilled
<1>5. SeenInv'
    BY <1>1, <1>4 DEF SeenInv
<1>6. ChargeTypes' /\ ChargeBounds' /\ RoundTypes'
    BY <1>1 DEF ChargeTypes, ChargeBounds, RoundTypes
<1>7. IdleInv' /\ SpentOrDone'
    BY DEF IdleInv, SpentOrDone
<1> QED BY <1>4, <1>5, <1>6, <1>7 DEF FrontierInv

\* Reading the pages keeps it.
LEMMA ReadKeeps ==
    ASSUME FrontierInv, NEW p \in Urls, Read(p)
    PROVE  FrontierInv'
<1>1. PICK final \in Urls, links \in SUBSET Urls :
         LET rest == [k \in DOMAIN leads \ {final} |-> leads[k]]
             new == [u \in links \ ({final} \cup seen) |->
                        Lead("url", "link", UrlScore[u] - 1, 1)]
         IN /\ leads' = Added(rest, new)
            /\ seen' = seen \cup {final} /\ reached' = reached \cup {final}
    BY DEF Read
<1>2. fpc' = "read" /\ UNCHANGED <<rounds, possible, queried, used, expired>>
    BY DEF Read
<1> PICK K : K = DOMAIN leads \ {final}
    OBVIOUS
<1> PICK N : N = links \ ({final} \cup seen)
    OBVIOUS
<1> PICK new : new = [u \in N |-> Lead("url", "link", UrlScore[u] - 1, 1)]
    OBVIOUS
<1>3. new \in [N -> Leads]
  <2> SUFFICES ASSUME NEW u \in N PROVE new[u] \in Leads
      OBVIOUS
  <2>1. UrlScore[u] - 1 \in Int
      BY ScoreFact
  <2>2. "link" \in Provenances
      BY DEF Provenances
  <2> QED BY <2>1, <2>2 DEF Lead, Leads
<1>4. K \subseteq DOMAIN leads /\ N \subseteq Keys /\ {final} \cap (K \cup N) = {}
    BY DEF Keys
<1>5. leads' = Added([k \in K |-> leads[k]], new)
    BY <1>1
<1>6. seen' = seen \cup {final} /\ reached' = reached \cup {final}
    BY <1>1
<1> QED BY <1>2, <1>3, <1>4, <1>5, <1>6, RefillKeeps

\* Adding the entities that were found keeps it.
LEMMA EntitiesKeeps ==
    ASSUME FrontierInv, Entities
    PROVE  FrontierInv'
<1>1. PICK named \in SUBSET EntityQueries :
         leads' = Added(leads, [q \in named |-> Lead("query", "entity_query", 2, 1)])
    BY DEF Entities
<1>2. /\ fpc' = "search"
      /\ UNCHANGED <<seen, rounds, possible, queried, pages, used, expired, reached>>
    BY DEF Entities
<1> PICK K : K = DOMAIN leads
    OBVIOUS
<1> PICK new : new = [q \in named |-> Lead("query", "entity_query", 2, 1)]
    OBVIOUS
<1>3. new \in [named -> Leads]
  <2>1. "entity_query" \in Provenances
      BY DEF Provenances
  <2> QED BY <2>1 DEF Lead, Leads
<1>4. K \subseteq DOMAIN leads /\ named \subseteq Keys /\ {} \cap (K \cup named) = {}
    BY DEF Keys
<1>5. leads' = Added([k \in K |-> leads[k]], new)
  <2>1. leads = [k \in K |-> leads[k]]
      BY DEF FrontierInv, LeadTypes
  <2> QED BY <1>1, <2>1
<1>6. seen' = seen \cup {} /\ reached' = reached \cup {}
    BY <1>2
<1> QED BY <1>2, <1>3, <1>4, <1>5, <1>6, RefillKeeps

\* Every step keeps it.
LEMMA FrontierStep == FrontierInv /\ [FrontierNext]_fvars => FrontierInv'
<1> SUFFICES ASSUME FrontierInv, [FrontierNext]_fvars PROVE FrontierInv'
    OBVIOUS
<1>1. LeadTypes /\ LeadKeys /\ SeenInv /\ ChargeTypes /\ ChargeBounds /\ RoundTypes /\ IdleInv
      /\ SpentOrDone
    BY DEF FrontierInv
<1>2. ASSUME UNCHANGED <<leads, seen, rounds, possible, queried, used, reached>>,
             fpc' \in {fpc, "stop"}
      PROVE  LeadTypes' /\ LeadKeys' /\ SeenInv' /\ ChargeTypes' /\ ChargeBounds' /\ RoundTypes'
             /\ IdleInv'
  <2>1. LeadTypes' /\ LeadKeys' /\ SeenInv'
      BY <1>1, <1>2 DEF LeadTypes, Leads, Provenances, LeadKeys, Keys, SeenInv
  <2>2. ChargeTypes' /\ ChargeBounds' /\ RoundTypes'
      BY <1>1, <1>2 DEF ChargeTypes, ChargeBounds, RoundTypes
  <2>3. Waiting("query")' = Waiting("query") /\ Searches' = Searches
      BY <1>2 DEF Waiting, Searches
  <2>4. IdleInv'
      BY <1>1, <1>2, <2>3 DEF IdleInv
  <2> QED BY <2>1, <2>2, <2>4
<1>3. CASE EndRounds
  <2>1. /\ fpc' = "stop" /\ (rounds = MaxRounds \/ expired)
        /\ UNCHANGED <<leads, seen, rounds, possible, queried, used, expired, reached>>
      BY <1>3 DEF EndRounds
  <2>2. SpentOrDone'
      BY <2>1, FrontierAssumption DEF SpentOrDone
  <2> QED BY <1>2, <2>1, <2>2 DEF FrontierInv
<1>4. CASE RunLate
  <2>1. /\ fpc' = fpc /\ expired'
        /\ UNCHANGED <<leads, seen, rounds, possible, queried, used, reached>>
      BY <1>4 DEF RunLate
  <2>2. SpentOrDone'
      BY <2>1 DEF SpentOrDone
  <2> QED BY <1>2, <2>1, <2>2 DEF FrontierInv
<1>5. CASE UNCHANGED fvars
  <2>1. /\ fpc' = fpc
        /\ UNCHANGED <<leads, seen, rounds, possible, queried, used, expired, reached>>
      BY <1>5 DEF fvars
  <2>2. SpentOrDone'
      BY <1>1, <2>1 DEF SpentOrDone, Waiting, Searches, Fetches
  <2> QED BY <1>2, <2>1, <2>2 DEF FrontierInv
<1>6. ASSUME NEW p \in Urls, Read(p) PROVE FrontierInv'
    BY <1>6, ReadKeeps
<1> QED BY <1>3, <1>4, <1>5, <1>6, SearchKeeps, RescoreKeeps, FetchKeeps, EntitiesKeeps
        DEF FrontierNext

\* It holds at the start.
LEMMA FrontierBegins == FrontierInit => FrontierInv
<1> SUFFICES ASSUME FrontierInit PROVE FrontierInv
    OBVIOUS
<1>1. /\ leads = [q \in Templates |-> Lead("query", "template", Smaller(2, MaxScore), 0)]
      /\ seen = {} /\ fpc = "search" /\ rounds = 0 /\ possible = FALSE /\ queried = FALSE
      /\ used = [search |-> 0, fetch |-> 0, extract |-> 0] /\ reached = {}
    BY DEF FrontierInit
<1> PICK s : s = Smaller(2, MaxScore)
    OBVIOUS
<1>2. s \in Int
    BY FrontierAssumption DEF Smaller
<1>3. leads = [q \in Templates |-> Lead("query", "template", s, 0)]
    BY <1>1
<1>4. DOMAIN leads = Templates
    BY <1>3
<1>5. leads \in [Templates -> Leads]
  <2>1. "template" \in Provenances
      BY DEF Provenances
  <2> QED BY <1>2, <1>3, <2>1 DEF Lead, Leads
<1>6. LeadTypes /\ LeadKeys /\ SeenInv
    BY <1>1, <1>4, <1>5 DEF LeadTypes, LeadKeys, Keys, SeenInv
<1>7. ChargeTypes /\ ChargeBounds /\ RoundTypes
  <2>1. ChargeTypes
      BY <1>1 DEF ChargeTypes
  <2>2. used.fetch = 0 /\ used.extract = 0 /\ Caps.fetch \in Nat /\ Caps.extract \in Nat
      BY <1>1, FrontierAssumption
  <2>3. ChargeBounds
      BY <2>2 DEF ChargeBounds
  <2>4. RoundTypes
      BY <1>1 DEF RoundTypes
  <2> QED BY <2>1, <2>3, <2>4
<1>8. IdleInv /\ SpentOrDone
    BY <1>1 DEF IdleInv, SpentOrDone
<1> QED BY <1>6, <1>7, <1>8 DEF FrontierInv

\* The frontier's invariant holds, for any keys, scores, caps and reserves.
THEOREM FrontierInvCorrect == FrontierSpec => []FrontierInv
<1>1. FrontierInv /\ [FrontierNext]_fvars => FrontierInv'
    BY FrontierStep
<1> QED BY <1>1, FrontierBegins, PTL DEF FrontierSpec

\* What was popped, or was the end of a redirect, never waits again, whoever names
\* it (frontier.py:239).
THEOREM NothingTwiceCorrect == FrontierSpec => []NothingTwice
<1>1. FrontierInv => NothingTwice
    BY DEF FrontierInv, SeenInv, NothingTwice
<1> QED BY <1>1, FrontierInvCorrect, PTL

\* A gather that is not over time or out of rounds leaves only what it cannot pay
\* for: what is held back for entity queries is used in the end (controller.py:1034).
THEOREM SpentOrDoneCorrect == FrontierSpec => []SpentOrDone
<1>1. FrontierInv => SpentOrDone
    BY DEF FrontierInv
<1> QED BY <1>1, FrontierInvCorrect, PTL

(***************************************************************************)
(* Induction over sets, and the sums of FiniteSets and Functions.           *)
(***************************************************************************)

\* Every nonempty set of naturals has a least element
LEMMA LeastNat ==
    ASSUME NEW T, T \subseteq Nat, T # {}
    PROVE  \E x \in T : \A y \in T : x <= y
<1> DEFINE R == {ss \in Nat \X Nat : ss[1] < ss[2]}
<1>1. IsWellFoundedOn(R, Nat)
  BY NatLessThanWellFounded DEF OpToRel
<1>2. \E x \in T : \A y \in T : ~ (<<y, x>> \in R)
  <2> HIDE DEF R
  <2> QED BY <1>1, WFMin
<1>3. \A x, y \in Nat : y < x => <<y,x>> \in R
  OBVIOUS
<1>4. PICK x \in T : \A y \in T : ~ (<<y, x>> \in R)
  BY <1>2
<1>5. \A y \in T : ~ (y < x)
  BY <1>3, <1>4
<1> QED BY <1>5

Some(S) == CHOOSE x \in S : TRUE

\* What holds of {}, and of a set when it holds of the set without one element, holds of all finite sets.
LEMMA SubsetInduction ==
    ASSUME NEW D, IsFiniteSet(D), NEW P, {} \in P,
           \A s \in SUBSET D : s # {} /\ s \ {Some(s)} \in P => s \in P
    PROVE  SUBSET D \subseteq P
<1> SUFFICES ASSUME NEW b \in SUBSET D, b \notin P PROVE FALSE
    OBVIOUS
<1> DEFINE T == {Cardinality(s) : s \in (SUBSET D) \ P}
<1>1. \A s \in SUBSET D : IsFiniteSet(s) /\ Cardinality(s) \in Nat
    BY FS_Subset, FS_CardinalityType
<1>2. T \subseteq Nat /\ T # {}
    BY <1>1
<1>3. PICK m \in T : \A n \in T : m <= n
  <2> HIDE DEF T
  <2> QED BY <1>2, LeastNat
<1>4. PICK s \in (SUBSET D) \ P : m = Cardinality(s)
    BY <1>3
<1>5. s # {} /\ Some(s) \in s
    BY <1>4 DEF Some
<1>6. s \ {Some(s)} \in SUBSET D /\ Cardinality(s \ {Some(s)}) = m - 1
    BY <1>1, <1>4, <1>5, FS_RemoveElement
<1>7. s \ {Some(s)} \in P
    BY <1>1, <1>3, <1>4, <1>6
<1> QED BY <1>4, <1>5, <1>7

IsTable(it, f) ==
    it = [s \in SUBSET DOMAIN f |-> IF s = {} THEN 0 ELSE f[Some(s)] + it[s \ {Some(s)}]]

\* A sum, by its recursive definition.
LEMMA SumUnfold == \A f : SumFunction(f) = (CHOOSE it : IsTable(it, f))[DOMAIN f]
  BY DEF SumFunction, SumFunctionOnSet, FoldFunctionOnSet, MapThenFoldSet, IsTable, Some

\* Induction over the naturals, with a set for the predicate.
LEMMA NatSetInduction ==
    ASSUME NEW P, 0 \in P, \A n \in Nat : n \in P => n + 1 \in P
    PROVE  Nat \subseteq P
<1> SUFFICES ASSUME Nat \ P # {} PROVE FALSE
    OBVIOUS
<1>1. PICK m \in Nat \ P : \A n \in Nat \ P : m <= n
  <2>1. Nat \ P \subseteq Nat
      OBVIOUS
  <2> QED BY <2>1, LeastNat
<1>2. m # 0 /\ m - 1 \in Nat /\ m - 1 \in P /\ (m - 1) + 1 = m
    BY <1>1
<1> QED BY <1>1, <1>2

\* The recursive definition of a sum has a solution: by induction on the size of the sets.
LEMMA TableExists ==
    ASSUME NEW f, IsFiniteSet(DOMAIN f)
    PROVE  \E it : IsTable(it, f)
<1> DEFINE D == DOMAIN f
           Small(n) == {s \in SUBSET D : Cardinality(s) <= n}
           Step(it, s) == IF s = {} THEN 0 ELSE f[Some(s)] + it[s \ {Some(s)}]
           P == {n \in Nat : \E it : it = [s \in Small(n) |-> Step(it, s)]}
<1>1. \A s \in SUBSET D : IsFiniteSet(s) /\ Cardinality(s) \in Nat
    BY FS_Subset, FS_CardinalityType
<1>2. \A s \in SUBSET D : Cardinality(s) = 0 <=> s = {}
    BY <1>1, FS_EmptySet
<1>3. \A s \in SUBSET D : s # {} =>
         s \ {Some(s)} \in SUBSET D /\ Cardinality(s \ {Some(s)}) = Cardinality(s) - 1
    BY <1>1, FS_RemoveElement DEF Some
<1>4. 0 \in P
  <2>1. Small(0) = {{}}
      BY <1>1, <1>2
  <2>2. PICK it : it = [s \in Small(0) |-> 0]
      OBVIOUS
  <2>3. \A s \in Small(0) : Step(it, s) = 0
      BY <2>1
  <2> HIDE DEF Small, Step
  <2>4. it = [s \in Small(0) |-> Step(it, s)]
      BY <2>2, <2>3
  <2> QED BY <2>4
<1>5. \A n \in Nat : n \in P => n + 1 \in P
  <2> SUFFICES ASSUME NEW n \in Nat, n \in P PROVE n + 1 \in P
      OBVIOUS
  <2>1. PICK old : old = [s \in Small(n) |-> Step(old, s)]
      OBVIOUS
  <2>2. PICK it : it = [s \in Small(n + 1) |-> Step(old, s)]
      OBVIOUS
  <2>3. \A s \in Small(n + 1) : s # {} => s \ {Some(s)} \in Small(n)
      BY <1>1, <1>3
  <2>4. Small(n) \subseteq Small(n + 1)
      BY <1>1
  <2>5. \A s \in Small(n) : it[s] = old[s]
    <3> HIDE DEF Small, Step
    <3> QED BY <2>1, <2>2, <2>4
  <2>6. \A s \in Small(n + 1) : Step(it, s) = Step(old, s)
    <3> HIDE DEF Small
    <3> QED BY <2>3, <2>5
  <2>7. it = [s \in Small(n + 1) |-> Step(it, s)]
    <3> HIDE DEF Small, Step
    <3> QED BY <2>2, <2>6
  <2>8. n + 1 \in Nat
      OBVIOUS
  <2> HIDE DEF Small, Step
  <2> QED BY <2>7, <2>8
<1>6. Nat \subseteq P
  <2> HIDE DEF P
  <2> QED BY <1>4, <1>5, NatSetInduction
<1>7. Cardinality(D) \in Nat /\ Small(Cardinality(D)) = SUBSET D
  <2>1. \A s \in SUBSET D : Cardinality(s) <= Cardinality(D)
      BY FS_Subset
  <2> QED BY <1>1, <2>1
<1>8. \E it : it = [s \in Small(Cardinality(D)) |-> Step(it, s)]
    BY <1>6, <1>7
<1>9. \E it : it = [s \in SUBSET D |-> Step(it, s)]
  <2> HIDE DEF Small, Step, P
  <2> QED BY <1>7, <1>8
<1> QED BY <1>9 DEF IsTable

\* A table of the sums of f over the subsets of its domain.
SumsUp(it, f) ==
    /\ it \in [SUBSET DOMAIN f -> Nat] /\ it[{}] = 0 /\ SumFunction(f) = it[DOMAIN f]
    /\ \A s \in SUBSET DOMAIN f : s # {} => it[s] = f[Some(s)] + it[s \ {Some(s)}]

\* A sum of naturals is the last entry of a table that starts with 0 and adds one element at a time.
LEMMA SumTable ==
    ASSUME NEW f, IsFiniteSet(DOMAIN f), \A x \in DOMAIN f : f[x] \in Nat
    PROVE  \E it : SumsUp(it, f)
<1> DEFINE it == CHOOSE table : IsTable(table, f)
<1>1. IsTable(it, f) /\ SumFunction(f) = it[DOMAIN f]
    BY TableExists, SumUnfold
<1> HIDE DEF it
<1>2. /\ it[{}] = 0 /\ DOMAIN it = SUBSET DOMAIN f
      /\ \A s \in SUBSET DOMAIN f : it[s] = IF s = {} THEN 0 ELSE f[Some(s)] + it[s \ {Some(s)}]
    BY <1>1 DEF IsTable
<1> DEFINE P == {s \in SUBSET DOMAIN f : it[s] \in Nat}
<1>3. SUBSET DOMAIN f \subseteq P
  <2>1. {} \in P
      BY <1>2
  <2>2. \A s \in SUBSET DOMAIN f : s # {} /\ s \ {Some(s)} \in P => s \in P
    <3> SUFFICES ASSUME NEW s \in SUBSET DOMAIN f, s # {}, s \ {Some(s)} \in P PROVE s \in P
        OBVIOUS
    <3>1. Some(s) \in DOMAIN f
        BY DEF Some
    <3>2. it[s] = f[Some(s)] + it[s \ {Some(s)}]
        BY <1>2
    <3> QED BY <3>1, <3>2
  <2> HIDE DEF P
  <2> QED BY <2>1, <2>2, SubsetInduction
<1>4. it = [s \in SUBSET DOMAIN f |-> it[s]]
    BY <1>1, <1>2 DEF IsTable
<1>5. it \in [SUBSET DOMAIN f -> Nat]
    BY <1>3, <1>4
<1>6. SumsUp(it, f)
    BY <1>1, <1>2, <1>5 DEF SumsUp
<1> QED BY <1>6

(***************************************************************************)
(* Trajectories.                                                            *)
(***************************************************************************)

\* A sum of naturals is one.
LEMMA SumType ==
    ASSUME NEW D, IsFiniteSet(D), NEW f \in [D -> Nat]
    PROVE  SumFunction(f) \in Nat
<1>1. PICK it : SumsUp(it, f)
    BY SumTable
<1> QED BY <1>1 DEF SumsUp

\* The sum of the sums of two functions.
LEMMA SumAdd ==
    ASSUME NEW D, IsFiniteSet(D), NEW f \in [D -> Nat], NEW g \in [D -> Nat],
           NEW h \in [D -> Nat], \A x \in D : h[x] = f[x] + g[x]
    PROVE  SumFunction(h) = SumFunction(f) + SumFunction(g)
<1>1. PICK tf : SumsUp(tf, f)
    BY SumTable
<1>2. PICK tg : SumsUp(tg, g)
    BY SumTable
<1>3. PICK th : SumsUp(th, h)
    BY SumTable
<1> DEFINE P == {s \in SUBSET D : th[s] = tf[s] + tg[s]}
<1>4. {} \in P
    BY <1>1, <1>2, <1>3 DEF SumsUp
<1>5. ASSUME NEW s \in SUBSET D, s # {}, s \ {Some(s)} \in P
      PROVE  s \in P
  <2>1. Some(s) \in D /\ s \ {Some(s)} \in SUBSET D
      BY <1>5 DEF Some
  <2>2. tf[s] = f[Some(s)] + tf[s \ {Some(s)}] /\ tf[s \ {Some(s)}] \in Nat
      BY <1>1, <1>5, <2>1 DEF SumsUp
  <2>3. tg[s] = g[Some(s)] + tg[s \ {Some(s)}] /\ tg[s \ {Some(s)}] \in Nat
      BY <1>2, <1>5, <2>1 DEF SumsUp
  <2>4. th[s] = h[Some(s)] + th[s \ {Some(s)}] /\ th[s \ {Some(s)}] \in Nat
      BY <1>3, <1>5, <2>1 DEF SumsUp
  <2>5. f[Some(s)] \in Nat /\ g[Some(s)] \in Nat /\ h[Some(s)] = f[Some(s)] + g[Some(s)]
      BY <2>1
  <2>6. th[s \ {Some(s)}] = tf[s \ {Some(s)}] + tg[s \ {Some(s)}]
      BY <1>5
  <2> QED BY <2>2, <2>3, <2>4, <2>5, <2>6
<1>6. D \in P
  <2> HIDE DEF P
  <2>1. SUBSET D \subseteq P
      BY <1>4, <1>5, SubsetInduction
  <2> QED BY <2>1
<1> QED BY <1>1, <1>2, <1>3, <1>6 DEF SumsUp

\* A sum over one element.
LEMMA SumSingle ==
    ASSUME NEW x, NEW n \in Nat, NEW f \in [{x} -> Nat], f[x] = n
    PROVE  SumFunction(f) = n
<1>1. IsFiniteSet({x})
    BY FS_Singleton
<1>2. PICK it : SumsUp(it, f)
    BY <1>1, SumTable
<1>3. Some({x}) = x /\ {x} \ {x} = {}
    BY DEF Some
<1>4. it[{x}] = f[x] + it[{}] /\ it[{}] = 0
    BY <1>2, <1>3 DEF SumsUp
<1> QED BY <1>2, <1>4 DEF SumsUp

Weighted(v) == SumFunction([d \in Dimensions |-> Weight[d] * v[d]])

\* What the suppliers and the weights are.
LEMMA Constants ==
    /\ IsFiniteSet(Suppliers) /\ IsFiniteSet(Dimensions)
    /\ \A s \in Suppliers : Fit[s] \in [Dimensions -> Nat]
    /\ \A d \in Dimensions : Weight[d] \in Nat
  BY TrajectoryAssumption

\* A weighted sum is a natural.
LEMMA WeightedType ==
    ASSUME NEW v \in [Dimensions -> Nat]
    PROVE  /\ [d \in Dimensions |-> Weight[d] * v[d]] \in [Dimensions -> Nat]
           /\ Weighted(v) \in Nat
<1>1. [d \in Dimensions |-> Weight[d] * v[d]] \in [Dimensions -> Nat]
    BY Constants
<1>2. PICK f \in [Dimensions -> Nat] : f = [d \in Dimensions |-> Weight[d] * v[d]]
    BY <1>1
<1>3. SumFunction(f) \in Nat
    BY SumType, Constants
<1> QED BY <1>1, <1>2, <1>3 DEF Weighted

\* Weighted sums add up.
LEMMA WeightedAdd ==
    ASSUME NEW u \in [Dimensions -> Nat], NEW v \in [Dimensions -> Nat],
           NEW w \in [Dimensions -> Nat], \A d \in Dimensions : w[d] = u[d] + v[d]
    PROVE  Weighted(w) = Weighted(u) + Weighted(v)
<1>1. PICK f \in [Dimensions -> Nat] : f = [d \in Dimensions |-> Weight[d] * u[d]]
    BY WeightedType
<1>2. PICK g \in [Dimensions -> Nat] : g = [d \in Dimensions |-> Weight[d] * v[d]]
    BY WeightedType
<1>3. PICK h \in [Dimensions -> Nat] : h = [d \in Dimensions |-> Weight[d] * w[d]]
    BY WeightedType
<1>4. \A a, x, y \in Nat : a * (x + y) = a * x + a * y
    OBVIOUS
<1>5. \A d \in Dimensions : h[d] = f[d] + g[d]
    BY <1>1, <1>2, <1>3, <1>4, Constants
<1>6. SumFunction(h) = SumFunction(f) + SumFunction(g)
    BY <1>5, SumAdd, Constants
<1> QED BY <1>1, <1>2, <1>3, <1>6 DEF Weighted

\* The metrics of one supplier are its fit.
LEMMA Alone ==
    ASSUME NEW s \in Suppliers
    PROVE  Metrics({s}).sum = Fit[s] /\ Reward(Metrics({s})) = Weighted(Fit[s])
<1>1. \A d \in Dimensions : SumFunction([x \in {s} |-> Fit[x][d]]) = Fit[s][d]
  <2> SUFFICES ASSUME NEW d \in Dimensions
               PROVE  SumFunction([x \in {s} |-> Fit[x][d]]) = Fit[s][d]
      OBVIOUS
  <2>1. PICK f : f = [x \in {s} |-> Fit[x][d]]
      OBVIOUS
  <2>2. f \in [{s} -> Nat] /\ f[s] = Fit[s][d] /\ Fit[s][d] \in Nat
      BY <2>1, Constants
  <2> QED BY <2>1, <2>2, SumSingle
<1>2. Metrics({s}).sum = Fit[s]
    BY <1>1, Constants DEF Metrics
<1> QED BY <1>2 DEF Reward, Weighted

\* The sums over a set of suppliers, and their reward, are bounded by its number.
LEMMA MetricsHold ==
    ASSUME NEW q \in SUBSET Suppliers
    PROVE  /\ Metrics(q) \in [sum : [Dimensions -> Nat], count : Nat, who : SUBSET Suppliers]
           /\ \A B \in Nat : (\A s \in q : Reward(Metrics({s})) <= B)
                               => Reward(Metrics(q)) <= Metrics(q).count * B
<1>0. IsFiniteSet(q) /\ Cardinality(q) \in Nat
    BY Constants, FS_Subset, FS_CardinalityType
<1>1. \A d \in Dimensions : \E it : SumsUp(it, [s \in q |-> Fit[s][d]])
  <2> SUFFICES ASSUME NEW d \in Dimensions PROVE \E it : SumsUp(it, [s \in q |-> Fit[s][d]])
      OBVIOUS
  <2>1. PICK f : f = [s \in q |-> Fit[s][d]]
      OBVIOUS
  <2>2. DOMAIN f = q /\ \A s \in q : f[s] \in Nat
      BY <2>1, Constants
  <2>3. \E it : SumsUp(it, f)
      BY <1>0, <2>2, SumTable
  <2> QED BY <2>1, <2>3
<1>2. PICK tab : \A d \in Dimensions : SumsUp(tab[d], [s \in q |-> Fit[s][d]])
  <2> DEFINE col(d) == [s \in q |-> Fit[s][d]]
             pick(d) == CHOOSE it : SumsUp(it, col(d))
  <2>1. \A d \in Dimensions : SumsUp(pick(d), col(d))
    <3> HIDE DEF col
    <3>1. \A d \in Dimensions : \E it : SumsUp(it, col(d))
        BY <1>1 DEF col
    <3> QED BY <3>1
  <2>2. PICK t : t = [d \in Dimensions |-> pick(d)]
      OBVIOUS
  <2>3. \A d \in Dimensions : SumsUp(t[d], col(d))
    <3> HIDE DEF col, pick
    <3> QED BY <2>1, <2>2
  <2> QED BY <2>3
<1>3. ASSUME NEW d \in Dimensions
      PROVE  /\ tab[d] \in [SUBSET q -> Nat] /\ tab[d][{}] = 0
             /\ SumFunction([s \in q |-> Fit[s][d]]) = tab[d][q]
             /\ \A u \in SUBSET q : u # {} =>
                    tab[d][u] = Fit[Some(u)][d] + tab[d][u \ {Some(u)}]
  <2>1. PICK f : f = [s \in q |-> Fit[s][d]]
      OBVIOUS
  <2>2. DOMAIN f = q /\ SumsUp(tab[d], f)
      BY <1>2, <2>1
  <2>3. \A u \in SUBSET q : u # {} => Some(u) \in q
      BY DEF Some
  <2>4. \A u \in SUBSET q : u # {} => f[Some(u)] = Fit[Some(u)][d]
      BY <2>1, <2>3
  <2> QED BY <2>1, <2>2, <2>4 DEF SumsUp
<1> DEFINE vec(u) == [d \in Dimensions |-> tab[d][u]]
<1>4. \A u \in SUBSET q : vec(u) \in [Dimensions -> Nat]
    BY <1>3
<1>5. Metrics(q).sum = vec(q) /\ Metrics(q).count = Cardinality(q) /\ Metrics(q).who = q
    BY <1>3 DEF Metrics
<1>6. ASSUME NEW B \in Nat, \A s \in q : Reward(Metrics({s})) <= B
      PROVE  Reward(Metrics(q)) <= Cardinality(q) * B
  <2> DEFINE P == {u \in SUBSET q : Weighted(vec(u)) <= Cardinality(u) * B}
  <2>1. {} \in P
    <3>1. \A d \in Dimensions : vec({})[d] = 0
        BY <1>3
    <3>2. vec({}) \in [Dimensions -> Nat]
        BY <1>4
    <3> HIDE DEF vec
    <3>3. Weighted(vec({})) = Weighted(vec({})) + Weighted(vec({}))
        BY <3>1, <3>2, WeightedAdd
    <3>4. Weighted(vec({})) = 0
        BY <3>2, <3>3, WeightedType
    <3>5. Cardinality({}) * B = 0
        BY FS_EmptySet
    <3> QED BY <3>4, <3>5
  <2>2. ASSUME NEW u \in SUBSET q, u # {}, u \ {Some(u)} \in P
        PROVE  u \in P
    <3>1. Some(u) \in u /\ Some(u) \in q /\ Some(u) \in Suppliers /\ u \ {Some(u)} \in SUBSET q
        BY <2>2 DEF Some
    <3>2. \A d \in Dimensions : vec(u)[d] = Fit[Some(u)][d] + vec(u \ {Some(u)})[d]
        BY <1>3, <2>2
    <3>3. /\ vec(u) \in [Dimensions -> Nat] /\ vec(u \ {Some(u)}) \in [Dimensions -> Nat]
          /\ Fit[Some(u)] \in [Dimensions -> Nat]
        BY <1>4, <3>1, Constants
    <3> HIDE DEF vec
    <3>4. Weighted(vec(u)) = Weighted(Fit[Some(u)]) + Weighted(vec(u \ {Some(u)}))
        BY <3>2, <3>3, WeightedAdd
    <3>5. Weighted(Fit[Some(u)]) <= B
        BY <1>6, <3>1, Alone
    <3>6. IsFiniteSet(u) /\ Cardinality(u) \in Nat /\ Cardinality(u \ {Some(u)}) = Cardinality(u) - 1
        BY <1>0, <3>1, FS_Subset, FS_CardinalityType, FS_RemoveElement
    <3>7. /\ Weighted(vec(u \ {Some(u)})) <= Cardinality(u \ {Some(u)}) * B
          /\ Weighted(vec(u \ {Some(u)})) \in Nat /\ Weighted(Fit[Some(u)]) \in Nat
        BY <2>2, <3>3, WeightedType
    <3>8. \A n \in Nat : (n - 1) * B + B = n * B
        OBVIOUS
    <3>9. Weighted(vec(u)) <= (Cardinality(u) - 1) * B + B
      <4>1. (Cardinality(u) - 1) * B \in Int
          BY <3>6
      <4> QED BY <3>4, <3>5, <3>6, <3>7, <4>1
    <3>10. Weighted(vec(u)) <= Cardinality(u) * B
        BY <3>6, <3>8, <3>9
    <3> QED BY <3>10
  <2>3. q \in P
    <3> HIDE DEF P
    <3>1. SUBSET q \subseteq P
        BY <1>0, <2>1, <2>2, SubsetInduction
    <3> QED BY <3>1
  <2>4. Reward(Metrics(q)) = Weighted(vec(q))
    <3> HIDE DEF vec
    <3> QED BY <1>5 DEF Reward, Weighted
  <2> QED BY <2>3, <2>4
<1>7. Metrics(q) \in [sum : [Dimensions -> Nat], count : Nat, who : SUBSET Suppliers]
    BY <1>0, <1>3 DEF Metrics
<1> QED BY <1>5, <1>6, <1>7

-----------------------------------------------------------------------------
(* The invariant.                                                           *)

Bundles == [sum : [Dimensions -> Nat], count : Nat, who : SUBSET Suppliers]

BundleHolds(b) ==
    /\ b.count > 0 => b.who # {}
    /\ \A B \in Nat : (\A s \in b.who : Reward(Metrics({s})) <= B) => Reward(b) <= b.count * B

\* The rounds that were paid for, with those of every earlier trajectory at their most.
RoundsPaid == Lesser(trajectory - 1, Width) * MaxRefinements + round

TrajectoryTypes ==
    /\ trajectory \in Nat \ {0} /\ trajectory <= Width + 2 /\ round \in 0..MaxRefinements
    /\ bundle \in Bundles /\ bundles \in Seq(Bundles)
    /\ charged \in [search : Nat, fetch : Nat]

TrajectoryInv ==
    /\ TrajectoryTypes
    /\ trajectory > Width => round = 0
    /\ BundleHolds(bundle) /\ \A i \in DOMAIN bundles : BundleHolds(bundles[i])
    /\ charged.search <= RoundsPaid * SearchCap /\ charged.fetch <= RoundsPaid * FetchCap

\* The limits are numbers.
LEMMA Limits ==
    /\ Width \in Nat /\ MaxRefinements \in Nat /\ MaxRefinements >= 1
    /\ SearchCap \in Nat /\ FetchCap \in Nat
<1>1. Len(Strategies) \in Nat
    BY TrajectoryAssumption
<1> QED BY <1>1, TrajectoryAssumption DEF Width, Lesser

\* Arithmetic that the solver does not find by itself.
LEMMA Products ==
    /\ \A a, b \in Nat : a * b \in Nat
    /\ \A a, b \in Nat : (a + 1) * b = a * b + b
    /\ \A a, b, c \in Nat : a <= b => a * c <= b * c
<1>1. \A a, b \in Nat : a * b \in Nat
    OBVIOUS
<1>2. \A a, b \in Nat : (a + 1) * b = a * b + b
    OBVIOUS
<1>3. \A a, c, n \in Nat : (a + n) * c = a * c + n * c
    OBVIOUS
<1>4. ASSUME NEW a \in Nat, NEW b \in Nat, NEW c \in Nat, a <= b
      PROVE  a * c <= b * c
  <2>1. b - a \in Nat /\ a + (b - a) = b
      BY <1>4
  <2>2. b * c = a * c + (b - a) * c
      BY <1>3, <2>1
  <2>3. (b - a) * c \in Nat /\ a * c \in Nat
      BY <1>1, <2>1
  <2> QED BY <2>2, <2>3
<1> QED BY <1>1, <1>2, <1>4

\* The empty bundle is one.
LEMMA NoBundleHolds == NoBundle \in Bundles /\ BundleHolds(NoBundle)
<1>1. PICK v \in [Dimensions -> Nat] : v = [d \in Dimensions |-> 0]
    OBVIOUS
<1>2. Weighted(v) = Weighted(v) + Weighted(v)
    BY <1>1, WeightedAdd
<1>3. Weighted(v) = 0
    BY <1>2, WeightedType
<1>4. Reward(NoBundle) = 0 /\ NoBundle.count = 0
    BY <1>1, <1>3 DEF Reward, Weighted, NoBundle
<1>5. NoBundle \in Bundles
    BY DEF NoBundle, Bundles
<1>6. \A B \in Nat : 0 * B = 0
    OBVIOUS
<1> QED BY <1>4, <1>5, <1>6 DEF BundleHolds

\* What Metrics returns is a bundle.
LEMMA MetricsBundle ==
    ASSUME NEW q \in SUBSET Suppliers
    PROVE  Metrics(q) \in Bundles /\ BundleHolds(Metrics(q))
<1>1. Metrics(q).who = q /\ Metrics(q).count = Cardinality(q)
    BY DEF Metrics
<1>2. Cardinality(q) > 0 => q # {}
    BY FS_EmptySet
<1> QED BY <1>1, <1>2, MetricsHold DEF Bundles, BundleHolds

\* _merge_bundles returns a bundle again.
LEMMA MergedHolds ==
    ASSUME NEW old \in Bundles, NEW new \in Bundles, BundleHolds(old), BundleHolds(new)
    PROVE  Merged(old, new) \in Bundles /\ BundleHolds(Merged(old, new))
<1>1. PICK b : b = Merged(old, new)
    OBVIOUS
<1>2. /\ b.sum = [d \in Dimensions |-> old.sum[d] + new.sum[d]]
      /\ b.count = old.count + new.count /\ b.who = old.who \cup new.who
    BY <1>1 DEF Merged
<1>3. /\ old.sum \in [Dimensions -> Nat] /\ old.count \in Nat /\ old.who \in SUBSET Suppliers
      /\ new.sum \in [Dimensions -> Nat] /\ new.count \in Nat /\ new.who \in SUBSET Suppliers
    BY DEF Bundles
<1>4. b.sum \in [Dimensions -> Nat] /\ b.count \in Nat /\ b.who \in SUBSET Suppliers
    BY <1>2, <1>3
<1>5. Merged(old, new) \in Bundles
    BY <1>1, <1>2, <1>4 DEF Merged, Bundles
<1>6. Weighted(b.sum) = Weighted(old.sum) + Weighted(new.sum)
    BY <1>2, <1>3, <1>4, WeightedAdd
<1>7. /\ Reward(b) = Reward(old) + Reward(new)
      /\ Reward(old) \in Nat /\ Reward(new) \in Nat
    BY <1>3, <1>6, WeightedType DEF Reward, Weighted
<1>8. b.count > 0 => b.who # {}
    BY <1>2, <1>3 DEF BundleHolds
<1>9. ASSUME NEW B \in Nat, \A s \in b.who : Reward(Metrics({s})) <= B
      PROVE  Reward(b) <= b.count * B
  <2>1. Reward(old) <= old.count * B /\ Reward(new) <= new.count * B
      BY <1>2, <1>9 DEF BundleHolds
  <2>2. \A m, n \in Nat : (m + n) * B = m * B + n * B /\ m * B \in Nat
      OBVIOUS
  <2>3. /\ b.count * B = old.count * B + new.count * B
        /\ old.count * B \in Nat /\ new.count * B \in Nat
      BY <1>2, <1>3, <2>2
  <2> QED BY <1>7, <2>1, <2>3
<1>10. BundleHolds(b)
    BY <1>8, <1>9 DEF BundleHolds
<1> QED BY <1>1, <1>5, <1>10

\* One round: it is paid for, and its bundle is no better than its suppliers.
LEMMA GatheredHolds ==
    ASSUME TrajectoryInv, NEW queries \in Nat, Gathered(queries), trajectory <= Width,
           round < MaxRefinements, round' = round + 1, UNCHANGED <<trajectory, bundles>>
    PROVE  TrajectoryInv'
<1>0. /\ trajectory \in Nat /\ trajectory >= 1 /\ round \in Nat /\ charged.search \in Nat
      /\ charged.fetch \in Nat /\ bundle \in Bundles
    BY DEF TrajectoryInv, TrajectoryTypes
<1>1. PICK searches \in 0..Lesser(queries, SearchCap), fetches \in 0..FetchCap,
           q \in SUBSET Suppliers :
        /\ charged' = [search |-> charged.search + searches, fetch |-> charged.fetch + fetches]
        /\ bundle' = IF round = 0 THEN Metrics(q) ELSE Merged(bundle, Metrics(q))
    BY DEF Gathered
<1>2. /\ searches \in Nat /\ searches <= SearchCap /\ fetches \in Nat /\ fetches <= FetchCap
    BY Limits DEF Lesser
<1>3. bundle' \in Bundles /\ BundleHolds(bundle')
  <2>1. Metrics(q) \in Bundles /\ BundleHolds(Metrics(q))
      BY MetricsBundle
  <2>2. BundleHolds(bundle)
      BY DEF TrajectoryInv
  <2>3. Merged(bundle, Metrics(q)) \in Bundles /\ BundleHolds(Merged(bundle, Metrics(q)))
      BY <1>0, <2>1, <2>2, MergedHolds
  <2> QED BY <1>1, <2>1, <2>3
<1>4. RoundsPaid \in Nat /\ RoundsPaid' = RoundsPaid + 1
  <2>1. Lesser(trajectory - 1, Width) = trajectory - 1 /\ trajectory - 1 \in Nat
      BY <1>0, Limits DEF Lesser
  <2>2. (trajectory - 1) * MaxRefinements \in Nat
      BY <2>1, Limits, Products
  <2>3. RoundsPaid = (trajectory - 1) * MaxRefinements + round
      BY <2>1 DEF RoundsPaid
  <2>4. RoundsPaid' = (trajectory - 1) * MaxRefinements + (round + 1)
      BY <2>1 DEF RoundsPaid, Width, Lesser
  <2> QED BY <1>0, <2>2, <2>3, <2>4
<1>5. /\ (RoundsPaid + 1) * SearchCap = RoundsPaid * SearchCap + SearchCap
      /\ (RoundsPaid + 1) * FetchCap = RoundsPaid * FetchCap + FetchCap
      /\ RoundsPaid * SearchCap \in Nat /\ RoundsPaid * FetchCap \in Nat
    BY <1>4, Limits, Products
<1>6. charged'.search <= RoundsPaid' * SearchCap /\ charged'.fetch <= RoundsPaid' * FetchCap
  <2>1. charged.search <= RoundsPaid * SearchCap /\ charged.fetch <= RoundsPaid * FetchCap
      BY DEF TrajectoryInv
  <2>2. charged'.search = charged.search + searches /\ charged'.fetch = charged.fetch + fetches
      BY <1>1
  <2> QED BY <1>0, <1>2, <1>4, <1>5, <2>1, <2>2, Limits
<1>7. TrajectoryTypes'
  <2>1. charged' \in [search : Nat, fetch : Nat]
      BY <1>0, <1>1, <1>2
  <2>2. round' \in 0..MaxRefinements
      BY <1>0, Limits
  <2>3. bundles' \in Seq(Bundles) /\ trajectory' \in Nat \ {0} /\ trajectory' <= Width + 2
      BY DEF TrajectoryInv, TrajectoryTypes
  <2> QED BY <1>3, <2>1, <2>2, <2>3 DEF TrajectoryTypes, Width, Lesser
<1>8. ~(trajectory' > Width)
    BY <1>0, Limits
<1>9. \A i \in DOMAIN bundles' : BundleHolds(bundles'[i])
    BY DEF TrajectoryInv
<1> QED BY <1>3, <1>6, <1>7, <1>8, <1>9 DEF TrajectoryInv, BundleHolds, Width, Lesser

\* The end of a trajectory keeps the invariant.
LEMMA EndTrajectoryHolds == TrajectoryInv /\ EndTrajectory => TrajectoryInv'
<1> SUFFICES ASSUME TrajectoryInv, EndTrajectory PROVE TrajectoryInv'
    OBVIOUS
<1>0. /\ trajectory \in Nat /\ trajectory >= 1 /\ round \in 0..MaxRefinements /\ bundle \in Bundles
      /\ bundles \in Seq(Bundles) /\ charged \in [search : Nat, fetch : Nat]
    BY DEF TrajectoryInv, TrajectoryTypes
<1>1. /\ trajectory <= Width /\ trajectory' = trajectory + 1 /\ round' = 0
      /\ bundles' = Append(bundles, bundle) /\ bundle' = NoBundle /\ charged' = charged
    BY DEF EndTrajectory
<1>2. bundles' \in Seq(Bundles)
    BY <1>0, <1>1
<1>3. \A i \in DOMAIN bundles' : BundleHolds(bundles'[i])
  <2>1. \A i \in DOMAIN bundles' : bundles'[i] = bundle \/ (i \in DOMAIN bundles /\ bundles'[i] = bundles[i])
      BY <1>0, <1>1
  <2> QED BY <2>1 DEF TrajectoryInv
<1>4. RoundsPaid \in Nat /\ RoundsPaid' \in Nat /\ RoundsPaid <= RoundsPaid'
  <2>1. Lesser(trajectory - 1, Width) = trajectory - 1 /\ trajectory - 1 \in Nat
      BY <1>0, <1>1, Limits DEF Lesser
  <2>2. Lesser(trajectory, Width) = trajectory
      BY <1>0, <1>1, Limits DEF Lesser
  <2>3. trajectory * MaxRefinements = (trajectory - 1) * MaxRefinements + MaxRefinements
    <3>1. (trajectory - 1) + 1 = trajectory
        BY <1>0
    <3> QED BY <2>1, <3>1, Limits, Products
  <2>4. (trajectory - 1) * MaxRefinements \in Nat
      BY <2>1, Limits, Products
  <2>5. RoundsPaid = (trajectory - 1) * MaxRefinements + round
      BY <2>1 DEF RoundsPaid
  <2>6. RoundsPaid' = trajectory * MaxRefinements + 0
    <3>1. (trajectory + 1) - 1 = trajectory
        BY <1>0
    <3> QED BY <1>1, <2>2, <3>1 DEF RoundsPaid, Width, Lesser
  <2> QED BY <1>0, <2>3, <2>4, <2>5, <2>6, Limits
<1>5. /\ RoundsPaid * SearchCap <= RoundsPaid' * SearchCap
      /\ RoundsPaid * FetchCap <= RoundsPaid' * FetchCap
      /\ RoundsPaid * SearchCap \in Nat /\ RoundsPaid * FetchCap \in Nat
      /\ RoundsPaid' * SearchCap \in Nat /\ RoundsPaid' * FetchCap \in Nat
    BY <1>4, Limits, Products
<1>6. charged'.search <= RoundsPaid' * SearchCap /\ charged'.fetch <= RoundsPaid' * FetchCap
  <2>1. charged.search <= RoundsPaid * SearchCap /\ charged.fetch <= RoundsPaid * FetchCap
      BY DEF TrajectoryInv
  <2> QED BY <1>0, <1>1, <1>5, <2>1
<1>7. TrajectoryTypes'
    BY <1>0, <1>1, <1>2, NoBundleHolds, Limits DEF TrajectoryTypes, Width, Lesser
<1>8. BundleHolds(bundle)'
    BY <1>1, NoBundleHolds DEF BundleHolds
<1> QED BY <1>1, <1>3, <1>6, <1>7, <1>8 DEF TrajectoryInv, BundleHolds, Width, Lesser

\* The selection keeps it.
LEMMA SelectHolds == TrajectoryInv /\ Select => TrajectoryInv'
<1> SUFFICES ASSUME TrajectoryInv, Select PROVE TrajectoryInv'
    OBVIOUS
<1>0. trajectory \in Nat /\ trajectory = Width + 1 /\ round = 0 /\ Width \in Nat
    BY Limits DEF TrajectoryInv, TrajectoryTypes, Select
<1>1. trajectory' = trajectory + 1 /\ UNCHANGED <<round, bundle, bundles, charged>>
    BY DEF Select
<1>2. RoundsPaid' = RoundsPaid
  <2>1. Lesser(trajectory - 1, Width) = Width /\ Lesser(trajectory, Width) = Width
      BY <1>0 DEF Lesser
  <2>2. (trajectory + 1) - 1 = trajectory
      BY <1>0
  <2> QED BY <1>1, <2>1, <2>2 DEF RoundsPaid, Width, Lesser
<1>3. TrajectoryTypes'
    BY <1>0, <1>1 DEF TrajectoryInv, TrajectoryTypes, Width, Lesser
<1> QED BY <1>0, <1>1, <1>2, <1>3 DEF TrajectoryInv, BundleHolds, Width, Lesser

\* Among finitely many suppliers one is the best.
LEMMA BestSupplier ==
    ASSUME NEW w \in SUBSET Suppliers, w # {}
    PROVE  \E s \in w : \A x \in w : Reward(Metrics({x})) <= Reward(Metrics({s}))
<1> DEFINE alone(s) == Reward(Metrics({s}))
           P == {u \in SUBSET w : u # {} => \E s \in u : \A x \in u : alone(x) <= alone(s)}
<1>0. IsFiniteSet(w)
    BY Constants, FS_Subset
<1>1. \A s \in w : alone(s) \in Nat
    BY Alone, WeightedType, Constants
<1> HIDE DEF alone
<1>2. {} \in P
    OBVIOUS
<1>3. ASSUME NEW u \in SUBSET w, u # {}, u \ {Some(u)} \in P
      PROVE  u \in P
  <2>1. Some(u) \in u
      BY <1>3 DEF Some
  <2>2. CASE u \ {Some(u)} = {}
      BY <1>1, <2>1, <2>2
  <2>3. CASE u \ {Some(u)} # {}
    <3>1. PICK s \in u \ {Some(u)} : \A x \in u \ {Some(u)} : alone(x) <= alone(s)
        BY <1>3, <2>3
    <3>2. alone(s) \in Nat /\ alone(Some(u)) \in Nat
        BY <1>1, <2>1
    <3>3. CASE alone(s) <= alone(Some(u))
        BY <1>1, <2>1, <3>1, <3>2, <3>3
    <3>4. CASE ~(alone(s) <= alone(Some(u)))
        BY <1>1, <2>1, <3>1, <3>2, <3>4
    <3> QED BY <3>3, <3>4
  <2> QED BY <2>2, <2>3
<1>4. w \in P
  <2> HIDE DEF P
  <2>1. SUBSET w \subseteq P
      BY <1>0, <1>2, <1>3, SubsetInduction
  <2> QED BY <2>1
<1> QED BY <1>4 DEF alone

\* The invariant implies the property.
LEMMA NotFictitious ==
    ASSUME NEW b \in Bundles, BundleHolds(b), b.count > 0
    PROVE  \E s \in b.who : Reward(b) =< b.count * Reward(Metrics({s}))
<1>1. b.who \in SUBSET Suppliers /\ b.who # {}
    BY DEF Bundles, BundleHolds
<1>2. PICK s \in b.who : \A x \in b.who : Reward(Metrics({x})) <= Reward(Metrics({s}))
    BY <1>1, BestSupplier
<1>3. Reward(Metrics({s})) \in Nat
    BY <1>1, Alone, WeightedType, Constants
<1> QED BY <1>2, <1>3 DEF BundleHolds

\* The inductive invariant of the trajectories, their bundles and their charges.
THEOREM TrajectoryInvCorrect == TrajectoriesSpec => []TrajectoryInv
<1>1. TrajectoriesInit => TrajectoryInv
  <2> SUFFICES ASSUME TrajectoriesInit PROVE TrajectoryInv
      OBVIOUS
  <2>1. /\ trajectory = 1 /\ round = 0 /\ bundle = NoBundle /\ bundles = << >>
        /\ charged = [search |-> 0, fetch |-> 0]
      BY DEF TrajectoriesInit
  <2>2. TrajectoryTypes
      BY <2>1, NoBundleHolds, Limits DEF TrajectoryTypes
  <2>3. RoundsPaid \in Nat
    <3>1. Lesser(trajectory - 1, Width) \in Nat
        BY <2>1, Limits DEF Lesser
    <3>2. Lesser(trajectory - 1, Width) * MaxRefinements \in Nat
        BY <3>1, Limits, Products
    <3> QED BY <2>1, <3>2 DEF RoundsPaid
  <2>4. RoundsPaid * SearchCap \in Nat /\ RoundsPaid * FetchCap \in Nat
      BY <2>3, Limits, Products
  <2>5. charged.search <= RoundsPaid * SearchCap /\ charged.fetch <= RoundsPaid * FetchCap
      BY <2>1, <2>4
  <2> QED BY <2>1, <2>2, <2>5, NoBundleHolds DEF TrajectoryInv
<1>2. TrajectoryInv /\ [TrajectoriesNext]_tvars => TrajectoryInv'
  <2> SUFFICES ASSUME TrajectoryInv, [TrajectoriesNext]_tvars PROVE TrajectoryInv'
      OBVIOUS
  <2>1. CASE Explore
    <3>1. /\ trajectory <= Width /\ round = 0 /\ Gathered(SearchCap) /\ round' = round + 1
          /\ UNCHANGED <<trajectory, bundles>> /\ round < MaxRefinements
        BY <2>1, Limits DEF Explore
    <3> QED BY <3>1, GatheredHolds, Limits
  <2>2. CASE Repair
    <3>1. Gaps(bundle) \subseteq Dimensions
        BY DEF Gaps
    <3>2. Cardinality(Gaps(bundle)) \in Nat
        BY <3>1, Constants, FS_Subset, FS_CardinalityType
    <3>3. Lesser(Cardinality(Gaps(bundle)), SearchCap) \in Nat
        BY <3>2, Limits DEF Lesser
    <3>4. /\ trajectory <= Width /\ Gathered(Lesser(Cardinality(Gaps(bundle)), SearchCap))
          /\ round' = round + 1 /\ UNCHANGED <<trajectory, bundles>> /\ round < MaxRefinements
        BY <2>2, Limits DEF Repair
    <3> QED BY <3>3, <3>4, GatheredHolds
  <2>3. CASE EndTrajectory
      BY <2>3, EndTrajectoryHolds
  <2>4. CASE Select
      BY <2>4, SelectHolds
  <2>5. CASE UNCHANGED tvars
    <3>1. UNCHANGED <<trajectory, round, bundle, bundles, charged>>
        BY <2>5 DEF tvars
    <3> QED BY <3>1 DEF TrajectoryInv, TrajectoryTypes, BundleHolds, RoundsPaid, Width, Lesser
  <2> QED BY <2>1, <2>2, <2>3, <2>4, <2>5 DEF TrajectoriesNext
<1> QED BY <1>1, <1>2, PTL DEF TrajectoriesSpec

\* No bundle is better than the best of its suppliers, and the budget's ceilings
\* hold over all rounds.
THEOREM NoFictitiousSupplierCorrect == TrajectoriesSpec => []NoFictitiousSupplier
<1>1. TrajectoryInv => NoFictitiousSupplier
  <2> SUFFICES ASSUME TrajectoryInv PROVE NoFictitiousSupplier
      OBVIOUS
  <2>1. \A b \in {bundles[i] : i \in DOMAIN bundles} \cup {bundle} : b \in Bundles /\ BundleHolds(b)
      BY DEF TrajectoryInv, TrajectoryTypes
  <2>2. \A b \in {bundles[i] : i \in DOMAIN bundles} \cup {bundle} :
          b.count > 0 => \E s \in b.who : Reward(b) =< b.count * Reward(Metrics({s}))
      BY <2>1, NotFictitious
  <2>3. RoundsPaid \in Nat /\ RoundsPaid <= Width * MaxRefinements
    <3>0. /\ trajectory \in Nat /\ trajectory >= 1 /\ round \in 0..MaxRefinements
          /\ trajectory > Width => round = 0
        BY DEF TrajectoryInv, TrajectoryTypes
    <3>1. CASE trajectory > Width
      <4>1. Lesser(trajectory - 1, Width) = Width
          BY <3>0, <3>1, Limits DEF Lesser
      <4>2. Width * MaxRefinements \in Nat
          BY Limits, Products
      <4> QED BY <3>0, <3>1, <4>1, <4>2 DEF RoundsPaid
    <3>2. CASE ~(trajectory > Width)
      <4>1. Lesser(trajectory - 1, Width) = trajectory - 1 /\ trajectory - 1 \in Nat
          BY <3>0, <3>2, Limits DEF Lesser
      <4>2. ((trajectory - 1) + 1) * MaxRefinements = (trajectory - 1) * MaxRefinements + MaxRefinements
          BY <4>1, Limits, Products
      <4>3. (trajectory - 1) + 1 = trajectory
          BY <3>0
      <4>4. trajectory * MaxRefinements <= Width * MaxRefinements
          BY <3>0, <3>2, Limits, Products
      <4>5. /\ (trajectory - 1) * MaxRefinements \in Nat /\ trajectory * MaxRefinements \in Nat
            /\ Width * MaxRefinements \in Nat
          BY <3>0, <4>1, Limits, Products
      <4>6. RoundsPaid = (trajectory - 1) * MaxRefinements + round
          BY <4>1 DEF RoundsPaid
      <4> QED BY <3>0, <4>2, <4>3, <4>4, <4>5, <4>6, Limits
    <3> QED BY <3>1, <3>2
  <2>4. /\ RoundsPaid * SearchCap <= Width * MaxRefinements * SearchCap
        /\ RoundsPaid * FetchCap <= Width * MaxRefinements * FetchCap
        /\ RoundsPaid * SearchCap \in Nat /\ RoundsPaid * FetchCap \in Nat
        /\ Width * MaxRefinements * SearchCap \in Nat /\ Width * MaxRefinements * FetchCap \in Nat
    <3>1. Width * MaxRefinements \in Nat
        BY Limits, Products
    <3> QED BY <2>3, <3>1, Limits, Products
  <2>5. charged.search \in Nat /\ charged.fetch \in Nat
      BY DEF TrajectoryInv, TrajectoryTypes
  <2>6. charged.search <= RoundsPaid * SearchCap /\ charged.fetch <= RoundsPaid * FetchCap
      BY DEF TrajectoryInv
  <2>7. /\ charged.search <= Width * MaxRefinements * SearchCap
        /\ charged.fetch <= Width * MaxRefinements * FetchCap
      BY <2>4, <2>5, <2>6
  <2> QED BY <2>2, <2>7 DEF NoFictitiousSupplier
<1> QED BY <1>1, TrajectoryInvCorrect, PTL

(***************************************************************************)
(* The page cache and fetch().                                              *)
(***************************************************************************)

-----------------------------------------------------------------------------
(* PutInOrder: its elements and their order.                                 *)

IsScan(kept, S) ==
    kept = [n \in 0..Len(Requested) |->
               IF n = 0 THEN << >>
               ELSE IF Requested[n] \in S THEN Append(kept[n - 1], Requested[n]) ELSE kept[n - 1]]

\* PutInOrder, by its recursive definition.
LEMMA ScanUnfold == \A S : PutInOrder(S) = (CHOOSE kept : IsScan(kept, S))[Len(Requested)]
  BY DEF PutInOrder, IsScan

\* What is asked for.
LEMMA RequestedType ==
    /\ Requested \in Seq(Asked) /\ Len(Requested) \in Nat /\ DOMAIN Requested = 1..Len(Requested)
    /\ \A i, j \in 1..Len(Requested) : Requested[i] = Requested[j] => i = j
<1>1. Requested \in Seq(Asked)
    BY PageFetchAssumption DEF Asked
<1> QED BY <1>1, PageFetchAssumption

\* The recursive definition has a solution: by induction on its length.
LEMMA ScanExists == ASSUME NEW S PROVE \E kept : IsScan(kept, S)
<1> DEFINE Step(k, n) == IF n = 0 THEN << >>
                         ELSE IF Requested[n] \in S THEN Append(k[n - 1], Requested[n]) ELSE k[n - 1]
           P == {m \in Nat : \E k : k = [n \in 0..m |-> Step(k, n)]}
<1>1. 0 \in P
  <2>1. PICK k : k = [n \in 0..0 |-> << >>]
      OBVIOUS
  <2>2. \A n \in 0..0 : Step(k, n) = << >>
      OBVIOUS
  <2>3. k = [n \in 0..0 |-> Step(k, n)]
    <3> HIDE DEF Step
    <3> QED BY <2>1, <2>2
  <2> QED BY <2>3
<1>2. \A m \in Nat : m \in P => m + 1 \in P
  <2> SUFFICES ASSUME NEW m \in Nat, m \in P PROVE m + 1 \in P
      OBVIOUS
  <2>1. PICK old : old = [n \in 0..m |-> Step(old, n)]
      OBVIOUS
  <2>2. PICK k : k = [n \in 0..(m + 1) |-> Step(old, n)]
      OBVIOUS
  <2>3. \A n \in 0..m : k[n] = old[n]
    <3>1. \A n \in 0..m : n \in 0..(m + 1)
        OBVIOUS
    <3> HIDE DEF Step
    <3> QED BY <2>1, <2>2, <3>1
  <2>4. \A n \in 0..(m + 1) : Step(k, n) = Step(old, n)
    <3>1. \A n \in 0..(m + 1) : n # 0 => n - 1 \in 0..m
        OBVIOUS
    <3> QED BY <2>3, <3>1
  <2>5. k = [n \in 0..(m + 1) |-> Step(k, n)]
    <3> HIDE DEF Step
    <3> QED BY <2>2, <2>4
  <2> HIDE DEF Step
  <2> QED BY <2>5
<1>3. Nat \subseteq P
  <2> HIDE DEF P
  <2> QED BY <1>1, <1>2, NatSetInduction
<1> QED BY <1>3, RequestedType DEF IsScan

\* s has elements of S only, in the order they were asked for.
InTurn(s, S) ==
    /\ s \in Seq(Asked) /\ \A i \in 1..Len(s) : s[i] \in S
    /\ \A i, j \in 1..Len(s) : i < j => s[i] # s[j] /\ Earlier(s[i], s[j])

\* PutInOrder(S) has elements of S only, in the order they were asked for.
LEMMA PutInOrderHolds == ASSUME NEW S PROVE InTurn(PutInOrder(S), S)
<1>1. PICK kept : IsScan(kept, S) /\ PutInOrder(S) = kept[Len(Requested)]
    BY ScanExists, ScanUnfold
<1>2. /\ kept[0] = << >>
      /\ \A n \in 1..Len(Requested) :
            kept[n] = IF Requested[n] \in S THEN Append(kept[n - 1], Requested[n]) ELSE kept[n - 1]
  <2> DEFINE Step(n) == IF n = 0 THEN << >>
                        ELSE IF Requested[n] \in S THEN Append(kept[n - 1], Requested[n]) ELSE kept[n - 1]
  <2>1. kept = [n \in 0..Len(Requested) |-> Step(n)]
      BY <1>1 DEF IsScan
  <2>2. \A n \in 0..Len(Requested) : kept[n] = Step(n)
    <3> HIDE DEF Step
    <3> QED BY <2>1
  <2>3. 0 \in 0..Len(Requested) /\ \A n \in 1..Len(Requested) : n \in 0..Len(Requested) /\ n # 0
      BY RequestedType
  <2> QED BY <2>2, <2>3
<1> DEFINE Good(s, n) ==
             /\ s \in Seq(Asked)
             /\ \A i \in 1..Len(s) : s[i] \in S /\ \E k \in 1..n : Requested[k] = s[i]
             /\ \A i, j \in 1..Len(s) : i < j => s[i] # s[j] /\ Earlier(s[i], s[j])
           P == {n \in Nat : n <= Len(Requested) => Good(kept[n], n)}
<1>3. 0 \in P
  <2>1. Good(<< >>, 0)
      OBVIOUS
  <2> HIDE DEF Good
  <2> QED BY <1>2, <2>1
<1>4. \A n \in Nat : n \in P => n + 1 \in P
  <2> HIDE DEF Good
  <2> SUFFICES ASSUME NEW n \in Nat, n \in P, n + 1 <= Len(Requested) PROVE Good(kept[n + 1], n + 1)
      OBVIOUS
  <2> USE DEF Good
  <2> DEFINE s == kept[n]
             u == Requested[n + 1]
  <2>1. Good(s, n)
      BY RequestedType
  <2>2. n + 1 \in 1..Len(Requested) /\ (n + 1) - 1 = n /\ u \in Asked
      BY RequestedType DEF Asked
  <2>3. kept[n + 1] = IF u \in S THEN Append(s, u) ELSE s
      BY <1>2, <2>2
  <2> HIDE DEF s
  <2>4. CASE u \notin S
      BY <2>1, <2>3, <2>4
  <2>5. CASE u \in S
    <3>1. PICK t : t = Append(s, u)
        OBVIOUS
    <3>2. /\ t \in Seq(Asked) /\ Len(t) = Len(s) + 1 /\ Len(s) \in Nat /\ t[Len(s) + 1] = u
          /\ \A i \in 1..Len(s) : t[i] = s[i]
        BY <2>1, <2>2, <3>1
    <3>3. \A i \in 1..Len(s) : s[i] # u /\ Earlier(s[i], u)
      <4> SUFFICES ASSUME NEW i \in 1..Len(s) PROVE s[i] # u /\ Earlier(s[i], u)
          OBVIOUS
      <4>1. PICK k \in 1..n : Requested[k] = s[i]
          BY <2>1
      <4>2. k < n + 1 /\ k \in 1..Len(Requested)
          BY <4>1, RequestedType
      <4>3. s[i] # u
          BY <2>2, <4>1, <4>2, RequestedType
      <4> QED BY <2>2, <4>1, <4>2, <4>3, RequestedType DEF Earlier
    <3> HIDE DEF u
    <3>4. \A i \in 1..Len(t) : t[i] \in S /\ \E k \in 1..(n + 1) : Requested[k] = t[i]
      <4>1. ASSUME NEW i \in 1..Len(s)
            PROVE  s[i] \in S /\ \E k \in 1..(n + 1) : Requested[k] = s[i]
          BY <2>1
      <4>2. u = Requested[n + 1] /\ n + 1 \in 1..(n + 1)
          BY DEF u
      <4>3. \A i \in 1..Len(t) : i \in 1..Len(s) \/ i = Len(s) + 1
          BY <3>2
      <4> QED BY <2>5, <3>2, <4>1, <4>2, <4>3
    <3>5. \A i, j \in 1..Len(t) : i < j => t[i] # t[j] /\ Earlier(t[i], t[j])
      <4>0. \A m \in Nat : \A i, j \in 1..(m + 1) : i < j => i \in 1..m /\ (j \in 1..m \/ j = m + 1)
          OBVIOUS
      <4>1. \A i, j \in 1..Len(t) : i < j =>
               i \in 1..Len(s) /\ (j \in 1..Len(s) \/ j = Len(s) + 1)
          BY <3>2, <4>0
      <4>2. \A i, j \in 1..Len(s) : i < j => s[i] # s[j] /\ Earlier(s[i], s[j])
          BY <2>1
      <4> QED BY <3>2, <3>3, <4>1, <4>2
    <3> QED BY <2>3, <2>5, <3>1, <3>2, <3>4, <3>5
  <2> QED BY <2>4, <2>5
<1>5. Len(Requested) \in P
  <2> HIDE DEF P
  <2> QED BY <1>3, <1>4, NatSetInduction, RequestedType
<1>6. Good(kept[Len(Requested)], Len(Requested))
    BY <1>5, RequestedType
<1> QED BY <1>1, <1>6 DEF InTurn

-----------------------------------------------------------------------------
(* The invariant.                                                           *)

Vias == {"cache", "live", "fallback", "archive"}
Pages == [url : Asked, via : Vias, class : PageClasses, day : Nat]
Errors == [url : Asked, class : ErrorClasses \cup {"verdict"}, recovered : BOOLEAN]
Files == {Missing, Torn} \cup [is : {"page"}, by : Fetchers, day : Nat, class : PageClasses]
FetchStates ==
    [pc : {"idle", "provider", "retry", "judge", "put", "done", "raised", "dead"},
     hits : SUBSET Pages, pages : Seq(Pages), errors : SUBSET Errors, rows : Seq(Pages),
     left : Nat, on : Nat]

PageTypes == today \in Nat /\ file \in [Asked -> Files] /\ fetch \in [Fetchers -> FetchStates]

\* Every page has a URL of its own; the ones that were fetched or hit keep their order.
InLine(s) ==
    \A i, j \in 1..Len(s) :
        i < j => /\ s[i].url # s[j].url
                 /\ {s[i].via, s[j].via} \subseteq Split => Earlier(s[i].url, s[j].url)

UrlsOf(s) == {s[i].url : i \in 1..Len(s)}

\* Nothing was judged before the retry is over; a hit is not asked for again.
BeforeJudge(f) ==
    /\ f.pc \in {"idle", "provider", "retry", "raised", "dead"} =>
          f.rows = << >> /\ \A e \in f.errors : e.class # "verdict"
    /\ f.pc = "provider" => f.errors = {} /\ \A p \in f.hits : p.url \notin UrlsOf(f.pages)
    /\ f.pc = "put" => f.pages # << >> /\ Cacheable(f.pages[1])
    /\ f.pc \in {"idle", "raised", "dead"} => f.errors = {} /\ f.pages = << >> /\ f.hits = {}

\* An error that could be recovered is of a URL without a page or a verdict; what was
\* rejected has no page.
ErrorsApart(f) ==
    \A e \in f.errors :
        /\ e.class = "verdict" => e.url \notin UrlsOf(f.rows \o f.pages)
        /\ e.class # "verdict" /\ ~e.recovered =>
             /\ e.url \notin UrlsOf(f.rows \o f.pages)
             /\ \A x \in f.errors : x.class = "verdict" => x.url # e.url

GoodHit(f, p) == p.via = "cache" => p.class = "ok" /\ f.on <= p.day + Ttl

HitsGood(f) ==
    /\ \A p \in f.hits : p.via = "cache" /\ GoodHit(f, p)
    /\ \A i \in 1..Len(f.pages) : GoodHit(f, f.pages[i])
    /\ \A i \in 1..Len(f.rows) : GoodHit(f, f.rows[i])

FetchHolds(f) ==
    /\ BeforeJudge(f) /\ HitsGood(f)
    /\ f.pc # "provider" => InLine(f.rows \o f.pages) /\ ErrorsApart(f)

\* A page in the cache is good, and evidence of the run that left it there.
FilesHold ==
    \A u \in Asked : file[u].is = "page" =>
        /\ file[u].class = "ok" /\ file[u].day <= today
        /\ u \in UrlsOf(fetch[file[u].by].rows) \/ fetch[file[u].by].pc = "dead"

PageInv == PageTypes /\ FilesHold /\ \A r \in Fetchers : FetchHolds(fetch[r])

-----------------------------------------------------------------------------
(* Sequences of pages.                                                      *)

LEMMA RecordShift ==
    ASSUME NEW rows \in Seq(Pages), NEW queue \in Seq(Pages), queue # << >>
    PROVE  /\ Head(queue) \in Pages /\ Head(queue) = queue[1]
           /\ Tail(queue) \in Seq(Pages) /\ Append(rows, Head(queue)) \in Seq(Pages)
           /\ Append(rows, Head(queue)) \o Tail(queue) = rows \o queue
           /\ \A i \in 1..Len(Tail(queue)) : i + 1 \in 1..Len(queue) /\ Tail(queue)[i] = queue[i + 1]
  OBVIOUS

\* A sequence of pages without one of them.
LEMMA DropHead ==
    ASSUME NEW rows \in Seq(Pages), NEW queue \in Seq(Pages), queue # << >>,
           InLine(rows \o queue)
    PROVE  /\ InLine(rows \o Tail(queue))
           /\ UrlsOf(rows \o Tail(queue)) \subseteq UrlsOf(rows \o queue)
           /\ Head(queue).url \in UrlsOf(rows \o queue)
           /\ Head(queue).url \notin UrlsOf(rows \o Tail(queue))
<1>0. rows \o queue \in Seq(Pages) /\ rows \o Tail(queue) \in Seq(Pages)
    BY RecordShift
<1>1. PICK s : s = rows \o queue
    OBVIOUS
<1>2. PICK t : t = rows \o Tail(queue)
    OBVIOUS
<1> DEFINE k == Len(rows) + 1
           Was(i) == IF i < k THEN i ELSE i + 1
<1>3. /\ Len(t) = Len(s) - 1 /\ Len(s) \in Nat /\ k \in 1..Len(s) /\ s[k] = Head(queue)
      /\ \A i \in 1..Len(t) : Was(i) \in 1..Len(s) /\ t[i] = s[Was(i)] /\ Was(i) # k
    BY <1>1, <1>2
<1>4. \A i, j \in 1..Len(t) : i < j => Was(i) < Was(j)
    BY <1>3
<1> HIDE DEF k, Was
<1>5. InLine(t)
  <2> SUFFICES ASSUME NEW i \in 1..Len(t), NEW j \in 1..Len(t), i < j
               PROVE  /\ t[i].url # t[j].url
                      /\ {t[i].via, t[j].via} \subseteq Split => Earlier(t[i].url, t[j].url)
      BY DEF InLine
  <2>1. Was(i) \in 1..Len(s) /\ Was(j) \in 1..Len(s) /\ Was(i) < Was(j)
      BY <1>3, <1>4
  <2>2. t[i] = s[Was(i)] /\ t[j] = s[Was(j)]
      BY <1>3
  <2>3. InLine(s)
      BY <1>1
  <2> QED BY <2>1, <2>2, <2>3 DEF InLine
<1>6. UrlsOf(t) \subseteq UrlsOf(s) /\ s[k].url \in UrlsOf(s)
    BY <1>3 DEF UrlsOf
<1>7. s[k].url \notin UrlsOf(t)
  <2> SUFFICES ASSUME NEW i \in 1..Len(t), t[i].url = s[k].url PROVE FALSE
      BY DEF UrlsOf
  <2>1. Was(i) < k \/ k < Was(i)
    <3>1. Was(i) \in Int /\ k \in Int /\ Was(i) # k
        BY <1>3
    <3> QED BY <3>1
  <2>2. /\ Was(i) \in 1..Len(s) /\ k \in 1..Len(s)
        /\ s[Was(i)].url = s[k].url
      BY <1>3
  <2>3. \A m, n \in 1..Len(s) : m < n => s[m].url # s[n].url
      BY <1>1 DEF InLine
  <2> QED BY <2>1, <2>2, <2>3
<1> QED BY <1>1, <1>2, <1>3, <1>5, <1>6, <1>7

\* More pages at the end, of URLs that are not there yet and without an order to keep.
LEMMA MorePages ==
    ASSUME NEW s \in Seq(Pages), NEW t \in Seq(Pages), InLine(s), InLine(t),
           \A j \in 1..Len(t) : t[j].via \notin Split /\ t[j].url \notin UrlsOf(s)
    PROVE  s \o t \in Seq(Pages) /\ InLine(s \o t) /\ UrlsOf(s \o t) = UrlsOf(s) \cup UrlsOf(t)
<1>0. s \o t \in Seq(Pages)
    OBVIOUS
<1>1. PICK w : w = s \o t
    OBVIOUS
<1>2. /\ Len(w) = Len(s) + Len(t) /\ Len(s) \in Nat /\ Len(t) \in Nat
      /\ \A i \in 1..Len(s) : i \in 1..Len(w) /\ w[i] = s[i]
      /\ \A j \in 1..Len(t) : Len(s) + j \in 1..Len(w) /\ w[Len(s) + j] = t[j]
      /\ \A i \in 1..Len(w) : i \in 1..Len(s) \/ (i - Len(s) \in 1..Len(t) /\ w[i] = t[i - Len(s)])
    BY <1>1
<1>3. InLine(w)
  <2> SUFFICES ASSUME NEW i \in 1..Len(w), NEW j \in 1..Len(w), i < j
               PROVE  /\ w[i].url # w[j].url
                      /\ {w[i].via, w[j].via} \subseteq Split => Earlier(w[i].url, w[j].url)
      BY DEF InLine
  <2>1. CASE j \in 1..Len(s)
    <3>1. i \in 1..Len(s)
        BY <1>2, <2>1
    <3> QED BY <1>2, <2>1, <3>1 DEF InLine
  <2>2. CASE j \notin 1..Len(s)
    <3>1. j - Len(s) \in 1..Len(t) /\ w[j] = t[j - Len(s)]
        BY <1>2, <2>2
    <3>2. w[j].via \notin Split /\ w[j].url \notin UrlsOf(s)
        BY <3>1
    <3>3. CASE i \in 1..Len(s)
        BY <1>2, <3>2, <3>3 DEF UrlsOf
    <3>4. CASE i \notin 1..Len(s)
      <4>1. i - Len(s) \in 1..Len(t) /\ w[i] = t[i - Len(s)] /\ i - Len(s) < j - Len(s)
          BY <1>2, <3>4
      <4> QED BY <3>1, <3>2, <4>1 DEF InLine
    <3> QED BY <3>3, <3>4
  <2> QED BY <2>1, <2>2
<1>4. UrlsOf(w) = UrlsOf(s) \cup UrlsOf(t)
  <2>1. UrlsOf(w) \subseteq UrlsOf(s) \cup UrlsOf(t)
      BY <1>2 DEF UrlsOf
  <2>2. UrlsOf(s) \subseteq UrlsOf(w) /\ UrlsOf(t) \subseteq UrlsOf(w)
      BY <1>2 DEF UrlsOf
  <2> QED BY <2>1, <2>2
<1> QED BY <1>0, <1>1, <1>3, <1>4

\* A function on 1..m is a sequence.
LEMMA FunctionSeq ==
    ASSUME NEW S, NEW m \in Nat, NEW s \in [1..m -> S]
    PROVE  s \in Seq(S) /\ Len(s) = m
  OBVIOUS

\* The first elements of a sequence.
LEMMA UpToHolds ==
    ASSUME NEW s \in Seq(Asked), NEW n \in Nat
    PROVE  /\ UpTo(n, s) \in Seq(Asked) /\ Len(UpTo(n, s)) <= n
           /\ \A i \in 1..Len(UpTo(n, s)) : i \in 1..Len(s) /\ UpTo(n, s)[i] = s[i]
  BY DEF UpTo

\* The pages made of URLs in turn are in line.
LEMMA PagesInTurn ==
    ASSUME NEW S, NEW urls, InTurn(urls, S), NEW s \in Seq(Pages), Len(s) = Len(urls),
           \A i \in 1..Len(s) : s[i].url = urls[i]
    PROVE  InLine(s) /\ UrlsOf(s) \subseteq S
  BY DEF InTurn, InLine, UrlsOf

\* A fetch() moves on, and may have emptied a file or left a page of its own in it.
LEMMA StepHolds ==
    ASSUME PageInv, NEW r \in Fetchers, NEW n \in FetchStates, Moves(r, n), FetchHolds(n),
           UrlsOf(fetch[r].rows) \subseteq UrlsOf(n.rows) \/ n.pc = "dead", fetch[r].pc # "dead",
           UNCHANGED today, file' \in [Asked -> Files],
           \A u \in Asked : \/ file'[u] = file[u]
                            \/ file'[u] = Torn
                            \/ file'[u] = Entry(r, "ok") /\ u \in UrlsOf(n.rows)
    PROVE  PageInv'
<1>1. /\ fetch' \in [Fetchers -> FetchStates] /\ fetch'[r] = n
      /\ \A s \in Fetchers \ {r} : fetch'[s] = fetch[s]
    BY DEF Moves, PageInv, PageTypes
<1>2. PageTypes'
    BY <1>1 DEF PageInv, PageTypes
<1>3. \A s \in Fetchers : FetchHolds(fetch'[s])
    BY <1>1 DEF PageInv
<1>4. FilesHold'
  <2> SUFFICES ASSUME NEW u \in Asked, file'[u].is = "page"
               PROVE  /\ file'[u].class = "ok" /\ file'[u].day <= today
                      /\ \/ u \in UrlsOf(fetch'[file'[u].by].rows)
                         \/ fetch'[file'[u].by].pc = "dead"
      BY DEF FilesHold
  <2>1. CASE file'[u] = file[u]
    <3>1. /\ file[u].class = "ok" /\ file[u].day <= today
          /\ u \in UrlsOf(fetch[file[u].by].rows) \/ fetch[file[u].by].pc = "dead"
        BY <2>1 DEF PageInv, FilesHold
    <3>2. file[u].by \in Fetchers
        BY <2>1 DEF PageInv, PageTypes, Files, Missing, Torn
    <3> QED BY <1>1, <2>1, <3>1, <3>2
  <2>2. CASE file'[u] = Torn
      BY <2>2 DEF Torn
  <2>3. CASE file'[u] = Entry(r, "ok") /\ u \in UrlsOf(n.rows)
    <3>1. file'[u].class = "ok" /\ file'[u].day = today /\ file'[u].by = r
        BY <2>3 DEF Entry
    <3>2. today \in Nat
        BY DEF PageInv, PageTypes
    <3> QED BY <1>1, <2>3, <3>1, <3>2
  <2> QED BY <2>1, <2>2, <2>3
<1> QED BY <1>2, <1>3, <1>4 DEF PageInv

\* A fetch() moves on and leaves the files alone.
LEMMA MoveHolds ==
    ASSUME PageInv, NEW r \in Fetchers, NEW n \in FetchStates, Moves(r, n), FetchHolds(n),
           UrlsOf(fetch[r].rows) \subseteq UrlsOf(n.rows) \/ n.pc = "dead", fetch[r].pc # "dead",
           UNCHANGED <<today, file>>
    PROVE  PageInv'
<1>1. file' \in [Asked -> Files] /\ \A u \in Asked : file'[u] = file[u]
    BY DEF PageInv, PageTypes
<1> QED BY <1>1, StepHolds

\* A fetch() that has nothing yet, or nothing any more.
LEMMA EmptyHolds ==
    ASSUME NEW n \in FetchStates, n.pc \in {"idle", "raised", "dead"}, n.rows = << >>, n.pages = << >>,
           n.errors = {}, n.hits = {}
    PROVE  FetchHolds(n)
<1>1. n.rows \o n.pages = << >> /\ Len(n.pages) = 0 /\ Len(n.rows) = 0
    OBVIOUS
<1>2. InLine(n.rows \o n.pages) /\ ErrorsApart(n)
    BY <1>1 DEF InLine, ErrorsApart
<1>3. BeforeJudge(n)
    BY DEF BeforeJudge
<1>4. HitsGood(n)
    BY <1>1 DEF HitsGood
<1> QED BY <1>2, <1>3, <1>4 DEF FetchHolds

\* The states without anything are states.
LEMMA IdleType ==
    /\ Idle \in FetchStates /\ [Idle EXCEPT !.pc = "raised"] \in FetchStates
    /\ [Idle EXCEPT !.pc = "dead"] \in FetchStates
<1>1. /\ FetchLeft \in Nat /\ 0 \in Nat /\ {} \in SUBSET Pages /\ {} \in SUBSET Errors
      /\ << >> \in Seq(Pages)
    BY PageFetchAssumption
<1>2. \A pc \in {"idle", "raised", "dead"} :
         [pc |-> pc, hits |-> {}, pages |-> << >>, errors |-> {}, rows |-> << >>,
          left |-> FetchLeft, on |-> 0] \in FetchStates
    BY <1>1 DEF FetchStates
<1>3. \A f \in FetchStates : /\ [f EXCEPT !.pc = "raised"] \in FetchStates
                             /\ [f EXCEPT !.pc = "dead"] \in FetchStates
    BY DEF FetchStates
<1>4. Idle \in FetchStates
    BY <1>2 DEF Idle
<1> QED BY <1>3, <1>4

\* What is known of the state of a fetch().
LEMMA FetchType ==
    ASSUME PageInv, NEW r \in Fetchers
    PROVE  /\ fetch[r] \in FetchStates /\ FetchHolds(fetch[r])
           /\ fetch[r].hits \in SUBSET Pages /\ fetch[r].pages \in Seq(Pages)
           /\ fetch[r].errors \in SUBSET Errors /\ fetch[r].rows \in Seq(Pages)
           /\ fetch[r].left \in Nat /\ fetch[r].on \in Nat
           /\ today \in Nat /\ file \in [Asked -> Files]
<1>1. fetch[r] \in FetchStates /\ FetchHolds(fetch[r]) /\ today \in Nat /\ file \in [Asked -> Files]
    BY DEF PageInv, PageTypes
<1> QED BY <1>1 DEF FetchStates

\* The look into the cache keeps the invariant.
LEMMA LookHolds == ASSUME PageInv, NEW r \in Fetchers, Look(r) PROVE PageInv'
<1>1. /\ fetch[r].pc = "idle" /\ UNCHANGED <<today, file>> /\ fetch[r].rows = << >>
      /\ UrlsOf(fetch[r].rows) = {}
  <2>1. fetch[r].pc = "idle" /\ UNCHANGED <<today, file>>
      BY DEF Look
  <2>2. fetch[r].rows = << >>
      BY <2>1, FetchType DEF FetchHolds, BeforeJudge
  <2> QED BY <2>1, <2>2 DEF UrlsOf
<1>11. PICK hits : hits = CachedPages
    OBVIOUS
<1>12. PICK misses : misses = PutInOrder(Asked \ {p.url : p \in hits})
    OBVIOUS
<1>13. PICK taken : taken = UpTo(FetchLeft, misses)
    OBVIOUS
<1>14. PICK queue : queue = [i \in DOMAIN taken |-> Page(taken[i], "live", "ok", today)]
    OBVIOUS
<1>2. \/ Moves(r, [Idle EXCEPT !.pc = "raised"])
      \/ Moves(r, [Idle EXCEPT !.pc = "provider", !.on = today, !.hits = hits,
                               !.left = @ - Len(taken), !.pages = queue])
    BY <1>11, <1>12, <1>13, <1>14 DEF Look
<1>3. CASE Moves(r, [Idle EXCEPT !.pc = "raised"])
  <2> PICK n : n = [Idle EXCEPT !.pc = "raised"]
      OBVIOUS
  <2>1. n \in FetchStates
      BY IdleType
  <2>2. n.pc = "raised" /\ n.rows = << >> /\ n.pages = << >> /\ n.errors = {} /\ n.hits = {}
      BY DEF Idle
  <2>3. FetchHolds(n)
    <3>1. n.pc \in {"idle", "raised", "dead"}
        BY <2>2
    <3> QED BY <2>1, <2>2, <3>1, EmptyHolds
  <2> QED BY <1>1, <1>3, <2>1, <2>3, MoveHolds
<1>4. CASE Moves(r, [Idle EXCEPT !.pc = "provider", !.on = today, !.hits = hits,
                                 !.left = @ - Len(taken), !.pages = queue])
  <2>1. \A p \in hits : p \in Pages /\ p.via = "cache" /\ p.class = "ok" /\ today <= p.day + Ttl
    <3> SUFFICES ASSUME NEW p \in hits
                 PROVE  p \in Pages /\ p.via = "cache" /\ p.class = "ok" /\ today <= p.day + Ttl
        OBVIOUS
    <3>1. PICK u \in Asked : Readable(u) /\ p = Page(u, "cache", file[u].class, file[u].day)
        BY <1>11 DEF CachedPages
    <3>2. file[u].is = "page" /\ file[u].day \in Nat /\ file[u].class \in PageClasses
        BY <3>1, FetchType DEF Readable, Files, Missing, Torn
    <3>3. file[u].class = "ok" /\ file[u].day <= today
        BY <3>2 DEF PageInv, FilesHold
    <3>4. today <= file[u].day + Ttl
        BY <3>1, <3>2, <3>3, FetchType, PageFetchAssumption DEF Readable
    <3>5. p.url = u /\ p.via = "cache" /\ p.class = file[u].class /\ p.day = file[u].day
        BY <3>1 DEF Page
    <3>6. p \in Pages
      <4>1. "cache" \in Vias
          BY DEF Vias
      <4> QED BY <3>1, <3>2, <4>1 DEF Page, Pages
    <3> QED BY <3>3, <3>4, <3>5, <3>6
  <2>2. InTurn(misses, Asked \ {p.url : p \in hits})
      BY <1>12, PutInOrderHolds
  <2>3. /\ taken \in Seq(Asked) /\ Len(taken) <= FetchLeft /\ Len(taken) \in Nat
        /\ \A i \in 1..Len(taken) : taken[i] \notin {p.url : p \in hits}
    <3>1. misses \in Seq(Asked) /\ \A i \in 1..Len(misses) : misses[i] \notin {p.url : p \in hits}
        BY <2>2 DEF InTurn
    <3>2. FetchLeft \in Nat
        BY PageFetchAssumption
    <3>3. /\ taken \in Seq(Asked) /\ Len(taken) <= FetchLeft
          /\ \A i \in 1..Len(taken) : i \in 1..Len(misses) /\ taken[i] = misses[i]
        BY <1>13, <3>1, <3>2, UpToHolds
    <3>4. \A i \in 1..Len(taken) : taken[i] \notin {p.url : p \in hits}
        BY <3>1, <3>3
    <3>5. Len(taken) \in Nat
        BY <3>3
    <3> QED BY <3>3, <3>4, <3>5
  <2>4. /\ queue \in Seq(Pages) /\ Len(queue) = Len(taken)
        /\ \A i \in 1..Len(queue) : queue[i].url = taken[i] /\ queue[i].via = "live"
    <3>1. \A i \in 1..Len(taken) : Page(taken[i], "live", "ok", today) \in Pages
      <4>1. "live" \in Vias /\ "ok" \in PageClasses /\ today \in Nat
          BY FetchType DEF Vias, PageClasses
      <4> QED BY <2>3, <4>1 DEF Page, Pages
    <3>2. DOMAIN taken = 1..Len(taken)
        BY <2>3
    <3>3. queue \in [1..Len(taken) -> Pages]
        BY <1>14, <3>1, <3>2
    <3>4. queue \in Seq(Pages) /\ Len(queue) = Len(taken)
        BY <2>3, <3>3, FunctionSeq
    <3> QED BY <1>14, <3>2, <3>4 DEF Page
  <2> PICK n : n = [Idle EXCEPT !.pc = "provider", !.on = today, !.hits = hits,
                                !.left = @ - Len(taken), !.pages = queue]
      OBVIOUS
  <2>5. /\ n.pc = "provider" /\ n.on = today /\ n.hits = hits /\ n.pages = queue
        /\ n.errors = {} /\ n.rows = << >>
      BY DEF Idle
  <2>6. n \in FetchStates
    <3>1. FetchLeft - Len(taken) \in Nat
        BY <2>3, PageFetchAssumption
    <3>2. hits \in SUBSET Pages /\ today \in Nat
        BY <2>1, FetchType
    <3>3. {} \in SUBSET Errors /\ << >> \in Seq(Pages) /\ queue \in Seq(Pages)
        BY <2>4
    <3>4. [pc |-> "provider", hits |-> hits, pages |-> queue, errors |-> {}, rows |-> << >>,
           left |-> FetchLeft - Len(taken), on |-> today] \in FetchStates
        BY <3>1, <3>2, <3>3 DEF FetchStates
    <3>5. n = [pc |-> "provider", hits |-> hits, pages |-> queue, errors |-> {}, rows |-> << >>,
               left |-> FetchLeft - Len(taken), on |-> today]
        BY DEF Idle
    <3> QED BY <3>4, <3>5
  <2>7. \A p \in n.hits : p.url \notin UrlsOf(n.pages)
    <3>1. ASSUME NEW p \in hits, NEW i \in 1..Len(queue) PROVE p.url # queue[i].url
      <4>1. i \in 1..Len(taken) /\ queue[i].url = taken[i]
          BY <2>4
      <4> QED BY <2>3, <4>1
    <3>2. \A p \in hits : p.url \notin UrlsOf(queue)
        BY <3>1 DEF UrlsOf
    <3> QED BY <2>5, <3>2
  <2>8. BeforeJudge(n)
      BY <2>5, <2>7 DEF BeforeJudge
  <2>9. HitsGood(n)
    <3>1. \A i \in 1..Len(n.rows) : GoodHit(n, n.rows[i])
        BY <2>5
    <3>2. \A i \in 1..Len(n.pages) : GoodHit(n, n.pages[i])
        BY <2>4, <2>5 DEF GoodHit
    <3>3. \A p \in n.hits : p.via = "cache" /\ GoodHit(n, p)
        BY <2>1, <2>5 DEF GoodHit
    <3> QED BY <3>1, <3>2, <3>3 DEF HitsGood
  <2>10. FetchHolds(n)
      BY <2>5, <2>8, <2>9 DEF FetchHolds
  <2> QED BY <1>1, <1>4, <2>6, <2>10, MoveHolds
<1> QED BY <1>2, <1>3, <1>4

\* The URLs of a sequence, as the model names them.
LEMMA UrlsOfSeq ==
    ASSUME NEW s \in Seq(Pages)
    PROVE  {p.url : p \in SetOf(s)} = UrlsOf(s) /\ SetOf(s) \subseteq Pages
  BY DEF SetOf, UrlsOf

\* The answer of the provider keeps it.
LEMMA ProvidedHolds ==
    ASSUME PageInv, NEW r \in Fetchers, NEW replies \in [Asked -> PageClasses \cup ErrorClasses],
           Provided(r, replies)
    PROVE  PageInv'
<1>21. PICK f : f = fetch[r]
    OBVIOUS
<1>1. /\ f \in FetchStates /\ FetchHolds(f) /\ f.hits \in SUBSET Pages /\ f.pages \in Seq(Pages)
      /\ f.errors \in SUBSET Errors /\ f.rows \in Seq(Pages) /\ f.on \in Nat /\ today \in Nat
    BY <1>21, FetchType
<1>2. f.pc = "provider" /\ f.rows = << >> /\ UNCHANGED <<today, file>>
    BY <1>1, <1>21 DEF Provided, FetchHolds, BeforeJudge
<1>22. PICK urls : urls = {p.url : p \in SetOf(f.pages)}
    OBVIOUS
<1>23. PICK live : live = {Page(u, "live", replies[u], today) : u \in {v \in urls : replies[v] \in PageClasses}}
    OBVIOUS
<1>24. PICK queue : queue = InRequestOrder(f.hits, live)
    OBVIOUS
<1>25. PICK errors : errors = {Failure(u, replies[u]) : u \in {v \in urls : replies[v] \in ErrorClasses}}
    OBVIOUS
<1>26. PICK n : n = [f EXCEPT !.pc = "retry", !.hits = {}, !.pages = queue, !.errors = errors]
    OBVIOUS
<1>3. Moves(r, n)
    BY <1>21, <1>22, <1>23, <1>24, <1>25, <1>26 DEF Provided
<1>4. urls = UrlsOf(f.pages) /\ urls \subseteq Asked
    BY <1>1, <1>22, UrlsOfSeq DEF UrlsOf, Pages
<1>5. \A p \in live : p \in Pages /\ p.via = "live" /\ p.url \in urls /\ replies[p.url] \in PageClasses
  <2> SUFFICES ASSUME NEW u \in urls, replies[u] \in PageClasses, NEW p, p = Page(u, "live", replies[u], today)
               PROVE  p \in Pages /\ p.via = "live" /\ p.url = u
      BY <1>23
  <2>1. "live" \in Vias /\ u \in Asked
      BY <1>4 DEF Vias
  <2> QED BY <1>1, <2>1 DEF Page, Pages
<1>27. PICK all : all = f.hits \cup live
    OBVIOUS
<1>28. PICK wanted : wanted = {p.url : p \in all}
    OBVIOUS
<1>29. PICK order : order = PutInOrder(wanted)
    OBVIOUS
<1>6. InTurn(order, wanted)
    BY <1>29, PutInOrderHolds
<1>7. /\ queue \in Seq(Pages) /\ Len(queue) = Len(order)
      /\ \A i \in 1..Len(queue) : queue[i] \in all /\ queue[i].url = order[i]
  <2>1. \A i \in 1..Len(order) : \E p \in all : p.url = order[i]
      BY <1>6, <1>28 DEF InTurn
  <2> DEFINE pick(i) == CHOOSE p \in all : p.url = order[i]
  <2>2. \A i \in 1..Len(order) : pick(i) \in all /\ pick(i).url = order[i]
      BY <2>1
  <2>3. DOMAIN order = 1..Len(order) /\ Len(order) \in Nat
    <3>1. order \in Seq(Asked)
        BY <1>6 DEF InTurn
    <3> QED BY <3>1
  <2>4. queue = [i \in 1..Len(order) |-> pick(i)]
      BY <1>24, <1>27, <1>28, <1>29, <2>3 DEF InRequestOrder
  <2>5. all \subseteq Pages
      BY <1>1, <1>5, <1>27
  <2> HIDE DEF pick
  <2>6. queue \in [1..Len(order) -> Pages]
      BY <2>2, <2>4, <2>5
  <2>7. queue \in Seq(Pages) /\ Len(queue) = Len(order)
      BY <2>3, <2>6, FunctionSeq
  <2>8. \A i \in 1..Len(order) : queue[i] = pick(i)
      BY <2>4
  <2> QED BY <2>2, <2>7, <2>8
<1>8. InLine(queue) /\ UrlsOf(queue) \subseteq wanted
    BY <1>6, <1>7, PagesInTurn
<1>9. \A e \in errors : /\ e \in Errors /\ e.class # "verdict" /\ e.url \in urls
                        /\ replies[e.url] \in ErrorClasses
  <2> SUFFICES ASSUME NEW u \in urls, replies[u] \in ErrorClasses, NEW e, e = Failure(u, replies[u])
               PROVE  e \in Errors /\ e.class # "verdict" /\ e.url = u
      BY <1>25
  <2>1. e.class = replies[u] /\ e.url = u /\ replies[u] # "verdict"
      BY DEF Failure, ErrorClasses
  <2>2. e \in Errors
      BY <1>4 DEF Failure, Errors
  <2> QED BY <2>1, <2>2
<1>10. \A e \in errors : e.url \notin UrlsOf(queue)
  <2> SUFFICES ASSUME NEW e \in errors, e.url \in wanted PROVE FALSE
      BY <1>8
  <2>1. PICK p \in all : p.url = e.url
      BY <1>28
  <2>2. CASE p \in f.hits
      BY <1>1, <1>2, <1>4, <1>9, <2>1, <2>2 DEF FetchHolds, BeforeJudge
  <2>3. CASE p \in live
    <3>1. replies[e.url] \in PageClasses /\ replies[e.url] \in ErrorClasses
        BY <1>5, <1>9, <2>1, <2>3
    <3> QED BY <3>1 DEF PageClasses, ErrorClasses
  <2> QED BY <1>27, <2>1, <2>2, <2>3
<1>11. /\ n.pc = "retry" /\ n.hits = {} /\ n.pages = queue /\ n.errors = errors
       /\ n.rows = << >> /\ n.on = f.on
    BY <1>1, <1>2, <1>26 DEF FetchStates
<1>12. n \in FetchStates
  <2>1. errors \in SUBSET Errors /\ {} \in SUBSET Pages /\ queue \in Seq(Pages)
      BY <1>7, <1>9
  <2> QED BY <1>1, <1>26, <2>1 DEF FetchStates
<1>13. n.rows \o n.pages = queue
  <2>1. queue \in Seq(Pages)
      BY <1>7
  <2>2. << >> \o queue = queue
      BY <2>1
  <2> QED BY <1>11, <2>2
<1>14. BeforeJudge(n) /\ ErrorsApart(n)
  <2>1. BeforeJudge(n)
      BY <1>9, <1>11 DEF BeforeJudge
  <2>2. ErrorsApart(n)
      BY <1>9, <1>10, <1>11, <1>13 DEF ErrorsApart
  <2> QED BY <2>1, <2>2
<1>15. HitsGood(n)
  <2>1. \A p \in all : GoodHit(n, p)
    <3>1. \A p \in f.hits : GoodHit(f, p)
        BY <1>1 DEF FetchHolds, HitsGood
    <3> QED BY <1>5, <1>11, <1>27, <3>1 DEF GoodHit
  <2>2. \A i \in 1..Len(n.rows) : GoodHit(n, n.rows[i])
      BY <1>11
  <2>3. \A i \in 1..Len(n.pages) : GoodHit(n, n.pages[i])
      BY <1>7, <1>11, <2>1
  <2> QED BY <1>11, <2>2, <2>3 DEF HitsGood
<1>16. FetchHolds(n)
    BY <1>8, <1>11, <1>13, <1>14, <1>15 DEF FetchHolds
<1>17. UrlsOf(fetch[r].rows) \subseteq UrlsOf(n.rows) /\ fetch[r].pc # "dead"
    BY <1>2, <1>11, <1>21
<1> QED BY <1>2, <1>3, <1>12, <1>16, <1>17, MoveHolds

\* What happens to the errors when the URLs in found are recovered.
Recovered(errors, found) == {[e EXCEPT !.recovered = @ \/ e.url \in found] : e \in errors}

\* An error keeps its URL and class, and is recovered if its URL was found.
LEMMA RecoveredHolds ==
    ASSUME NEW errors \in SUBSET Errors, NEW found
    PROVE  \A x \in Recovered(errors, found) :
             /\ x \in Errors
             /\ \E e \in errors : /\ x.url = e.url /\ x.class = e.class
                                  /\ ~x.recovered => ~e.recovered /\ e.url \notin found
<1>1. ASSUME NEW e \in errors, NEW x, x = [e EXCEPT !.recovered = @ \/ e.url \in found]
      PROVE  /\ x \in Errors /\ x.url = e.url /\ x.class = e.class
             /\ ~x.recovered => ~e.recovered /\ e.url \notin found
  <2>1. PICK b \in BOOLEAN : b = (e.recovered \/ e.url \in found)
      OBVIOUS
  <2>2. e \in Errors
      OBVIOUS
  <2>3. /\ [e EXCEPT !.recovered = b] \in Errors
        /\ [e EXCEPT !.recovered = b].url = e.url /\ [e EXCEPT !.recovered = b].class = e.class
        /\ [e EXCEPT !.recovered = b].recovered = b
      BY <2>2 DEF Errors
  <2>4. e.recovered \in BOOLEAN
      BY <2>2 DEF Errors
  <2> QED BY <1>1, <2>1, <2>3, <2>4
<1>2. \A x \in Recovered(errors, found) :
         \E e \in errors : x = [e EXCEPT !.recovered = @ \/ e.url \in found]
    BY DEF Recovered
<1> QED BY <1>1, <1>2

\* Pages that the fallback or the archive has for the URLs in urls.
LEMMA PagesFor ==
    ASSUME NEW S, NEW urls, InTurn(urls, S), NEW via \in {"fallback", "archive"}, today \in Nat,
           NEW s, s = [i \in DOMAIN urls |-> Page(urls[i], via, "ok", today)]
    PROVE  /\ s \in Seq(Pages) /\ InLine(s) /\ UrlsOf(s) \subseteq S
           /\ \A i \in 1..Len(s) : s[i].via = via /\ s[i].url \in S
<1>1. urls \in Seq(Asked) /\ \A i \in 1..Len(urls) : urls[i] \in S
    BY DEF InTurn
<1>2. DOMAIN urls = 1..Len(urls) /\ Len(urls) \in Nat
    BY <1>1
<1>3. \A i \in 1..Len(urls) : Page(urls[i], via, "ok", today) \in Pages
  <2>1. via \in Vias /\ "ok" \in PageClasses
      BY DEF Vias, PageClasses
  <2> QED BY <1>1, <2>1 DEF Page, Pages
<1>4. s \in [1..Len(urls) -> Pages]
    BY <1>2, <1>3
<1>5. s \in Seq(Pages) /\ Len(s) = Len(urls)
    BY <1>2, <1>4, FunctionSeq
<1>6. \A i \in 1..Len(s) : s[i].url = urls[i] /\ s[i].via = via
    BY <1>2, <1>5 DEF Page
<1>7. InLine(s) /\ UrlsOf(s) \subseteq S
    BY <1>5, <1>6, PagesInTurn
<1>8. \A i \in 1..Len(s) : s[i].url \in S
    BY <1>1, <1>5, <1>6
<1> QED BY <1>5, <1>6, <1>7, <1>8

\* The second attempt keeps the invariant.
LEMMA RetryHolds == ASSUME PageInv, NEW r \in Fetchers, Retry(r) PROVE PageInv'
<1>1. PICK f : f = fetch[r]
    OBVIOUS
<1>2. /\ f \in FetchStates /\ FetchHolds(f) /\ f.hits \in SUBSET Pages /\ f.pages \in Seq(Pages)
      /\ f.errors \in SUBSET Errors /\ f.rows \in Seq(Pages) /\ f.on \in Nat /\ today \in Nat
      /\ f.left \in Nat
    BY <1>1, FetchType
<1>3. f.pc = "retry" /\ UNCHANGED <<today, file>>
    BY <1>1 DEF Retry
<1>4. f.rows = << >> /\ \A e \in f.errors : e.class # "verdict"
    BY <1>2, <1>3 DEF FetchHolds, BeforeJudge
<1>5. f.rows \o f.pages = f.pages
  <2>1. << >> \o f.pages = f.pages
      BY <1>2
  <2> QED BY <1>4, <2>1
<1>6. PICK urls : urls = RetryUrls(f)
    OBVIOUS
<1>7. urls \in Seq(Asked) /\ Len(urls) <= f.left /\ Len(urls) \in Nat
  <2>1. \A S, T : PutInOrder(S) \o PutInOrder(T) \in Seq(Asked)
    <3>1. \A S : PutInOrder(S) \in Seq(Asked)
        BY PutInOrderHolds DEF InTurn
    <3> QED BY <3>1
  <2>2. \A s \in Seq(Asked) : UpTo(MaxFallback, s) \in Seq(Asked)
      BY UpToHolds, PageFetchAssumption
  <2>3. \A s \in Seq(Asked) : UpTo(f.left, s) \in Seq(Asked) /\ Len(UpTo(f.left, s)) <= f.left
      BY <1>2, UpToHolds
  <2>4. urls \in Seq(Asked) /\ Len(urls) <= f.left
      BY <1>6, <2>1, <2>2, <2>3 DEF RetryUrls
  <2> QED BY <2>4
<1>8. PICK found \in SUBSET SetOf(urls) :
         Moves(r, [Retried(f, found) EXCEPT !.pc = "judge", !.left = @ - Len(urls)])
    BY <1>1, <1>6 DEF Retry
<1>9. found \subseteq Asked
    BY <1>7 DEF SetOf
<1>10. PICK inPlace : inPlace = [i \in DOMAIN f.pages |->
                                   IF f.pages[i].url \in found
                                   THEN Page(f.pages[i].url, "fallback", "ok", today)
                                   ELSE f.pages[i]]
    OBVIOUS
<1>11. PICK new : new = PutInOrder(found \ {p.url : p \in SetOf(f.pages)})
    OBVIOUS
<1>12. PICK more : more = [i \in DOMAIN new |-> Page(new[i], "fallback", "ok", today)]
    OBVIOUS
<1>13. PICK n : n = [f EXCEPT !.pages = inPlace \o more, !.errors = Recovered(f.errors, found),
                              !.pc = "judge", !.left = f.left - Len(urls)]
    OBVIOUS
<1>14. Moves(r, n)
  <2>1. Retried(f, found) = [f EXCEPT !.pages = inPlace \o more, !.errors = Recovered(f.errors, found)]
      BY <1>10, <1>11, <1>12 DEF Retried, Recovered
  <2>2. [Retried(f, found) EXCEPT !.pc = "judge", !.left = @ - Len(urls)] = n
      BY <1>2, <1>13, <2>1 DEF FetchStates
  <2> QED BY <1>8, <2>2
<1>15. /\ inPlace \in Seq(Pages) /\ Len(inPlace) = Len(f.pages)
       /\ \A i \in 1..Len(inPlace) :
             inPlace[i].url = f.pages[i].url /\ inPlace[i].via \in {f.pages[i].via, "fallback"}
             /\ (inPlace[i].via = "fallback" \/ inPlace[i] = f.pages[i])
  <2>1. DOMAIN f.pages = 1..Len(f.pages) /\ Len(f.pages) \in Nat
      BY <1>2
  <2>2. \A p \in Pages : Page(p.url, "fallback", "ok", today) \in Pages
    <3>1. "fallback" \in Vias /\ "ok" \in PageClasses
        BY DEF Vias, PageClasses
    <3> QED BY <1>2, <3>1 DEF Page, Pages
  <2>3. \A i \in 1..Len(f.pages) : f.pages[i] \in Pages
      BY <1>2
  <2>4. inPlace \in [1..Len(f.pages) -> Pages]
      BY <1>10, <2>1, <2>2, <2>3
  <2>5. inPlace \in Seq(Pages) /\ Len(inPlace) = Len(f.pages)
      BY <2>1, <2>4, FunctionSeq
  <2>6. \A i \in 1..Len(f.pages) :
          inPlace[i].url = f.pages[i].url /\ inPlace[i].via \in {f.pages[i].via, "fallback"}
          /\ (inPlace[i].via = "fallback" \/ inPlace[i] = f.pages[i])
      BY <1>10, <2>1 DEF Page
  <2> QED BY <2>5, <2>6
<1>16. InLine(inPlace) /\ UrlsOf(inPlace) = UrlsOf(f.pages)
  <2>1. InLine(f.pages)
      BY <1>2, <1>3, <1>5 DEF FetchHolds
  <2>2. "fallback" \notin Split
      BY DEF Split
  <2>3. InLine(inPlace)
    <3> SUFFICES ASSUME NEW i \in 1..Len(inPlace), NEW j \in 1..Len(inPlace), i < j
                 PROVE  /\ inPlace[i].url # inPlace[j].url
                        /\ {inPlace[i].via, inPlace[j].via} \subseteq Split
                              => Earlier(inPlace[i].url, inPlace[j].url)
        BY DEF InLine
    <3>1. /\ f.pages[i].url # f.pages[j].url
          /\ {f.pages[i].via, f.pages[j].via} \subseteq Split
                => Earlier(f.pages[i].url, f.pages[j].url)
        BY <1>15, <2>1 DEF InLine
    <3> QED BY <1>15, <2>2, <3>1
  <2> QED BY <1>15, <2>3 DEF UrlsOf
<1>17. /\ more \in Seq(Pages) /\ InLine(more) /\ UrlsOf(more) \subseteq found
       /\ \A i \in 1..Len(more) : more[i].via = "fallback" /\ more[i].url \notin UrlsOf(f.pages)
  <2>1. InTurn(new, found \ UrlsOf(f.pages))
      BY <1>2, <1>11, PutInOrderHolds, UrlsOfSeq
  <2>2. /\ more \in Seq(Pages) /\ InLine(more) /\ UrlsOf(more) \subseteq found \ UrlsOf(f.pages)
        /\ \A i \in 1..Len(more) : more[i].via = "fallback" /\ more[i].url \in found \ UrlsOf(f.pages)
      BY <1>2, <1>12, <2>1, PagesFor
  <2> QED BY <2>2
<1>18. /\ inPlace \o more \in Seq(Pages) /\ InLine(inPlace \o more)
       /\ UrlsOf(inPlace \o more) \subseteq UrlsOf(f.pages) \cup found
  <2>1. \A j \in 1..Len(more) : more[j].via \notin Split /\ more[j].url \notin UrlsOf(inPlace)
      BY <1>16, <1>17 DEF Split
  <2>2. /\ inPlace \o more \in Seq(Pages) /\ InLine(inPlace \o more)
        /\ UrlsOf(inPlace \o more) = UrlsOf(inPlace) \cup UrlsOf(more)
      BY <1>15, <1>16, <1>17, <2>1, MorePages
  <2> QED BY <1>16, <1>17, <2>2
<1>19. PICK queue \in Seq(Pages) : queue = inPlace \o more
    BY <1>18
<1>20. PICK errors : errors = Recovered(f.errors, found)
    OBVIOUS
<1>21. \A x \in errors :
         /\ x \in Errors
         /\ \E e \in f.errors : /\ x.url = e.url /\ x.class = e.class
                                /\ ~x.recovered => ~e.recovered /\ e.url \notin found
    BY <1>2, <1>20, RecoveredHolds
<1>22. /\ n.pc = "judge" /\ n.pages = queue /\ n.errors = errors /\ n.rows = << >>
       /\ n.on = f.on /\ n.hits = f.hits
    BY <1>2, <1>4, <1>13, <1>19, <1>20 DEF FetchStates
<1>23. n \in FetchStates
  <2>1. f.left - Len(urls) \in Nat /\ errors \in SUBSET Errors
      BY <1>2, <1>7, <1>21
  <2> QED BY <1>2, <1>13, <1>19, <1>20, <2>1 DEF FetchStates
<1>24. n.rows \o n.pages = queue
  <2>1. << >> \o queue = queue
      BY <1>19
  <2> QED BY <1>22, <2>1
<1>25. ErrorsApart(n)
  <2>1. \A e \in f.errors : ~e.recovered => e.url \notin UrlsOf(f.pages)
      BY <1>2, <1>3, <1>4, <1>5 DEF FetchHolds, ErrorsApart
  <2>2. \A x \in errors : x.class # "verdict"
      BY <1>4, <1>21
  <2>3. \A x \in errors : ~x.recovered => x.url \notin UrlsOf(queue)
      BY <1>18, <1>19, <1>21, <2>1
  <2> QED BY <1>22, <1>24, <2>2, <2>3 DEF ErrorsApart
<1>26. HitsGood(n)
  <2>1. HitsGood(f)
      BY <1>2 DEF FetchHolds
  <2>2. \A i \in 1..Len(inPlace) : GoodHit(f, inPlace[i])
      BY <1>15, <2>1 DEF HitsGood, GoodHit
  <2>3. \A i \in 1..Len(more) : GoodHit(f, more[i])
      BY <1>17 DEF GoodHit
  <2>4. \A i \in 1..Len(queue) : GoodHit(f, queue[i])
    <3>1. \A i \in 1..Len(queue) : \/ i \in 1..Len(inPlace) /\ queue[i] = inPlace[i]
                                   \/ i - Len(inPlace) \in 1..Len(more)
                                      /\ queue[i] = more[i - Len(inPlace)]
        BY <1>15, <1>17, <1>19
    <3> QED BY <2>2, <2>3, <3>1
  <2>5. \A i \in 1..Len(n.rows) : GoodHit(n, n.rows[i])
      BY <1>22
  <2> QED BY <1>22, <2>1, <2>4, <2>5 DEF HitsGood, GoodHit
<1>27. FetchHolds(n)
  <2>1. BeforeJudge(n)
      BY <1>22 DEF BeforeJudge
  <2> QED BY <1>18, <1>19, <1>22, <1>24, <1>25, <1>26, <2>1 DEF FetchHolds
<1>28. UrlsOf(fetch[r].rows) \subseteq UrlsOf(n.rows) /\ fetch[r].pc # "dead"
    BY <1>1, <1>3, <1>4, <1>22
<1> QED BY <1>3, <1>14, <1>23, <1>27, <1>28, MoveHolds
\* The page at the head is recorded.
LEMMA RecordedHolds ==
    ASSUME NEW f \in FetchStates, f.pc = "judge", f.pages # << >>, NEW p, p = Head(f.pages),
           HitsGood(f), InLine(f.rows \o f.pages), ErrorsApart(f), NEW n, n = Recorded(f, p)
    PROVE  /\ n \in FetchStates /\ n.pc = "judge" /\ FetchHolds(n)
           /\ UrlsOf(f.rows) \subseteq UrlsOf(n.rows) /\ p.url \in UrlsOf(n.rows)
<1>1. f.pages \in Seq(Pages) /\ f.rows \in Seq(Pages)
    BY DEF FetchStates
<1>2. PICK rows : rows = Append(f.rows, p)
    OBVIOUS
<1>3. PICK queue : queue = Tail(f.pages)
    OBVIOUS
<1>4. /\ p \in Pages /\ p = f.pages[1] /\ rows \in Seq(Pages) /\ queue \in Seq(Pages)
      /\ rows \o queue = f.rows \o f.pages
      /\ \A i \in 1..Len(queue) : i + 1 \in 1..Len(f.pages) /\ queue[i] = f.pages[i + 1]
    BY <1>1, <1>2, <1>3, RecordShift
<1>5. n = [f EXCEPT !.pages = queue, !.rows = rows]
    BY <1>2, <1>3 DEF Recorded, FetchStates
<1>6. /\ n.pc = "judge" /\ n.pages = queue /\ n.errors = f.errors /\ n.rows = rows
      /\ n.on = f.on /\ n.hits = f.hits
    BY <1>5 DEF FetchStates
<1>7. n \in FetchStates
    BY <1>4, <1>5 DEF FetchStates
<1>8. /\ Len(rows) = Len(f.rows) + 1 /\ Len(f.rows) \in Nat /\ rows[Len(f.rows) + 1] = p
      /\ \A i \in 1..Len(f.rows) : rows[i] = f.rows[i]
    BY <1>1, <1>2, <1>4
<1>9. \A i \in 1..Len(rows) : i \in 1..Len(f.rows) \/ i = Len(f.rows) + 1
    BY <1>8
<1>10. HitsGood(n)
  <2>1. 1 \in 1..Len(f.pages)
      BY <1>1
  <2>2. GoodHit(f, p)
      BY <1>4, <2>1 DEF HitsGood
  <2>3. \A i \in 1..Len(rows) : GoodHit(f, rows[i])
      BY <1>8, <1>9, <2>2 DEF HitsGood
  <2>4. \A i \in 1..Len(queue) : GoodHit(f, queue[i])
      BY <1>4 DEF HitsGood
  <2> QED BY <1>6, <2>3, <2>4 DEF HitsGood, GoodHit
<1>11. FetchHolds(n)
  <2>1. BeforeJudge(n)
      BY <1>6 DEF BeforeJudge
  <2>2. InLine(n.rows \o n.pages) /\ ErrorsApart(n)
      BY <1>4, <1>6 DEF ErrorsApart
  <2> QED BY <1>10, <2>1, <2>2 DEF FetchHolds
<1>12. UrlsOf(f.rows) \subseteq UrlsOf(rows) /\ p.url \in UrlsOf(rows)
  <2>1. Len(f.rows) + 1 \in 1..Len(rows) /\ \A i \in 1..Len(f.rows) : i \in 1..Len(rows)
      BY <1>8
  <2> QED BY <1>8, <2>1 DEF UrlsOf
<1> QED BY <1>6, <1>7, <1>11, <1>12

\* The page at the head is rejected, recorded, or about to be written to its file.
LEMMA JudgePageHolds ==
    ASSUME PageInv, NEW r \in Fetchers, NEW verdict, JudgePage(r, verdict) PROVE PageInv'
<1>1. PICK f : f = fetch[r]
    OBVIOUS
<1>2. /\ f \in FetchStates /\ FetchHolds(f) /\ f.hits \in SUBSET Pages /\ f.pages \in Seq(Pages)
      /\ f.errors \in SUBSET Errors /\ f.rows \in Seq(Pages) /\ f.on \in Nat /\ today \in Nat
      /\ f.left \in Nat /\ file \in [Asked -> Files]
    BY <1>1, FetchType
<1>3. PICK p : p = Head(f.pages)
    OBVIOUS
<1>4. f.pc = "judge" /\ f.pages # << >> /\ UNCHANGED today
    BY <1>1 DEF JudgePage
<1>5. \/ Moves(r, Rejected(f, p)) /\ UNCHANGED file
      \/ Moves(r, Recorded(f, p)) /\ UNCHANGED file
      \/ /\ Cacheable(p) /\ Moves(r, [f EXCEPT !.pc = "put"])
         /\ file' = [file EXCEPT ![p.url] = Torn]
    BY <1>1, <1>3 DEF JudgePage
<1>6. HitsGood(f) /\ InLine(f.rows \o f.pages) /\ ErrorsApart(f)
    BY <1>2, <1>4 DEF FetchHolds
<1>7. CASE Moves(r, Rejected(f, p)) /\ UNCHANGED file
  <2>1. PICK n : n = Rejected(f, p)
      OBVIOUS
  <2>2. PICK x : x = Failure(p.url, "verdict")
      OBVIOUS
  <2>3. p \in Pages /\ Tail(f.pages) \in Seq(Pages)
        /\ \A i \in 1..Len(Tail(f.pages)) : i + 1 \in 1..Len(f.pages) /\ Tail(f.pages)[i] = f.pages[i + 1]
      BY <1>2, <1>3, <1>4, RecordShift
  <2>4. x \in Errors /\ x.class = "verdict" /\ x.url = p.url
      BY <2>2, <2>3 DEF Failure, Errors, Pages
  <2>5. PICK errors \in SUBSET Errors : errors = f.errors \cup {x}
      BY <1>2, <2>4
  <2>6. PICK queue \in Seq(Pages) : queue = Tail(f.pages)
      BY <2>3
  <2>7. n = [f EXCEPT !.pages = queue, !.errors = errors]
      BY <1>2, <2>1, <2>2, <2>5, <2>6 DEF Rejected, FetchStates
  <2>8. /\ n.pc = "judge" /\ n.pages = queue /\ n.errors = errors /\ n.rows = f.rows
        /\ n.on = f.on /\ n.hits = f.hits
      BY <1>2, <1>4, <2>7 DEF FetchStates
  <2>9. n \in FetchStates
      BY <1>2, <2>7 DEF FetchStates
  <2>10. /\ InLine(f.rows \o queue) /\ UrlsOf(f.rows \o queue) \subseteq UrlsOf(f.rows \o f.pages)
         /\ p.url \in UrlsOf(f.rows \o f.pages) /\ p.url \notin UrlsOf(f.rows \o queue)
      BY <1>2, <1>3, <1>4, <1>6, <2>6, DropHead
  <2>11. ErrorsApart(n)
    <3> SUFFICES ASSUME NEW e \in errors
                 PROVE  /\ e.class = "verdict" => e.url \notin UrlsOf(f.rows \o queue)
                        /\ e.class # "verdict" /\ ~e.recovered =>
                             /\ e.url \notin UrlsOf(f.rows \o queue)
                             /\ \A y \in errors : y.class = "verdict" => y.url # e.url
        BY <2>8 DEF ErrorsApart
    <3>1. CASE e = x
        BY <2>4, <2>10, <3>1
    <3>2. CASE e \in f.errors
      <4>1. /\ e.class = "verdict" => e.url \notin UrlsOf(f.rows \o f.pages)
            /\ e.class # "verdict" /\ ~e.recovered =>
                 /\ e.url \notin UrlsOf(f.rows \o f.pages)
                 /\ \A y \in f.errors : y.class = "verdict" => y.url # e.url
          BY <1>6, <3>2 DEF ErrorsApart
      <4> QED BY <2>4, <2>5, <2>10, <4>1
    <3> QED BY <2>5, <3>1, <3>2
  <2>12. HitsGood(n)
    <3>1. \A i \in 1..Len(queue) : GoodHit(f, queue[i])
        BY <1>6, <2>3, <2>6 DEF HitsGood
    <3> QED BY <1>6, <2>8, <3>1 DEF HitsGood, GoodHit
  <2>13. FetchHolds(n)
    <3>1. BeforeJudge(n)
        BY <2>8 DEF BeforeJudge
    <3> QED BY <2>8, <2>10, <2>11, <2>12, <3>1 DEF FetchHolds
  <2> QED BY <1>1, <1>4, <1>7, <2>1, <2>8, <2>9, <2>13, MoveHolds
<1>8. CASE Moves(r, Recorded(f, p)) /\ UNCHANGED file
  <2>1. PICK n : n = Recorded(f, p)
      OBVIOUS
  <2>2. /\ n \in FetchStates /\ n.pc = "judge" /\ FetchHolds(n)
        /\ UrlsOf(f.rows) \subseteq UrlsOf(n.rows)
      BY <1>2, <1>3, <1>4, <1>6, <2>1, RecordedHolds
  <2> QED BY <1>1, <1>4, <1>8, <2>1, <2>2, MoveHolds
<1>9. CASE /\ Cacheable(p) /\ Moves(r, [f EXCEPT !.pc = "put"])
           /\ file' = [file EXCEPT ![p.url] = Torn]
  <2>1. PICK n : n = [f EXCEPT !.pc = "put"]
      OBVIOUS
  <2>2. /\ n.pc = "put" /\ n.pages = f.pages /\ n.errors = f.errors /\ n.rows = f.rows
        /\ n.on = f.on /\ n.hits = f.hits
      BY <1>2, <2>1 DEF FetchStates
  <2>3. n \in FetchStates
      BY <1>2, <2>1 DEF FetchStates
  <2>4. p = f.pages[1] /\ p \in Pages
      BY <1>2, <1>3, <1>4, RecordShift
  <2>5. FetchHolds(n)
    <3>1. BeforeJudge(n)
        BY <1>4, <1>9, <2>2, <2>4 DEF BeforeJudge
    <3>2. HitsGood(n) /\ ErrorsApart(n)
        BY <1>6, <2>2 DEF HitsGood, GoodHit, ErrorsApart
    <3> QED BY <1>6, <2>2, <3>1, <3>2 DEF FetchHolds
  <2>6. file' \in [Asked -> Files] /\ \A u \in Asked : file'[u] = file[u] \/ file'[u] = Torn
    <3>1. Torn \in Files
        BY DEF Files
    <3> QED BY <1>2, <1>9, <3>1
  <2> QED BY <1>1, <1>4, <1>9, <2>1, <2>2, <2>3, <2>5, <2>6, StepHolds
<1> QED BY <1>5, <1>7, <1>8, <1>9

\* Writing the text of a page keeps it.
LEMMA PutHolds == ASSUME PageInv, NEW r \in Fetchers, Put(r) PROVE PageInv'
<1>1. PICK f : f = fetch[r]
    OBVIOUS
<1>2. /\ f \in FetchStates /\ FetchHolds(f) /\ f.pages \in Seq(Pages)
      /\ f.rows \in Seq(Pages) /\ today \in Nat /\ file \in [Asked -> Files]
    BY <1>1, FetchType
<1>3. PICK p : p = Head(f.pages)
    OBVIOUS
<1>4. f.pc = "put" /\ UNCHANGED today
    BY <1>1 DEF Put
<1>5. /\ Moves(r, [Recorded(f, p) EXCEPT !.pc = "judge"])
      /\ \/ file' = [file EXCEPT ![p.url] = Entry(r, p.class)]
         \/ file' = [file EXCEPT ![p.url] = Torn]
    BY <1>1, <1>3 DEF Put
<1>6. HitsGood(f) /\ InLine(f.rows \o f.pages) /\ ErrorsApart(f)
    BY <1>2, <1>4 DEF FetchHolds
<1>7. f.pages # << >> /\ p \in Pages /\ p.class = "ok"
  <2>1. f.pages # << >> /\ Cacheable(f.pages[1])
      BY <1>2, <1>4 DEF FetchHolds, BeforeJudge
  <2> QED BY <1>2, <1>3, <2>1, RecordShift DEF Cacheable
<1>8. PICK g : g = [f EXCEPT !.pc = "judge"]
    OBVIOUS
<1>9. /\ g \in FetchStates /\ g.pc = "judge" /\ g.pages = f.pages /\ g.errors = f.errors
      /\ g.rows = f.rows /\ g.on = f.on /\ g.hits = f.hits
    BY <1>2, <1>8 DEF FetchStates
<1>10. PICK n : n = Recorded(g, p)
    OBVIOUS
<1>11. n = [Recorded(f, p) EXCEPT !.pc = "judge"]
    BY <1>2, <1>8, <1>10 DEF Recorded, FetchStates
<1>12. /\ n \in FetchStates /\ n.pc = "judge" /\ FetchHolds(n)
       /\ UrlsOf(f.rows) \subseteq UrlsOf(n.rows) /\ p.url \in UrlsOf(n.rows)
  <2>1. g.pages # << >> /\ p = Head(g.pages) /\ HitsGood(g) /\ InLine(g.rows \o g.pages) /\ ErrorsApart(g)
      BY <1>3, <1>6, <1>7, <1>9 DEF HitsGood, GoodHit, ErrorsApart
  <2>2. /\ n \in FetchStates /\ n.pc = "judge" /\ FetchHolds(n)
        /\ UrlsOf(g.rows) \subseteq UrlsOf(n.rows) /\ p.url \in UrlsOf(n.rows)
      BY <1>9, <1>10, <2>1, RecordedHolds
  <2> QED BY <1>9, <2>2
<1>13. /\ file' \in [Asked -> Files]
       /\ \A u \in Asked : \/ file'[u] = file[u]
                           \/ file'[u] = Torn
                           \/ file'[u] = Entry(r, "ok") /\ u \in UrlsOf(n.rows)
  <2>1. Torn \in Files /\ Entry(r, "ok") \in Files
    <3>1. "ok" \in PageClasses
        BY DEF PageClasses
    <3> QED BY <1>2, <3>1 DEF Files, Entry
  <2>2. PICK x \in {Torn, Entry(r, "ok")} : file' = [file EXCEPT ![p.url] = x]
      BY <1>5, <1>7
  <2>3. file' \in [Asked -> Files]
      BY <1>2, <2>1, <2>2
  <2>4. \A u \in Asked : u # p.url => file'[u] = file[u]
      BY <1>2, <2>2
  <2>5. \A u \in Asked : u = p.url => file'[u] = x
      BY <1>2, <2>2
  <2> QED BY <1>12, <2>2, <2>3, <2>4, <2>5
<1> QED BY <1>1, <1>4, <1>5, <1>11, <1>12, <1>13, StepHolds

\* ErrorsApart, said of errors and of the URLs that have a page.
Apart(errors, urls) ==
    \A e \in errors :
        /\ e.class = "verdict" => e.url \notin urls
        /\ e.class # "verdict" /\ ~e.recovered =>
             e.url \notin urls /\ \A x \in errors : x.class = "verdict" => x.url # e.url

\* What was found may be added to the rows.
LEMMA RecoveredApart ==
    ASSUME NEW errors \in SUBSET Errors, NEW found, NEW urls, Apart(errors, urls),
           \A e \in errors : e.class = "verdict" => e.url \notin found
    PROVE  Apart(Recovered(errors, found), urls \cup found)
<1>1. PICK new : new = Recovered(errors, found)
    OBVIOUS
<1>2. \A x \in new :
         \E e \in errors : /\ x.url = e.url /\ x.class = e.class
                           /\ ~x.recovered => ~e.recovered /\ e.url \notin found
    BY <1>1, RecoveredHolds
<1>3. ASSUME NEW x \in new
      PROVE  /\ x.class = "verdict" => x.url \notin urls \cup found
             /\ x.class # "verdict" /\ ~x.recovered =>
                  /\ x.url \notin urls \cup found
                  /\ \A y \in new : y.class = "verdict" => y.url # x.url
  <2>1. PICK e \in errors : /\ x.url = e.url /\ x.class = e.class
                            /\ ~x.recovered => ~e.recovered /\ e.url \notin found
      BY <1>2
  <2>2. /\ e.class = "verdict" => e.url \notin urls
        /\ e.class # "verdict" /\ ~e.recovered =>
             e.url \notin urls /\ \A y \in errors : y.class = "verdict" => y.url # e.url
      BY DEF Apart
  <2>3. e.class # "verdict" /\ ~e.recovered => \A y \in new : y.class = "verdict" => y.url # e.url
      BY <1>2, <2>2
  <2>4. CASE x.class = "verdict"
    <3>1. e.class = "verdict"
        BY <2>1, <2>4
    <3> QED BY <2>1, <2>2, <2>4, <3>1
  <2>5. CASE x.class # "verdict" /\ ~x.recovered
    <3>1. e.class # "verdict" /\ ~e.recovered /\ e.url \notin found
        BY <2>1, <2>5
    <3> QED BY <2>1, <2>2, <2>3, <2>5, <3>1
  <2> QED BY <2>4, <2>5
<1> QED BY <1>1, <1>3 DEF Apart

\* The copies from the archive keep the invariant.
LEMMA ArchiveHolds == ASSUME PageInv, NEW r \in Fetchers, Archive(r) PROVE PageInv'
<1>1. PICK f : f = fetch[r]
    OBVIOUS
<1>2. /\ f \in FetchStates /\ FetchHolds(f) /\ f.hits \in SUBSET Pages /\ f.pages \in Seq(Pages)
      /\ f.errors \in SUBSET Errors /\ f.rows \in Seq(Pages) /\ f.on \in Nat /\ today \in Nat
    BY <1>1, FetchType
<1>3. f.pc = "judge" /\ f.pages = << >> /\ UNCHANGED <<today, file>>
    BY <1>1 DEF Archive
<1>4. f.rows \o f.pages = f.rows
  <2>1. f.rows \o << >> = f.rows
      BY <1>2
  <2> QED BY <1>3, <2>1
<1>5. HitsGood(f) /\ InLine(f.rows) /\ ErrorsApart(f)
    BY <1>2, <1>3, <1>4 DEF FetchHolds
<1>6. PICK found \in SUBSET {e.url : e \in Lost(f)} :
         Moves(r, [f EXCEPT !.pc = "done", !.errors = Recovered(f.errors, found),
                            !.rows = f.rows \o [i \in DOMAIN PutInOrder(found) |->
                                                  Page(PutInOrder(found)[i], "archive", "ok", today)]])
  <2>1. \A found : [f EXCEPT !.pc = "done",
                             !.errors = {[e EXCEPT !.recovered = @ \/ e.url \in found] : e \in @},
                             !.rows = @ \o [i \in DOMAIN PutInOrder(found) |->
                                              Page(PutInOrder(found)[i], "archive", "ok", today)]]
                   = [f EXCEPT !.pc = "done", !.errors = Recovered(f.errors, found),
                               !.rows = f.rows \o [i \in DOMAIN PutInOrder(found) |->
                                                     Page(PutInOrder(found)[i], "archive", "ok", today)]]
      BY <1>2 DEF Recovered, FetchStates
  <2> QED BY <1>1, <2>1 DEF Archive
<1>7. PICK more : more = [i \in DOMAIN PutInOrder(found) |->
                            Page(PutInOrder(found)[i], "archive", "ok", today)]
    OBVIOUS
<1>8. /\ more \in Seq(Pages) /\ InLine(more) /\ UrlsOf(more) \subseteq found
      /\ \A i \in 1..Len(more) : more[i].via = "archive" /\ more[i].url \in found
  <2>1. InTurn(PutInOrder(found), found)
      BY PutInOrderHolds
  <2> QED BY <1>2, <1>7, <2>1, PagesFor
<1>9. \A u \in found : /\ u \notin UrlsOf(f.rows)
                       /\ \A e \in f.errors : e.class = "verdict" => e.url # u
  <2> SUFFICES ASSUME NEW e \in Lost(f)
               PROVE  /\ e.url \notin UrlsOf(f.rows)
                      /\ \A x \in f.errors : x.class = "verdict" => x.url # e.url
      BY <1>6
  <2>1. e \in f.errors /\ ~e.recovered /\ e.class # "verdict"
      BY DEF Lost
  <2> QED BY <1>4, <1>5, <2>1 DEF ErrorsApart
<1>10. PICK rows : rows = f.rows \o more
    OBVIOUS
<1>11. rows \in Seq(Pages) /\ InLine(rows) /\ UrlsOf(rows) \subseteq UrlsOf(f.rows) \cup found
       /\ UrlsOf(f.rows) \subseteq UrlsOf(rows)
  <2>1. \A j \in 1..Len(more) : more[j].via \notin Split /\ more[j].url \notin UrlsOf(f.rows)
      BY <1>8, <1>9 DEF Split
  <2> QED BY <1>2, <1>5, <1>8, <1>10, <2>1, MorePages
<1>12. PICK errors : errors = Recovered(f.errors, found)
    OBVIOUS
<1>13. \A x \in errors :
         /\ x \in Errors
         /\ \E e \in f.errors : /\ x.url = e.url /\ x.class = e.class
                                /\ ~x.recovered => ~e.recovered /\ e.url \notin found
    BY <1>2, <1>12, RecoveredHolds
<1>14. PICK n : n = [f EXCEPT !.pc = "done", !.errors = errors, !.rows = rows]
    OBVIOUS
<1>15. Moves(r, n)
    BY <1>6, <1>7, <1>10, <1>12, <1>14
<1>16. /\ n.pc = "done" /\ n.pages = << >> /\ n.errors = errors /\ n.rows = rows
       /\ n.on = f.on /\ n.hits = f.hits
    BY <1>2, <1>3, <1>14 DEF FetchStates
<1>17. n \in FetchStates
  <2>1. errors \in SUBSET Errors
      BY <1>13
  <2> QED BY <1>2, <1>11, <1>14, <2>1 DEF FetchStates
<1>18. n.rows \o n.pages = rows
  <2>1. rows \o << >> = rows
      BY <1>11
  <2> QED BY <1>16, <2>1
<1>19. ErrorsApart(n)
  <2>1. Apart(f.errors, UrlsOf(f.rows))
      BY <1>4, <1>5 DEF ErrorsApart, Apart
  <2>2. \A e \in f.errors : e.class = "verdict" => e.url \notin found
      BY <1>9
  <2>3. Apart(errors, UrlsOf(f.rows) \cup found)
      BY <1>2, <1>12, <2>1, <2>2, RecoveredApart
  <2>4. Apart(errors, UrlsOf(rows))
      BY <1>11, <2>3 DEF Apart
  <2> QED BY <1>16, <1>18, <2>4 DEF ErrorsApart, Apart
<1>20. HitsGood(n)
  <2>1. \A i \in 1..Len(f.rows) : GoodHit(f, f.rows[i])
      BY <1>5 DEF HitsGood
  <2>2. \A i \in 1..Len(more) : GoodHit(f, more[i])
      BY <1>8 DEF GoodHit
  <2>3. \A i \in 1..Len(rows) : \/ i \in 1..Len(f.rows) /\ rows[i] = f.rows[i]
                                \/ i - Len(f.rows) \in 1..Len(more) /\ rows[i] = more[i - Len(f.rows)]
      BY <1>2, <1>8, <1>10
  <2>4. \A i \in 1..Len(rows) : GoodHit(f, rows[i])
      BY <2>1, <2>2, <2>3
  <2>5. Len(n.pages) = 0
      BY <1>16
  <2> QED BY <1>5, <1>16, <2>4, <2>5 DEF HitsGood, GoodHit
<1>21. FetchHolds(n)
  <2>1. BeforeJudge(n)
      BY <1>16 DEF BeforeJudge
  <2> QED BY <1>11, <1>16, <1>18, <1>19, <1>20, <2>1 DEF FetchHolds
<1>22. UrlsOf(fetch[r].rows) \subseteq UrlsOf(n.rows) /\ fetch[r].pc # "dead"
    BY <1>1, <1>3, <1>11, <1>16
<1> QED BY <1>3, <1>15, <1>17, <1>21, <1>22, MoveHolds

\* A crash keeps it.
LEMMA DiesHolds == ASSUME PageInv, NEW r \in Fetchers, Dies(r) PROVE PageInv'
<1>1. PICK n : n = [Idle EXCEPT !.pc = "dead"]
    OBVIOUS
<1>2. n \in FetchStates
    BY <1>1, IdleType
<1>3. n.pc = "dead" /\ n.rows = << >> /\ n.pages = << >> /\ n.errors = {} /\ n.hits = {}
    BY <1>1 DEF Idle
<1>4. FetchHolds(n)
  <2>1. n.pc \in {"idle", "raised", "dead"}
      BY <1>3
  <2> QED BY <1>2, <1>3, <2>1, EmptyHolds
<1>5. fetch[r].pc = "put" /\ Moves(r, n) /\ UNCHANGED <<today, file>>
    BY <1>1 DEF Dies
<1>6. fetch[r].pc # "dead"
    BY <1>5
<1> QED BY <1>2, <1>3, <1>4, <1>5, <1>6, MoveHolds

\* The next day keeps it.
LEMMA DayHolds == ASSUME PageInv, Day PROVE PageInv'
<1>1. today' = today + 1 /\ UNCHANGED <<file, fetch>> /\ today \in Nat
    BY DEF Day, PageInv, PageTypes
<1>2. PageTypes'
    BY <1>1 DEF PageInv, PageTypes
<1>3. FilesHold'
  <2>1. \A u \in Asked : file[u].is = "page" => file[u].day \in Nat
      BY DEF PageInv, PageTypes, Files, Missing, Torn
  <2>2. \A u \in Asked : file[u].is = "page" =>
          /\ file[u].class = "ok" /\ file[u].day <= today'
          /\ u \in UrlsOf(fetch[file[u].by].rows) \/ fetch[file[u].by].pc = "dead"
      BY <1>1, <2>1 DEF PageInv, FilesHold
  <2> QED BY <1>1, <2>2 DEF FilesHold
<1>4. \A r \in Fetchers : FetchHolds(fetch'[r])
    BY <1>1 DEF PageInv
<1> QED BY <1>2, <1>3, <1>4 DEF PageInv

\* It holds at the start.
LEMMA PageInvInitially == PageFetchInit => PageInv
<1> SUFFICES ASSUME PageFetchInit PROVE PageInv
    OBVIOUS
<1>1. /\ today = 0 /\ file = [u \in Asked |-> Missing] /\ fetch = [r \in Fetchers |-> Idle]
    BY DEF PageFetchInit
<1>2. PageTypes
  <2>1. Missing \in Files
      BY DEF Files
  <2> QED BY <1>1, <2>1, IdleType DEF PageTypes
<1>3. FilesHold
    BY <1>1 DEF FilesHold, Missing
<1>4. FetchHolds(Idle)
  <2>1. /\ Idle.pc \in {"idle", "raised", "dead"} /\ Idle.rows = << >> /\ Idle.pages = << >>
        /\ Idle.errors = {} /\ Idle.hits = {}
      BY DEF Idle
  <2> QED BY <2>1, IdleType, EmptyHolds
<1> QED BY <1>1, <1>2, <1>3, <1>4 DEF PageInv

(* Whatever the runs do, and wherever one dies: the files of the cache are good pages  *)
(* that their writer has as evidence, half pages, or nothing, and each fetch() has its  *)
(* pages in order and its errors apart from them (page_cache.py, fetch_service.py).      *)
THEOREM PageInvCorrect == PageFetchSpec => []PageInv
<1>1. PageInv /\ [PageFetchNext]_pvars => PageInv'
  <2> SUFFICES ASSUME PageInv, [PageFetchNext]_pvars PROVE PageInv'
      OBVIOUS
  <2>1. CASE Day
      BY <2>1, DayHolds
  <2>2. ASSUME NEW r \in Fetchers, Look(r) PROVE PageInv'
      BY <2>2, LookHolds
  <2>3. ASSUME NEW r \in Fetchers, Retry(r) PROVE PageInv'
      BY <2>3, RetryHolds
  <2>4. ASSUME NEW r \in Fetchers, Put(r) PROVE PageInv'
      BY <2>4, PutHolds
  <2>5. ASSUME NEW r \in Fetchers, Archive(r) PROVE PageInv'
      BY <2>5, ArchiveHolds
  <2>6. ASSUME NEW r \in Fetchers, Dies(r) PROVE PageInv'
      BY <2>6, DiesHolds
  <2>7. ASSUME NEW r \in Fetchers, NEW replies \in [Asked -> PageClasses \cup ErrorClasses],
               Provided(r, replies)
        PROVE  PageInv'
      BY <2>7, ProvidedHolds
  <2>8. ASSUME NEW r \in Fetchers, NEW base \in {"accept", "reject"}, NEW llm \in {"accept", "reject"},
               JudgePage(r, PageVerdict(base, llm))
        PROVE  PageInv'
      BY <2>8, JudgePageHolds
  <2>9. CASE UNCHANGED pvars
      BY <2>9 DEF pvars, PageInv, PageTypes, FilesHold
  <2> QED BY <2>1, <2>2, <2>3, <2>4, <2>5, <2>6, <2>7, <2>8, <2>9 DEF PageFetchNext
<1> QED BY <1>1, PageInvInitially, PTL DEF PageFetchSpec

\* The first part of a concatenation.
LEMMA FirstPart ==
    ASSUME NEW rows \in Seq(Pages), NEW queue \in Seq(Pages)
    PROVE  \A i \in 1..Len(rows) : i \in 1..Len(rows \o queue) /\ (rows \o queue)[i] = rows[i]
  OBVIOUS

\* The invariant implies the property.
LEMMA VettedInInv == PageInv => PagesAreVetted
<1> SUFFICES ASSUME PageInv PROVE PagesAreVetted
    OBVIOUS
<1>1. ASSUME NEW r \in Fetchers
      PROVE  /\ fetch[r].rows \in Seq(Pages) /\ RowsOf(r) = {fetch[r].rows[i] : i \in 1..Len(fetch[r].rows)}
             /\ DOMAIN fetch[r].rows = 1..Len(fetch[r].rows)
             /\ {p.url : p \in RowsOf(r)} = UrlsOf(fetch[r].rows)
  <2>1. fetch[r].rows \in Seq(Pages)
      BY FetchType
  <2>2. DOMAIN fetch[r].rows = 1..Len(fetch[r].rows)
      BY <2>1
  <2> QED BY <2>1, <2>2 DEF RowsOf, SetOf, UrlsOf
<1>2. ASSUME NEW r \in Fetchers
      PROVE  /\ InLine(fetch[r].rows)
             /\ \A e \in fetch[r].errors : e.class = "verdict" =>
                  e.url \notin UrlsOf(fetch[r].rows) /\ fetch[r].pc # "dead"
  <2>1. PICK f : f = fetch[r]
      OBVIOUS
  <2>2. FetchHolds(f) /\ f.rows \in Seq(Pages) /\ f.pages \in Seq(Pages)
      BY <2>1, FetchType
  <2>3. CASE f.pc = "provider"
    <3>1. f.rows = << >> /\ f.errors = {}
        BY <2>2, <2>3 DEF FetchHolds, BeforeJudge
    <3>2. Len(f.rows) = 0
        BY <3>1
    <3>3. InLine(f.rows)
        BY <3>2 DEF InLine
    <3> QED BY <2>1, <3>1, <3>3
  <2>4. CASE f.pc # "provider"
    <3>1. PICK s : s = f.rows \o f.pages
        OBVIOUS
    <3>2. InLine(s) /\ \A e \in f.errors : e.class = "verdict" => e.url \notin UrlsOf(s)
        BY <2>2, <2>4, <3>1 DEF FetchHolds, ErrorsApart
    <3>3. \A i \in 1..Len(f.rows) : i \in 1..Len(s) /\ s[i] = f.rows[i]
        BY <2>2, <3>1, FirstPart
    <3>4. InLine(f.rows) /\ UrlsOf(f.rows) \subseteq UrlsOf(s)
        BY <3>2, <3>3 DEF InLine, UrlsOf
    <3>5. f.pc = "dead" => f.errors = {}
        BY <2>2 DEF FetchHolds, BeforeJudge
    <3> QED BY <2>1, <3>2, <3>4, <3>5
  <2> QED BY <2>3, <2>4
<1>3. RejectedStaysOut
  <2> SUFFICES ASSUME NEW r \in Fetchers, NEW e \in fetch[r].errors, e.class = "verdict"
               PROVE  /\ e.url \notin {p.url : p \in RowsOf(r)}
                      /\ file[e.url].is = "page" => file[e.url].by # r
      BY DEF RejectedStaysOut
  <2>1. e.url \notin UrlsOf(fetch[r].rows) /\ fetch[r].pc # "dead"
      BY <1>2
  <2>2. e.url \in Asked
      BY FetchType DEF Errors
  <2>3. file[e.url].is = "page" => file[e.url].by # r
      BY <2>1, <2>2 DEF PageInv, FilesHold
  <2> QED BY <1>1, <2>1, <2>3
<1>4. HitsAreGood
  <2> SUFFICES ASSUME NEW r \in Fetchers, NEW p \in RowsOf(r) \cup fetch[r].hits
               PROVE  GoodHit(fetch[r], p)
      BY DEF HitsAreGood, GoodHit
  <2>1. HitsGood(fetch[r])
      BY FetchType DEF FetchHolds
  <2> QED BY <1>1, <2>1 DEF HitsGood
<1>5. OrderSurvives
  <2> SUFFICES ASSUME NEW r \in Fetchers, NEW i \in DOMAIN fetch[r].rows, NEW j \in DOMAIN fetch[r].rows,
                      i < j
               PROVE  /\ fetch[r].rows[i].url # fetch[r].rows[j].url
                      /\ {fetch[r].rows[i].via, fetch[r].rows[j].via} \subseteq Split
                            => Earlier(fetch[r].rows[i].url, fetch[r].rows[j].url)
      BY DEF OrderSurvives
  <2> QED BY <1>1, <1>2 DEF InLine
<1> QED BY <1>3, <1>4, <1>5 DEF PagesAreVetted

(* What a fetch() gives to the ledger is vetted: a page its judge rejected does not come *)
(* back by another way, hits are good and fresh, and the order of the request survives.    *)
THEOREM PagesAreVettedCorrect == PageFetchSpec => []PagesAreVetted
<1> QED BY PageInvCorrect, VettedInInv, PTL

=============================================================================
