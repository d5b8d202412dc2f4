----------------------------- MODULE GatherProofs -----------------------------
(***************************************************************************)
(* Proofs about Gather: the limits of a run's budget hold over all of its      *)
(* gathers, the fetch budget goes to the best URLs, and the limit a run names    *)
(* as its stop reason was reached, for any limits, levels and concurrency.     *)
(***************************************************************************)
EXTENDS Gather, FiniteSetTheorems, TLAPS

(***************************************************************************)
(* The inductive invariant.                                                *)
(***************************************************************************)
NodeStates == Ended \cup {"waiting", "queued", "calling", "retrying", "raised"}
Pending == {n \in Nodes : node[n] \in {"waiting", "queued"}}

\* What is left of the search budget reaches for the searches that may still come,
\* and for the one that is held back.
SearchInv == pc = "search" => spent.search + Cardinality(Pending) + Reserve <= Budget.search

\* Nodes take tokens, and then slots, in turn.
TurnInv ==
    \A m, n \in Nodes : m < n =>
        /\ node[m] = "waiting" => node[n] = "waiting"
        /\ node[m] = "queued" => node[n] \in {"waiting", "queued"}

\* Once a fetch was refused none can be charged any more.
DeniedInv == pc = "fetch" /\ (\E m \in Nodes : node[m] = "denied") => ~CanFetch

\* The stop reason the tracker keeps is the limit that was reached.
StopInv ==
    /\ stop = "max_fetch" => spent.fetch = Budget.fetch
    /\ stop = "max_runtime" => late

Inv ==
    /\ TypeOK /\ BudgetHolds /\ SearchInv /\ TurnInv /\ DeniedInv /\ BudgetGoesToBest
    /\ StopInv /\ ReasonHolds

-----------------------------------------------------------------------------
(* Levels                                                                   *)

\* A level of nodes that have not begun.
LEMMA LevelFact ==
    ASSUME NEW n \in Nat, Level(n)
    PROVE  /\ node' \in Seq(NodeStates) /\ order' = <<>> /\ Nodes' = 1..n
           /\ \A i \in 1..n : node'[i] \in {"waiting", "queued"} /\ node'[i] # "denied"
           /\ Pending' = 1..n /\ Cardinality(Pending') = n
           /\ TurnInv'
<1>1. /\ node' = [i \in 1..n |-> IF Limited /\ n > 1 THEN "waiting" ELSE "queued"]
      /\ order' = <<>>
  BY DEF Level
<1>2. node' \in Seq(NodeStates) /\ DOMAIN node' = 1..n
  BY <1>1 DEF NodeStates
<1>3. /\ \A i \in 1..n : node'[i] \in {"waiting", "queued"} /\ node'[i] # "denied"
      /\ \A i, j \in 1..n : node'[i] = node'[j]
  BY <1>1
<1>4. Pending' = 1..n
  BY <1>2, <1>3 DEF Pending, Nodes
<1>5. Cardinality(1..n) = n
  BY FS_Interval
<1>6. TurnInv'
  BY <1>2, <1>3 DEF TurnInv, Nodes
<1> QED
  BY <1>1, <1>2, <1>3, <1>4, <1>5, <1>6 DEF Nodes

\* No level.
LEMMA NoLevelFact ==
    ASSUME NoLevel
    PROVE  /\ node' \in Seq(NodeStates) /\ order' \in Seq(Nat \ {0}) /\ Nodes' = {}
           /\ TurnInv'
  BY DEF NoLevel, TurnInv, Nodes

\* One node of a level moves.
LEMMA BecomesFact ==
    ASSUME TypeOK, NEW n \in Nodes, NEW s \in NodeStates, Becomes(n, s)
    PROVE  /\ node' \in Seq(NodeStates) /\ order' \in Seq(Nat \ {0}) /\ Nodes' = Nodes
           /\ node'[n] = s /\ \A m \in Nodes \ {n} : node'[m] = node[m]
<1>1. node \in Seq(NodeStates) /\ n \in Nat \ {0}
  BY DEF TypeOK, Nodes, NodeStates
<1>2. node' = [node EXCEPT ![n] = s]
  BY DEF Becomes
<1>3. order' \in Seq(Nat \ {0})
  BY <1>1 DEF Becomes, TypeOK
<1> QED
  BY <1>1, <1>2, <1>3 DEF Nodes

\* The nodes that may still come: as many as before, or one fewer.
LEMMA PendingFact ==
    ASSUME TypeOK, NEW n \in Nodes, Nodes' = Nodes, \A m \in Nodes \ {n} : node'[m] = node[m]
    PROVE  /\ Cardinality(Pending) \in Nat
           /\ (n \in Pending <=> n \in Pending') => Cardinality(Pending') = Cardinality(Pending)
           /\ n \in Pending /\ n \notin Pending' => Cardinality(Pending') = Cardinality(Pending) - 1
<1>1. IsFiniteSet(Nodes)
  <2>1. Nodes = 1..Len(node) /\ Len(node) \in Nat
    BY DEF TypeOK, Nodes
  <2> QED
    BY <2>1, FS_Interval
<1>2. IsFiniteSet(Pending)
  BY <1>1, FS_Subset DEF Pending
<1>3. Cardinality(Pending) \in Nat
  BY <1>2, FS_CardinalityType
<1>4. (n \in Pending <=> n \in Pending') => Pending' = Pending
  BY DEF Pending
<1>5. n \in Pending /\ n \notin Pending' => Pending' = Pending \ {n}
  BY DEF Pending
<1>6. n \in Pending => Cardinality(Pending \ {n}) = Cardinality(Pending) - 1
  BY <1>2, FS_RemoveElement
<1> QED
  BY <1>3, <1>4, <1>5, <1>6

-----------------------------------------------------------------------------
(* The controller's steps                                                   *)

\* A run begins with nothing spent and no level.
LEMMA InitInv == Init => Inv
<1> SUFFICES ASSUME Init PROVE Inv
  OBVIOUS
<1> USE GatherAssumption
<1>1. TypeOK
  <2>1. /\ round = 1 /\ raised = FALSE /\ late = FALSE /\ stop = "none"
        /\ pc = "queries" /\ validated = 0 /\ extracted = {} /\ reason = "none"
    BY DEF Init
  <2>2. node \in Seq(NodeStates) /\ order \in Seq(Nat \ {0})
    BY DEF Init
  <2>3. tokens \in [Kinds -> Nat] /\ called \in [Kinds -> Nat]
    BY DEF Init
  <2>4. spent \in [search : Nat, fetch : Nat, extract : Nat]
    BY DEF Init
  <2>5. raised \in BOOLEAN /\ late \in BOOLEAN
    BY <2>1
  <2>6. /\ round \in 1..3 /\ validated \in Nat /\ extracted \subseteq Nat
        /\ pc \in Kinds \cup {"queries", "extract", "judge", "verify", "stop", "done", "failed"}
        /\ stop \in StopReasons
        /\ reason \in StopReasons \cup {"min_validated", "no_quote_channel", "insufficient"}
    BY <2>1 DEF StopReasons
  <2> QED
    BY <2>2, <2>3, <2>4, <2>5, <2>6 DEF TypeOK, NodeStates
<1>2. BudgetHolds
  BY DEF Init, BudgetHolds, SearchLeftForFallback, Kinds
<1>3. SearchInv /\ TurnInv /\ DeniedInv /\ BudgetGoesToBest /\ StopInv /\ ReasonHolds
  BY DEF Init, SearchInv, TurnInv, DeniedInv, BudgetGoesToBest, StopInv, ReasonHolds, Nodes
<1> QED
  BY <1>1, <1>2, <1>3 DEF Inv

\* A gather begins with no more searches than are left, and leaves its reserve.
LEMMA QueriesInv == Inv /\ Queries => Inv'
<1> SUFFICES ASSUME Inv, Queries PROVE Inv'
  OBVIOUS
<1> USE GatherAssumption
<1>1. PICK n \in 0..MaxQueries :
         /\ n + Reserve <= RemainingSearches \/ n = 0
         /\ Level(n)
         /\ pc' = IF n = 0 THEN "extract" ELSE "search"
  BY DEF Queries
<1>2. /\ UNCHANGED <<round, raised, tokens, spent, late, stop, validated, reason, called>>
      /\ extracted' = {}
  BY DEF Queries, tracker, outcome
<1>3. /\ node' \in Seq(NodeStates) /\ order' = <<>>
      /\ Cardinality(Pending') = n /\ TurnInv'
  BY <1>1, LevelFact
<1>4. TypeOK'
  <2>1. pc' \in {"extract", "search"}
    BY <1>1
  <2> QED
    BY <1>2, <1>3, <2>1 DEF Inv, TypeOK, NodeStates, Kinds
<1>5. BudgetHolds'
  BY <1>2 DEF Inv, BudgetHolds, SearchLeftForFallback
<1>6. SearchInv'
  <2> SUFFICES ASSUME n # 0 PROVE spent.search + n + Reserve <= Budget.search
    BY <1>1, <1>2, <1>3 DEF SearchInv, Reserve
  <2>1. n + Reserve <= RemainingSearches /\ n > 0
    BY <1>1
  <2>2. Reserve \in Nat /\ spent.search \in Nat /\ Budget.search \in Nat
    BY DEF Reserve, Inv, TypeOK
  <2> QED
    BY <2>1, <2>2 DEF RemainingSearches
<1>7. DeniedInv' /\ BudgetGoesToBest' /\ ReasonHolds'
  BY <1>1 DEF DeniedInv, BudgetGoesToBest, ReasonHolds
<1>8. StopInv'
  BY <1>2 DEF Inv, StopInv
<1> QED
  BY <1>3, <1>4, <1>5, <1>6, <1>7, <1>8 DEF Inv

\* A level of fetches begins, with nothing refused, or there is none.
LEMMA UrlsInv == Inv /\ Urls => Inv'
<1> SUFFICES ASSUME Inv, Urls PROVE Inv'
  OBVIOUS
<1> USE GatherAssumption
<1>1. UNCHANGED <<round, raised, tokens, spent, late, stop, validated, reason, called, extracted>>
  BY DEF Urls, tracker, outcome, history
<1>2. PICK u \in 0..Least(MaxUrls, Budget.extract) : 
         (Level(u) /\ pc' = "fetch") \/ (NoLevel /\ pc' = "extract")
  BY DEF Urls
<1>3. u \in Nat
  BY DEF Least
<1>4. /\ node' \in Seq(NodeStates) /\ order' \in Seq(Nat \ {0}) /\ TurnInv'
      /\ pc' = "fetch" => \A m \in Nodes' : node'[m] # "denied"
  <2>1. CASE Level(u) /\ pc' = "fetch"
    <3>1. order' = <<>> /\ Nodes' = 1..u /\ \A i \in 1..u : node'[i] # "denied"
      BY <1>3, <2>1, LevelFact
    <3>2. order' \in Seq(Nat \ {0})
      BY <3>1
    <3> QED
      BY <1>3, <2>1, <3>1, <3>2, LevelFact
  <2>2. CASE NoLevel /\ pc' = "extract"
    BY <2>2, NoLevelFact
  <2> QED
    BY <1>2, <2>1, <2>2
<1>5. TypeOK'
  BY <1>1, <1>2, <1>4 DEF Inv, TypeOK, NodeStates, Kinds
<1>6. BudgetHolds' /\ StopInv'
  BY <1>1 DEF Inv, BudgetHolds, SearchLeftForFallback, StopInv
<1>7. SearchInv' /\ ReasonHolds'
  BY <1>2 DEF SearchInv, ReasonHolds
<1>8. DeniedInv' /\ BudgetGoesToBest'
  BY <1>4 DEF DeniedInv, BudgetGoesToBest
<1> QED
  BY <1>4, <1>5, <1>6, <1>7, <1>8 DEF Inv

\* Nodes are numbered.
LEMMA NodesAreNumbers == Inv => Nodes \subseteq Nat
<1> SUFFICES ASSUME Inv PROVE Nodes \subseteq Nat
  OBVIOUS
<1>1. node \in Seq(NodeStates)
  BY DEF Inv, TypeOK, NodeStates
<1> QED
  BY <1>1 DEF Nodes

\* Steps between two levels that charge nothing.
LEMMA BetweenInv == Inv /\ (Pages \/ Judge \/ Verify \/ Fail) => Inv'
<1> SUFFICES ASSUME Inv, Pages \/ Judge \/ Verify \/ Fail PROVE Inv'
  OBVIOUS
<1> USE GatherAssumption
<1>1. UNCHANGED <<raised, node, order, tokens, spent, late, stop, reason, called, extracted>>
  BY DEF Pages, Judge, Verify, Fail, level, tracker, outcome, history
<1>2. /\ pc' \in {"extract", "queries", "verify", "stop", "failed"}
      /\ round' \in 1..3 /\ (round' = round \/ round' # 1)
      /\ validated' \in Nat
  <2>1. round \in 1..3 /\ validated \in Nat
    BY DEF Inv, TypeOK
  <2> QED
    BY <2>1 DEF Pages, Judge, Verify, Fail, outcome, Least
<1>3. TypeOK'
  BY <1>1, <1>2 DEF Inv, TypeOK, Kinds
<1>4. BudgetHolds'
  BY <1>1, <1>2 DEF Inv, BudgetHolds, SearchLeftForFallback
<1>5. SearchInv' /\ DeniedInv' /\ BudgetGoesToBest' /\ ReasonHolds'
  BY <1>2 DEF SearchInv, DeniedInv, BudgetGoesToBest, ReasonHolds
<1>6. TurnInv' /\ StopInv'
  BY <1>1 DEF Inv, TurnInv, StopInv, Nodes
<1> QED
  BY <1>3, <1>4, <1>5, <1>6 DEF Inv

\* As many pages are extracted as the limit leaves.
LEMMA ExtractInv == Inv /\ Extract => Inv'
<1> SUFFICES ASSUME Inv, Extract PROVE Inv'
  OBVIOUS
<1> USE GatherAssumption
<1> DEFINE pages == {i \in DOMAIN order : node[order[i]] = "page"}
<1>1. UNCHANGED <<round, raised, node, order, tokens, late, stop, reason, called>>
  BY DEF Extract, level
<1>2. PICK taken \in SUBSET pages :
         /\ Cardinality(taken) = Least(Cardinality(pages), Budget.extract - spent.extract)
         /\ spent' = [spent EXCEPT !.extract = @ + Cardinality(taken)]
         /\ extracted' = {order[i] : i \in taken}
         /\ validated' \in 0..(spent.extract + Cardinality(taken))
  BY DEF Extract
<1>3. pc' \in {"judge", "verify"}
  BY DEF Extract
<1>4. Cardinality(taken) \in Nat /\ Cardinality(taken) <= Budget.extract - spent.extract
  <2>1. order \in Seq(Nat \ {0}) /\ DOMAIN order = 1..Len(order) /\ Len(order) \in Nat
    BY DEF Inv, TypeOK
  <2>2. IsFiniteSet(DOMAIN order)
    BY <2>1, FS_Interval
  <2>3. IsFiniteSet(pages)
    BY <2>2, FS_Subset
  <2>4. IsFiniteSet(taken) /\ Cardinality(pages) \in Nat
    BY <2>3, FS_Subset, FS_CardinalityType
  <2>5. Cardinality(taken) \in Nat
    BY <2>4, FS_CardinalityType
  <2>6. Budget.extract - spent.extract \in Int
    BY DEF Inv, TypeOK
  <2> QED
    BY <1>2, <2>4, <2>5, <2>6 DEF Least
<1>5. /\ spent' \in [search : Nat, fetch : Nat, extract : Nat]
      /\ spent'.search = spent.search /\ spent'.fetch = spent.fetch
      /\ spent'.extract = spent.extract + Cardinality(taken)
  <2> DEFINE c == Cardinality(taken)
  <2>1. c \in Nat /\ spent' = [spent EXCEPT !.extract = spent.extract + c]
    BY <1>2, <1>4
  <2>2. spent \in [search : Nat, fetch : Nat, extract : Nat]
    BY DEF Inv, TypeOK
  <2> HIDE DEF c
  <2>3. /\ spent' \in [search : Nat, fetch : Nat, extract : Nat]
        /\ spent'.search = spent.search /\ spent'.fetch = spent.fetch
        /\ spent'.extract = spent.extract + c
    BY <2>1, <2>2
  <2> QED
    BY <2>3 DEF c
<1>6. extracted' \subseteq Nat
  <2>1. order \in Seq(Nat \ {0})
    BY DEF Inv, TypeOK
  <2>2. \A i \in DOMAIN order : order[i] \in Nat
    BY <2>1
  <2> QED
    BY <1>2, <2>2
<1>7. validated' \in Nat
  <2>1. spent.extract \in Nat
    BY DEF Inv, TypeOK
  <2> QED
    BY <1>2, <1>4, <2>1
<1>8. TypeOK'
  BY <1>1, <1>3, <1>5, <1>6, <1>7 DEF Inv, TypeOK, Kinds
<1>9. BudgetHolds'
  <2>1. spent'.extract <= Budget.extract
    BY <1>4, <1>5 DEF Inv, TypeOK
  <2>2. \A k \in Kinds : called'[k] <= spent'[k]
    BY <1>1, <1>5 DEF Inv, BudgetHolds, Kinds
  <2> QED
    BY <1>1, <1>5, <2>1, <2>2 DEF Inv, BudgetHolds, SearchLeftForFallback
<1>10. SearchInv' /\ DeniedInv' /\ BudgetGoesToBest' /\ ReasonHolds'
  BY <1>3 DEF SearchInv, DeniedInv, BudgetGoesToBest, ReasonHolds
<1>11. TurnInv' /\ StopInv'
  BY <1>1, <1>5 DEF Inv, TurnInv, StopInv, Nodes
<1> QED
  BY <1>8, <1>9, <1>10, <1>11 DEF Inv

\* The run names a limit that was reached.
LEMMA StopStepInv == Inv /\ Stop => Inv'
<1> SUFFICES ASSUME Inv, Stop PROVE Inv'
  OBVIOUS
<1>1. /\ UNCHANGED <<round, raised, node, order, tokens, spent, late, stop, validated, called, extracted>>
      /\ pc' = "done"
  BY DEF Stop, level, tracker, history
<1>2. /\ reason' \in {"min_validated", stop, "no_quote_channel", "max_runtime", "insufficient"}
      /\ reason' = "max_fetch" => stop = "max_fetch"
      /\ reason' = "max_runtime" => stop = "max_runtime" \/ late
  BY DEF Stop
<1>3. TypeOK'
  BY <1>1, <1>2 DEF Inv, TypeOK, StopReasons, Kinds
<1>4. BudgetHolds' /\ TurnInv' /\ StopInv'
  BY <1>1 DEF Inv, BudgetHolds, SearchLeftForFallback, TurnInv, StopInv, Nodes
<1>5. SearchInv' /\ DeniedInv' /\ BudgetGoesToBest'
  BY <1>1 DEF SearchInv, DeniedInv, BudgetGoesToBest
<1>6. ReasonHolds'
  BY <1>1, <1>2 DEF Inv, StopInv, ReasonHolds
<1> QED
  BY <1>3, <1>4, <1>5, <1>6 DEF Inv

-----------------------------------------------------------------------------
(* The nodes' steps                                                         *)

\* What a node does by itself changes neither the gather nor the outcome.
LEMMA NodeFrame ==
    ASSUME NEW n \in Nodes, NodeStep(n)
    PROVE  /\ UNCHANGED <<round, pc, validated, reason, extracted>>
           /\ pc \in Kinds
  BY DEF NodeStep, Acquire, Search, Fetch, Answer, Retry, Raise, Turn, tracker, outcome,
         history, Kinds

\* Charging one search or fetch, which CanSearch or CanFetch allows.
LEMMA ChargeFact ==
    ASSUME TypeOK, NEW k \in Kinds, Charge(k)
    PROVE  /\ spent' \in [search : Nat, fetch : Nat, extract : Nat]
           /\ called' \in [Kinds -> Nat]
           /\ spent'.extract = spent.extract
           /\ spent'[k] = spent[k] + 1 /\ called'[k] = called[k] + 1
           /\ \A j \in Kinds \ {k} : spent'[j] = spent[j] /\ called'[j] = called[j]
<1>1. /\ spent \in [search : Nat, fetch : Nat, extract : Nat] /\ called \in [Kinds -> Nat]
  BY DEF TypeOK
<1>2. CASE k = "search"
  <2>1. /\ spent' = [spent EXCEPT !["search"] = spent["search"] + 1]
        /\ called' = [called EXCEPT !["search"] = called["search"] + 1]
    BY <1>2 DEF Charge
  <2> QED
    BY <1>1, <1>2, <2>1 DEF Kinds
<1>3. CASE k = "fetch"
  <2>1. /\ spent' = [spent EXCEPT !["fetch"] = spent["fetch"] + 1]
        /\ called' = [called EXCEPT !["fetch"] = called["fetch"] + 1]
    BY <1>3 DEF Charge
  <2> QED
    BY <1>1, <1>3, <2>1 DEF Kinds
<1> QED
  BY <1>2, <1>3 DEF Kinds

\* A node that is let in, or that is already in flight, overtakes none that waits.
LEMMA TurnKept ==
    ASSUME TypeOK, TurnInv, NEW n \in Nodes, NEW s \in NodeStates \ {"waiting", "queued"},
           Becomes(n, s), Turn(n) \/ node[n] \in {"calling", "retrying"}
    PROVE  TurnInv'
<1>1. /\ Nodes' = Nodes /\ node'[n] = s /\ \A m \in Nodes \ {n} : node'[m] = node[m]
      /\ s \notin {"waiting", "queued"}
  BY BecomesFact
<1>2. Nodes \subseteq Nat
  BY DEF TypeOK, Nodes
<1> SUFFICES ASSUME NEW i \in Nodes, NEW j \in Nodes, i < j
             PROVE  /\ node'[i] = "waiting" => node'[j] = "waiting"
                    /\ node'[i] = "queued" => node'[j] \in {"waiting", "queued"}
  BY <1>1 DEF TurnInv
<1>3. CASE i = n
  BY <1>1, <1>3
<1>4. CASE i # n /\ j # n
  BY <1>1, <1>4 DEF TurnInv
<1>5. CASE j = n /\ i # n
  <2>1. node'[i] = node[i] /\ i < n /\ ~(n <= i)
    BY <1>1, <1>2, <1>5
  <2>2. /\ node[i] = "waiting" => node[n] = "waiting"
        /\ node[i] = "queued" => node[n] \in {"waiting", "queued"}
    BY <2>1 DEF TurnInv
  <2>3. node[i] \notin {"waiting", "queued"}
    <3>1. CASE Turn(n)
      BY <2>1, <2>2, <3>1 DEF Turn
    <3>2. CASE node[n] \in {"calling", "retrying"}
      BY <2>2, <3>2
    <3> QED
      BY <3>1, <3>2
  <2> QED
    BY <2>1, <2>3
<1> QED
  BY <1>3, <1>4, <1>5

\* A node in flight comes to an end, or is called again, and none is refused by it.
LEMMA InFlightMoves ==
    ASSUME Inv, NEW n \in Nodes, node[n] \in {"calling", "retrying"},
           NEW s \in NodeStates \ {"waiting", "queued", "denied"}, Becomes(n, s),
           pc' = pc, CanFetch' => CanFetch
    PROVE  /\ TurnInv' /\ DeniedInv' /\ BudgetGoesToBest'
           /\ Cardinality(Pending') = Cardinality(Pending)
<1>1. /\ Nodes' = Nodes /\ node'[n] = s /\ \A m \in Nodes \ {n} : node'[m] = node[m]
      /\ s \notin {"waiting", "queued", "denied"}
  BY BecomesFact DEF Inv
<1>2. TurnInv'
  BY TurnKept DEF Inv
<1>3. \A m \in Nodes : node'[m] = "denied" => node[m] = "denied"
  BY <1>1
<1>4. DeniedInv'
  BY <1>1, <1>3 DEF Inv, DeniedInv
<1>5. BudgetGoesToBest'
  <2> SUFFICES ASSUME pc = "fetch", NEW i \in Nodes, NEW j \in Nodes, node'[i] = "denied", i < j
               PROVE  \/ node'[j] \in {"waiting", "queued", "denied"}
                      \/ Cache /\ node'[j] \in {"page", "blank"}
    BY <1>1 DEF BudgetGoesToBest
  <2>1. \/ node[j] \in {"waiting", "queued", "denied"}
        \/ Cache /\ node[j] \in {"page", "blank"}
    BY <1>3 DEF Inv, BudgetGoesToBest
  <2> QED
    BY <1>1, <2>1
<1>6. n \notin Pending /\ n \notin Pending'
  BY <1>1 DEF Pending
<1>7. Cardinality(Pending') = Cardinality(Pending)
  BY <1>1, <1>6, PendingFact DEF Inv
<1> QED
  BY <1>2, <1>4, <1>5, <1>7

\* A token is taken in turn.
LEMMA AcquireInv == ASSUME Inv, NEW n \in Nodes, Acquire(n) PROVE Inv'
<1> USE GatherAssumption
<1>1. /\ UNCHANGED <<round, pc, raised, spent, late, stop, validated, reason, called, extracted>>
      /\ pc \in Kinds /\ node[n] = "waiting" /\ tokens[pc] > 0
      /\ \A m \in Nodes : node[m] = "waiting" => n <= m
      /\ tokens' = [tokens EXCEPT ![pc] = tokens[pc] - 1] /\ Becomes(n, "queued")
  BY DEF Acquire, tracker, outcome
<1>2. /\ node' \in Seq(NodeStates) /\ order' \in Seq(Nat \ {0}) /\ Nodes' = Nodes
      /\ node'[n] = "queued" /\ \A m \in Nodes \ {n} : node'[m] = node[m]
  BY <1>1, BecomesFact DEF Inv, NodeStates
<1>3. tokens' \in [Kinds -> Nat]
  <2>1. tokens \in [Kinds -> Nat]
    BY DEF Inv, TypeOK
  <2>2. tokens[pc] - 1 \in Nat
    BY <1>1, <2>1
  <2> QED
    BY <1>1, <2>1, <2>2
<1>4. TypeOK'
  BY <1>1, <1>2, <1>3 DEF Inv, TypeOK, NodeStates
<1>5. BudgetHolds' /\ StopInv' /\ ReasonHolds'
  BY <1>1 DEF Inv, BudgetHolds, SearchLeftForFallback, StopInv, ReasonHolds
<1>6. SearchInv'
  <2>1. n \in Pending /\ n \in Pending'
    BY <1>1, <1>2 DEF Pending
  <2>2. Cardinality(Pending') = Cardinality(Pending)
    BY <1>2, <2>1, PendingFact DEF Inv
  <2> QED
    BY <1>1, <2>2 DEF Inv, SearchInv, Reserve
<1>7. TurnInv'
  <2> SUFFICES ASSUME NEW i \in Nodes, NEW j \in Nodes, i < j
               PROVE  /\ node'[i] = "waiting" => node'[j] = "waiting"
                      /\ node'[i] = "queued" => node'[j] \in {"waiting", "queued"}
    BY <1>2 DEF TurnInv
  <2>1. Nodes \subseteq Nat
    BY NodesAreNumbers
  <2>2. /\ node[i] = "waiting" => node[j] = "waiting"
        /\ node[i] = "queued" => node[j] \in {"waiting", "queued"}
    BY DEF Inv, TurnInv
  <2>3. j = n => node[i] # "waiting"
    BY <1>1, <2>1
  <2> QED
    BY <1>1, <1>2, <2>2, <2>3
<1>8. \A m \in Nodes : node'[m] = "denied" => node[m] = "denied" /\ m # n
  BY <1>2
<1>9. DeniedInv'
  BY <1>1, <1>2, <1>8 DEF Inv, DeniedInv, CanFetch
<1>10. BudgetGoesToBest'
  <2> SUFFICES ASSUME pc = "fetch", NEW i \in Nodes, NEW j \in Nodes, node'[i] = "denied", i < j
               PROVE  \/ node'[j] \in {"waiting", "queued", "denied"}
                      \/ Cache /\ node'[j] \in {"page", "blank"}
    BY <1>1, <1>2 DEF BudgetGoesToBest
  <2>1. \/ node[j] \in {"waiting", "queued", "denied"}
        \/ Cache /\ node[j] \in {"page", "blank"}
    BY <1>8 DEF Inv, BudgetGoesToBest
  <2> QED
    BY <1>2, <2>1
<1> QED
  BY <1>4, <1>5, <1>6, <1>7, <1>9, <1>10 DEF Inv

\* A search that is let in is charged, or refused; either way one fewer may come.
LEMMA SearchStepInv == ASSUME Inv, NEW n \in Nodes, Search(n) PROVE Inv'
<1> USE GatherAssumption
<1>1. /\ UNCHANGED <<round, pc, raised, tokens, validated, reason, extracted>>
      /\ pc = "search" /\ Turn(n)
  BY DEF Search, outcome
<1>2. PICK s \in {"calling", "denied"} : Becomes(n, s)
  BY DEF Search
<1>3. /\ node' \in Seq(NodeStates) /\ order' \in Seq(Nat \ {0}) /\ Nodes' = Nodes
      /\ node'[n] = s /\ \A m \in Nodes \ {n} : node'[m] = node[m]
  BY <1>2, BecomesFact DEF Inv, NodeStates, Ended
<1>4. TurnInv'
  BY <1>1, <1>2, TurnKept DEF Inv, NodeStates, Ended
<1>5. Cardinality(Pending') = Cardinality(Pending) - 1 /\ Cardinality(Pending) \in Nat
      /\ Cardinality(Pending) # 0
  <2>1. n \in Pending /\ n \notin Pending'
    BY <1>1, <1>3 DEF Pending, Turn
  <2>2. IsFiniteSet(Pending)
    <3>1. Nodes = 1..Len(node) /\ Len(node) \in Nat
      BY DEF Inv, TypeOK, Nodes
    <3>2. IsFiniteSet(Nodes)
      BY <3>1, FS_Interval
    <3> QED
      BY <3>2, FS_Subset DEF Pending
  <2> QED
    BY <1>3, <2>1, <2>2, PendingFact, FS_EmptySet DEF Inv
<1>6. \/ Charge("search") /\ UNCHANGED <<late, stop>>
      \/ UNCHANGED <<spent, called>> /\ late' = TRUE /\ stop' = "max_runtime"
      \/ UNCHANGED <<spent, called, late, stop>>
  BY DEF Search
<1>7. /\ spent' \in [search : Nat, fetch : Nat, extract : Nat] /\ called' \in [Kinds -> Nat]
      /\ spent'.search \in {spent.search, spent.search + 1}
      /\ spent'.fetch = spent.fetch /\ spent'.extract = spent.extract
      /\ \A k \in Kinds : called'[k] <= spent'[k]
      /\ late' \in BOOLEAN /\ stop' \in StopReasons
  <2>1. /\ spent \in [search : Nat, fetch : Nat, extract : Nat] /\ called \in [Kinds -> Nat]
        /\ late \in BOOLEAN /\ stop \in StopReasons /\ \A k \in Kinds : called[k] <= spent[k]
    BY DEF Inv, TypeOK, BudgetHolds
  <2>2. CASE Charge("search") /\ UNCHANGED <<late, stop>>
    <3>1. /\ spent' \in [search : Nat, fetch : Nat, extract : Nat]
          /\ called' \in [Kinds -> Nat] /\ spent'.extract = spent.extract
          /\ spent'["search"] = spent["search"] + 1 /\ called'["search"] = called["search"] + 1
          /\ \A j \in Kinds \ {"search"} : spent'[j] = spent[j] /\ called'[j] = called[j]
      BY <2>2, ChargeFact DEF Inv, Kinds
    <3> QED
      BY <2>1, <2>2, <3>1 DEF Kinds
  <2>3. CASE UNCHANGED <<spent, called>> /\ late' = TRUE /\ stop' = "max_runtime"
    BY <2>1, <2>3 DEF StopReasons
  <2>4. CASE UNCHANGED <<spent, called, late, stop>>
    BY <2>1, <2>4
  <2> QED
    BY <1>6, <2>2, <2>3, <2>4
<1>8. TypeOK'
  BY <1>1, <1>3, <1>7 DEF Inv, TypeOK, NodeStates
<1>9. spent'.search + Cardinality(Pending') + Reserve <= Budget.search /\ Reserve' = Reserve
      /\ Reserve \in Nat
  <2>1. spent.search + Cardinality(Pending) + Reserve <= Budget.search
    BY <1>1 DEF Inv, SearchInv
  <2>2. spent.search \in Nat /\ Reserve \in Nat
    BY DEF Inv, TypeOK, Reserve
  <2> QED
    BY <1>1, <1>5, <1>7, <2>1, <2>2 DEF Reserve
<1>10. BudgetHolds'
  <2>0. spent'.search \in Nat /\ Budget.search \in Nat
    BY <1>8 DEF TypeOK
  <2>1. spent'.search + Reserve <= Budget.search
    BY <1>5, <1>9, <2>0
  <2>2. spent'.search <= Budget.search /\ SearchLeftForFallback'
    BY <1>1, <1>8, <1>9, <2>1 DEF TypeOK, Reserve, SearchLeftForFallback
  <2> QED
    BY <1>7, <2>2 DEF Inv, BudgetHolds
<1>11. SearchInv'
  BY <1>9 DEF SearchInv
<1>12. DeniedInv' /\ BudgetGoesToBest' /\ ReasonHolds'
  BY <1>1 DEF DeniedInv, BudgetGoesToBest, ReasonHolds
<1>13. StopInv'
  <2>1. UNCHANGED <<late, stop>> \/ (late' = TRUE /\ stop' = "max_runtime")
    BY <1>6
  <2> QED
    BY <1>7, <2>1 DEF Inv, StopInv
<1> QED
  BY <1>4, <1>8, <1>10, <1>11, <1>12, <1>13 DEF Inv

\* What a charged fetch, or retry, does to the tracker.
LEMMA FetchCharged ==
    ASSUME Inv, CanFetch, Charge("fetch"), UNCHANGED <<round, pc, late, stop>>
    PROVE  /\ spent' \in [search : Nat, fetch : Nat, extract : Nat] /\ called' \in [Kinds -> Nat]
           /\ BudgetHolds' /\ StopInv'
<1> USE GatherAssumption
<1>1. /\ spent \in [search : Nat, fetch : Nat, extract : Nat] /\ called \in [Kinds -> Nat]
      /\ \A k \in Kinds : called[k] <= spent[k]
  BY DEF Inv, TypeOK, BudgetHolds
<1>2. /\ spent' \in [search : Nat, fetch : Nat, extract : Nat]
      /\ called' \in [Kinds -> Nat] /\ spent'.extract = spent.extract
      /\ spent'["fetch"] = spent["fetch"] + 1 /\ called'["fetch"] = called["fetch"] + 1
      /\ \A j \in Kinds \ {"fetch"} : spent'[j] = spent[j] /\ called'[j] = called[j]
  BY ChargeFact DEF Inv, Kinds
<1>3. /\ spent'.search = spent.search /\ spent'.fetch = spent.fetch + 1
      /\ spent'.fetch <= Budget.fetch /\ \A k \in Kinds : called'[k] <= spent'[k]
  BY <1>1, <1>2 DEF Kinds, CanFetch
<1>4. BudgetHolds'
  BY <1>2, <1>3 DEF Inv, BudgetHolds, SearchLeftForFallback
<1>5. stop # "max_fetch"
  BY DEF Inv, StopInv, CanFetch
<1>6. StopInv'
  BY <1>5 DEF Inv, StopInv
<1> QED
  BY <1>2, <1>4, <1>6

\* A fetch is served from the cache, charged, or refused, and refused only when no
\* later one can be charged either.
LEMMA FetchInv == ASSUME Inv, NEW n \in Nodes, Fetch(n) PROVE Inv'
<1> USE GatherAssumption
<1>1. /\ UNCHANGED <<round, pc, raised, tokens, late, validated, reason, extracted>>
      /\ pc = "fetch" /\ Turn(n)
  BY DEF Fetch, outcome
<1>2. Nodes \subseteq Nat /\ n \in Nat
  BY NodesAreNumbers
<1>3. SearchInv' /\ ReasonHolds'
  BY <1>1 DEF SearchInv, ReasonHolds
<1>4. ASSUME NEW s \in {"page", "blank", "calling", "denied"}, Becomes(n, s)
      PROVE  /\ node' \in Seq(NodeStates) /\ order' \in Seq(Nat \ {0}) /\ Nodes' = Nodes
             /\ node'[n] = s /\ \A m \in Nodes \ {n} : node'[m] = node[m]
             /\ TurnInv'
  <2>1. s \in NodeStates \ {"waiting", "queued"}
    BY DEF NodeStates, Ended
  <2> QED
    BY <1>1, <1>4, <2>1, BecomesFact, TurnKept DEF Inv
<1>5. CASE Cache /\ (\E s \in {"page", "blank"} : Becomes(n, s)) /\ UNCHANGED <<spent, called, stop>>
  <2>1. PICK s \in {"page", "blank"} : Becomes(n, s)
    BY <1>5
  <2>2. /\ node' \in Seq(NodeStates) /\ order' \in Seq(Nat \ {0}) /\ Nodes' = Nodes
        /\ node'[n] = s /\ \A m \in Nodes \ {n} : node'[m] = node[m]
        /\ TurnInv'
    BY <1>4, <2>1
  <2>3. TypeOK'
    BY <1>1, <1>5, <2>2 DEF Inv, TypeOK, NodeStates
  <2>4. BudgetHolds' /\ StopInv'
    BY <1>1, <1>5 DEF Inv, BudgetHolds, SearchLeftForFallback, StopInv
  <2>5. DeniedInv'
    BY <1>1, <1>5, <2>2 DEF Inv, DeniedInv, CanFetch
  <2>6. BudgetGoesToBest'
    BY <1>1, <1>5, <2>2 DEF Inv, BudgetGoesToBest
  <2> QED
    BY <1>3, <2>2, <2>3, <2>4, <2>5, <2>6 DEF Inv
<1>6. CASE CanFetch /\ Charge("fetch") /\ Becomes(n, "calling") /\ UNCHANGED stop
  <2>1. /\ node' \in Seq(NodeStates) /\ order' \in Seq(Nat \ {0}) /\ Nodes' = Nodes
        /\ node'[n] = "calling" /\ \A m \in Nodes \ {n} : node'[m] = node[m]
        /\ TurnInv'
    BY <1>4, <1>6
  <2>2. /\ spent' \in [search : Nat, fetch : Nat, extract : Nat] /\ called' \in [Kinds -> Nat]
        /\ BudgetHolds' /\ StopInv'
    BY <1>1, <1>6, FetchCharged
  <2>3. TypeOK'
    BY <1>1, <1>6, <2>1, <2>2 DEF Inv, TypeOK, NodeStates
  <2>4. \A m \in Nodes : node'[m] # "denied"
    BY <1>1, <1>6, <2>1 DEF Inv, DeniedInv
  <2>5. DeniedInv' /\ BudgetGoesToBest'
    BY <2>1, <2>4 DEF DeniedInv, BudgetGoesToBest
  <2> QED
    BY <1>3, <2>1, <2>2, <2>3, <2>5 DEF Inv
<1>7. CASE /\ ~CanFetch /\ stop' = IF late THEN "max_runtime" ELSE "max_fetch"
           /\ Becomes(n, "denied") /\ UNCHANGED <<spent, called>>
  <2>1. /\ node' \in Seq(NodeStates) /\ order' \in Seq(Nat \ {0}) /\ Nodes' = Nodes
        /\ node'[n] = "denied" /\ \A m \in Nodes \ {n} : node'[m] = node[m]
        /\ TurnInv'
    BY <1>4, <1>7
  <2>2. stop' \in StopReasons
    BY <1>7 DEF StopReasons
  <2>3. TypeOK'
    BY <1>1, <1>7, <2>1, <2>2 DEF Inv, TypeOK, NodeStates
  <2>4. BudgetHolds'
    BY <1>1, <1>7 DEF Inv, BudgetHolds, SearchLeftForFallback
  <2>5. StopInv'
    <3>1. spent.fetch <= Budget.fetch /\ spent.fetch \in Nat
      BY DEF Inv, BudgetHolds, TypeOK
    <3>2. late \/ spent.fetch = Budget.fetch
      BY <1>7, <3>1 DEF CanFetch
    <3> QED
      BY <1>1, <1>7, <3>2 DEF StopInv
  <2>6. DeniedInv'
    BY <1>1, <1>7 DEF DeniedInv, CanFetch
  <2>7. BudgetGoesToBest'
    <3> SUFFICES ASSUME NEW i \in Nodes, NEW j \in Nodes, node'[i] = "denied", i < j
                 PROVE  \/ node'[j] \in {"waiting", "queued", "denied"}
                        \/ Cache /\ node'[j] \in {"page", "blank"}
      BY <2>1 DEF BudgetGoesToBest
    <3>1. CASE i = n
      <4>1. node[j] \in {"waiting", "queued"} /\ j # n
        BY <1>1, <1>2, <3>1 DEF Inv, TurnInv, Turn
      <4> QED
        BY <2>1, <4>1
    <3>2. CASE i # n
      BY <1>1, <2>1, <3>2 DEF Inv, BudgetGoesToBest
    <3> QED
      BY <3>1, <3>2
  <2> QED
    BY <1>3, <2>1, <2>3, <2>4, <2>5, <2>6, <2>7 DEF Inv
<1> QED
  BY <1>5, <1>6, <1>7 DEF Fetch

\* A provider answers, or raises, and nothing more is charged.
LEMMA AnswerInv == ASSUME Inv, NEW n \in Nodes, Answer(n) \/ Raise(n) PROVE Inv'
<1>1. /\ UNCHANGED <<round, pc, tokens, spent, late, stop, validated, reason, called, extracted>>
      /\ node[n] \in {"calling", "retrying"} /\ pc \in Kinds /\ raised' \in BOOLEAN
  BY DEF Answer, Raise, tracker, outcome, history, Inv, TypeOK
<1>2. PICK s \in {"found", "page", "blank", "raised"} : Becomes(n, s)
  BY DEF Answer, Raise
<1>3. s \in NodeStates \ {"waiting", "queued", "denied"}
  BY DEF NodeStates, Ended
<1>4. node' \in Seq(NodeStates) /\ order' \in Seq(Nat \ {0})
  BY <1>2, <1>3, BecomesFact DEF Inv
<1>5. TurnInv' /\ DeniedInv' /\ BudgetGoesToBest' /\ Cardinality(Pending') = Cardinality(Pending)
  BY <1>1, <1>2, <1>3, InFlightMoves DEF CanFetch
<1>6. TypeOK'
  BY <1>1, <1>4 DEF Inv, TypeOK, NodeStates
<1>7. BudgetHolds' /\ StopInv' /\ ReasonHolds'
  BY <1>1 DEF Inv, BudgetHolds, SearchLeftForFallback, StopInv, ReasonHolds
<1>8. SearchInv'
  BY <1>1, <1>5 DEF Inv, SearchInv, Reserve
<1> QED
  BY <1>5, <1>6, <1>7, <1>8 DEF Inv

\* A page is fetched again, and charged again, or time runs out.
LEMMA RetryInv == ASSUME Inv, NEW n \in Nodes, Retry(n) PROVE Inv'
<1>1. /\ UNCHANGED <<round, pc, raised, tokens, validated, reason, extracted>>
      /\ pc = "fetch" /\ node[n] = "calling" /\ CanFetch
  BY DEF Retry, outcome
<1>2. SearchInv' /\ ReasonHolds'
  BY <1>1 DEF SearchInv, ReasonHolds
<1>3. {"retrying", "blank"} \subseteq NodeStates \ {"waiting", "queued", "denied"}
  BY DEF NodeStates, Ended
<1>4. CASE Charge("fetch") /\ Becomes(n, "retrying") /\ UNCHANGED <<late, stop>>
  <2>1. /\ spent' \in [search : Nat, fetch : Nat, extract : Nat] /\ called' \in [Kinds -> Nat]
        /\ BudgetHolds' /\ StopInv'
    BY <1>1, <1>4, FetchCharged
  <2>2. node' \in Seq(NodeStates) /\ order' \in Seq(Nat \ {0})
    BY <1>3, <1>4, BecomesFact DEF Inv
  <2>3. TurnInv' /\ DeniedInv' /\ BudgetGoesToBest'
    BY <1>1, <1>3, <1>4, InFlightMoves
  <2>4. TypeOK'
    BY <1>1, <1>4, <2>1, <2>2 DEF Inv, TypeOK, NodeStates
  <2> QED
    BY <1>2, <2>1, <2>3, <2>4 DEF Inv
<1>5. CASE /\ late' = TRUE /\ stop' = "max_runtime" /\ Becomes(n, "blank")
           /\ UNCHANGED <<spent, called>>
  <2>1. node' \in Seq(NodeStates) /\ order' \in Seq(Nat \ {0})
    BY <1>3, <1>5, BecomesFact DEF Inv
  <2>2. TurnInv' /\ DeniedInv' /\ BudgetGoesToBest'
    BY <1>1, <1>3, <1>5, InFlightMoves
  <2>3. late' \in BOOLEAN /\ stop' \in StopReasons
    BY <1>5 DEF StopReasons
  <2>4. TypeOK'
    BY <1>1, <1>5, <2>1, <2>3 DEF Inv, TypeOK, NodeStates
  <2>5. BudgetHolds' /\ StopInv'
    BY <1>1, <1>5 DEF Inv, BudgetHolds, SearchLeftForFallback, StopInv
  <2> QED
    BY <1>2, <2>2, <2>4, <2>5 DEF Inv
<1> QED
  BY <1>4, <1>5 DEF Retry

-----------------------------------------------------------------------------
(* Time, and every step                                                     *)

\* Buckets refill, and the deadline passes.
LEMMA TimeInv == Inv /\ (Expire \/ (\E k \in Kinds : Refill(k)) \/ UNCHANGED vars) => Inv'
<1> SUFFICES ASSUME Inv, Expire \/ (\E k \in Kinds : Refill(k)) \/ UNCHANGED vars PROVE Inv'
  OBVIOUS
<1> USE GatherAssumption
<1>1. /\ UNCHANGED <<round, pc, raised, node, order, spent, stop, validated, reason, called, extracted>>
      /\ late' = late \/ late' = TRUE
  BY DEF Expire, Refill, vars, level, tracker, outcome, history
<1>2. tokens' \in [Kinds -> Nat]
  <2>1. tokens \in [Kinds -> Nat]
    BY DEF Inv, TypeOK
  <2>2. ASSUME NEW k \in Kinds, Refill(k) PROVE tokens' \in [Kinds -> Nat]
    <3>1. tokens' = [tokens EXCEPT ![k] = tokens[k] + 1]
      BY <2>2 DEF Refill
    <3> QED
      BY <2>1, <3>1
  <2> QED
    BY <2>1, <2>2 DEF Expire, vars
<1>3. TypeOK'
  BY <1>1, <1>2 DEF Inv, TypeOK
<1>4. BudgetHolds' /\ StopInv' /\ ReasonHolds'
  BY <1>1 DEF Inv, BudgetHolds, SearchLeftForFallback, StopInv, ReasonHolds
<1>5. SearchInv'
  BY <1>1 DEF Inv, SearchInv, Pending, Nodes, Reserve
<1>6. TurnInv' /\ DeniedInv' /\ BudgetGoesToBest'
  BY <1>1 DEF Inv, TurnInv, DeniedInv, BudgetGoesToBest, Nodes, CanFetch
<1> QED
  BY <1>3, <1>4, <1>5, <1>6 DEF Inv

\* Every step of the specification keeps the invariant.
LEMMA NextInv == Inv /\ [Next]_vars => Inv'
<1> SUFFICES ASSUME Inv, [Next]_vars PROVE Inv'
  OBVIOUS
<1>1. CASE Controller
  BY <1>1, QueriesInv, UrlsInv, BetweenInv, ExtractInv, StopStepInv DEF Controller
<1>2. ASSUME NEW n \in Nodes, NodeStep(n) PROVE Inv'
  BY <1>2, AcquireInv, SearchStepInv, FetchInv, AnswerInv, RetryInv DEF NodeStep
<1> QED
  BY <1>1, <1>2, TimeInv DEF Next

\* The inductive invariant holds of every reachable state.
THEOREM InvCorrect == Spec => []Inv
<1> QED
  BY InitInv, NextInv, PTL DEF Spec

\* Every variable keeps its type.
THEOREM TypeCorrect == Spec => []TypeOK
<1>1. Inv => TypeOK
  BY DEF Inv
<1> QED
  BY <1>1, InvCorrect, PTL

\* Over all the gathers of a run and however their nodes interleave, no limit is
\* exceeded, every provider call was charged first, and a search is left for the
\* fallback.
THEOREM BudgetCorrect == Spec => []BudgetHolds
<1>1. Inv => BudgetHolds
  BY DEF Inv
<1> QED
  BY <1>1, InvCorrect, PTL

\* A URL is refused for want of budget only if every worse one is too.
THEOREM BestFetchedCorrect == Spec => []BudgetGoesToBest
<1>1. Inv => BudgetGoesToBest
  BY DEF Inv
<1> QED
  BY <1>1, InvCorrect, PTL

\* The limit that the run names as its stop reason was reached.
THEOREM ReasonCorrect == Spec => []ReasonHolds
<1>1. Inv => ReasonHolds
  BY DEF Inv
<1> QED
  BY <1>1, InvCorrect, PTL

=============================================================================
