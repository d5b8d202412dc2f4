--------------------------- MODULE SemanticMemory ---------------------------
(***************************************************************************)
(* The semantic memory of one owner, shared by that owner's runs and by the  *)
(* operator's `memory` commands: spider_qwen/memory/semantic.py with the     *)
(* parts of AutonomousController.run that read and write it.                 *)
(*                                                                          *)
(* Every access holds a thread lock and a file lock; a transaction reads the  *)
(* file, changes what it read and replaces the file before it lets go.  A run *)
(* recalls facts when it starts, may use one as a candidate's quote channel,  *)
(* credits a citation for it, drafts an RFQ, and at its end promotes what its  *)
(* pages showed.  A run is about one supplier, so about one key.              *)
(***************************************************************************)
EXTENDS FactOperations

CONSTANTS
    Runs,        \* the controllers' runs
    Operator,    \* the process of the `memory` commands
    Nobody,      \* the holder of a free lock
    Confs,       \* confidences, in tenths
    MaxDay,      \* bound: days that pass
    MaxCommands  \* bound: `memory` commands that write

ASSUME SemanticMemoryAssumption ==
    /\ Operator \notin Runs /\ Nobody \notin Runs \cup {Operator}
    /\ Confs \subseteq 0..10 /\ MaxDay \in Nat /\ MaxCommands \in Nat

Actors == Runs \cup {Operator}

\* Rows of evidence: of a run's ledger, from a page or from memory, and the one
\* an operator names on the command line.
PageRow(a) == [by |-> a, tool |-> "page"]
MemoryRow(a) == [by |-> a, tool |-> "semantic_memory"]
Rows == [by : Actors, tool : {"page", "semantic_memory"}]

\* What fills a candidate's quote channel: nothing, its page, or a recalled fact.
NoChannel == [from |-> "nothing"]
PageChannel(v, c, own) == [from |-> "page", value |-> v, conf |-> c, own |-> own]
Recalled(f) == [from |-> "memory", value |-> f.value]

NoOp == [kind |-> "none"]
Upsert(k, v, c, r, d) ==
    [kind |-> "upsert", key |-> k, value |-> v, conf |-> c, refs |-> r, day |-> d]
Maintain(d) == [kind |-> "maintain", day |-> d]
Cite(k) == [kind |-> "cite", key |-> k]
Revalidate(k, seen, v, c, r, d) ==
    [kind |-> "revalidate", key |-> k, seen |-> seen, value |-> v, conf |-> c,
     refs |-> r, day |-> d]

VARIABLES
    facts,     \* semantic.json
    lock,      \* who holds the file's lock
    txn,       \* per actor: the operation in its transaction, and the facts it read
    pc,        \* per run: how far it is
    key,       \* per run: the supplier it is about
    recalled,  \* per run: the facts it recalled, as they were
    channel,   \* per run: what fills the candidate's quote channel
    draft,     \* per run: the channel its RFQ draft names
    today,     \* the date
    commands,  \* `memory` commands so far
    acked,     \* per key: rows of evidence that were promoted and not overwritten
    began      \* per run: the day it started

store == <<facts, lock, txn, acked>>
run == <<pc, key, recalled, channel, draft, began>>
vars == <<store, run, today, commands>>

Idle == [op |-> NoOp, read |-> NoFacts]

Init ==
    /\ facts = NoFacts /\ lock = Nobody /\ txn = [a \in Actors |-> Idle]
    /\ pc = [r \in Runs |-> "start"] /\ key \in [Runs -> Keys]
    /\ recalled = [r \in Runs |-> NoFacts]
    /\ channel = [r \in Runs |-> NoChannel] /\ draft = [r \in Runs |-> NoChannel]
    /\ today = 0 /\ commands = 0
    /\ acked = [k \in Keys |-> {}] /\ began = [r \in Runs |-> 0]

-----------------------------------------------------------------------------
(* Transactions                                                             *)

\* Mutant: the transaction does not take the lock.
BeginUnlocked(a, op) ==
    /\ txn[a] = Idle
    /\ txn' = [txn EXCEPT ![a] = [op |-> op, read |-> facts]]
    /\ UNCHANGED <<facts, lock, acked>>

\* _transaction up to the mutation: the lock is taken and the file read.
Begin(a, op) ==
    /\ lock = Nobody /\ lock' = a
    /\ txn' = [txn EXCEPT ![a] = [op |-> op, read |-> facts]]
    /\ UNCHANGED <<facts, acked>>

\* The rest of it: the changed facts replace the file and the lock is released.
\* A refresh that overwrites a value replaces its evidence.
Commit(a) ==
    LET op == txn[a].op
        new == Applied(txn[a].read, op)
    IN  /\ op # NoOp
        /\ facts' = new
        /\ lock' = Nobody /\ txn' = [txn EXCEPT ![a] = Idle]
        /\ acked' =
            CASE op.kind = "upsert" -> [acked EXCEPT ![op.key] = @ \cup op.refs]
              [] op.kind = "revalidate" /\ op.key \in DOMAIN new ->
                    [acked EXCEPT ![op.key] = @ \cap RefsOf(new[op.key])]
              [] OTHER -> acked

Readable(k) == facts[k].status = "active"

-----------------------------------------------------------------------------
(* A run                                                                    *)

\* Mutant: recall without maintain() before it.
StartMaintainNothing(r) ==
    /\ pc[r] = "start" /\ Begin(r, Cite(key[r]))
    /\ pc' = [pc EXCEPT ![r] = "maintaining"] /\ began' = [began EXCEPT ![r] = today]
    /\ UNCHANGED <<key, recalled, channel, draft, today, commands>>

\* _recall_memory: maintain() ...
StartMaintain(r) ==
    /\ pc[r] = "start" /\ Begin(r, Maintain(today))
    /\ pc' = [pc EXCEPT ![r] = "maintaining"] /\ began' = [began EXCEPT ![r] = today]
    /\ UNCHANGED <<key, recalled, channel, draft, today, commands>>

\* ... and recall(): of the active facts, those the query, top_k and the context
\* budget leave.  An exception in either leaves none.
Recall(r) ==
    /\ pc[r] = "recall" /\ lock = Nobody
    /\ \E found \in SUBSET {k \in DOMAIN facts : Readable(k)} :
          recalled' = [recalled EXCEPT ![r] = [k \in found |-> facts[k]]]
    /\ pc' = [pc EXCEPT ![r] = "gather"]
    /\ UNCHANGED <<key, channel, draft, today, commands, began, store>>

RecallError(r) ==
    /\ pc[r] \in {"start", "recall"}
    /\ pc' = [pc EXCEPT ![r] = "gather"]
    /\ UNCHANGED <<key, recalled, channel, draft, today, commands, began, store>>

\* The pages of the run's candidate show a quote channel, or a recalled fact of
\* its supplier that is fit for an RFQ becomes it, or it has none.
Gather(r) ==
    /\ pc[r] = "gather"
    /\ \/ \E v \in Values, c \in Confs, own \in BOOLEAN :
             channel' = [channel EXCEPT ![r] = PageChannel(v, c, own)]
       \/ /\ key[r] \in DOMAIN recalled[r]
          /\ recalled[r][key[r]].status = "active"
          /\ channel' = [channel EXCEPT ![r] = Recalled(recalled[r][key[r]])]
       \/ /\ key[r] \notin DOMAIN recalled[r]
          /\ UNCHANGED channel
    /\ pc' = [pc EXCEPT ![r] = IF channel'[r] = NoChannel THEN "done" ELSE "verify"]
    /\ UNCHANGED <<key, recalled, draft, today, commands, began, store>>

\* The spine rejects the candidate: it is not validated if claims are verified,
\* or else it is but its use of a fact is not credited.
Unverified(r) ==
    /\ pc[r] = "verify"
    /\ \E verifyClaims \in BOOLEAN :
          pc' = [pc EXCEPT ![r] = IF verifyClaims THEN "done" ELSE "rfq"]
    /\ UNCHANGED <<key, recalled, channel, draft, today, commands, began, store>>

\* The spine grounds it in this run's pages; record_citations().
Verified(r) ==
    /\ pc[r] = "verify"
    /\ IF channel[r].from = "memory"
       THEN /\ Begin(r, Cite(key[r]))
            /\ pc' = [pc EXCEPT ![r] = "crediting"]
       ELSE /\ pc' = [pc EXCEPT ![r] = "rfq"]
            /\ UNCHANGED store
    /\ UNCHANGED <<key, recalled, channel, draft, today, commands, began>>

\* _build_rfqs: the draft names the candidate's channel.
Draft(r) ==
    /\ pc[r] = "rfq"
    /\ draft' = [draft EXCEPT ![r] = channel[r]]
    /\ pc' = [pc EXCEPT ![r] = "promote"]
    /\ UNCHANGED <<key, recalled, channel, today, commands, began, store>>

\* Mutant: a channel that came from memory is promoted like one from a page.
PromotesAny(r) == channel[r].from = "memory" \/ channel[r].own

\* from_page() and should_promote_contact() of _persist_semantic.
Promotes(r) ==
    /\ channel[r].from = "page"
    /\ ShouldPromote({r}, channel[r].conf, channel[r].own)

Promoted(r) ==
    IF channel[r].from = "page"
    THEN Upsert(key[r], channel[r].value, channel[r].conf, {PageRow(r)}, today)
    ELSE Upsert(key[r], channel[r].value, 8, {MemoryRow(r)}, today)

Promote(r) ==
    /\ pc[r] = "promote"
    /\ IF Promotes(r)
       THEN Begin(r, Promoted(r)) /\ pc' = [pc EXCEPT ![r] = "promoting"]
       ELSE UNCHANGED store /\ pc' = [pc EXCEPT ![r] = "done"]
    /\ UNCHANGED <<key, recalled, channel, draft, today, commands, began>>

Following(p) ==
    CASE p = "maintaining" -> "recall"
      [] p = "crediting"   -> "rfq"
      [] p = "promoting"   -> "done"

CommitRun(r) ==
    /\ Commit(r)
    /\ pc' = [pc EXCEPT ![r] = Following(pc[r])]
    /\ UNCHANGED <<key, recalled, channel, draft, today, commands, began>>

\* The process of a run dies; the operating system releases its lock, and a
\* transaction that has not replaced the file has changed nothing.
Crash(r) ==
    /\ pc[r] \notin {"done", "dead"}
    /\ pc' = [pc EXCEPT ![r] = "dead"]
    /\ txn' = [txn EXCEPT ![r] = Idle]
    /\ lock' = IF lock = r THEN Nobody ELSE lock
    /\ UNCHANGED <<facts, acked, key, recalled, channel, draft, began, today, commands>>

-----------------------------------------------------------------------------
(* The operator                                                             *)

\* `memory show`, and `memory revalidate`: the command line names a value or
\* none, and a new row or else the fact's own evidence as `fact` shows it.
Command ==
    /\ commands < MaxCommands /\ commands' = commands + 1
    /\ \/ Begin(Operator, Maintain(today))
       \/ \E k \in DOMAIN facts, v \in Values, c \in Confs, seen \in BOOLEAN :
             \E refs \in {facts[k].refs, {PageRow(Operator)}} :
                Begin(Operator, Revalidate(k, seen, v, c, refs, today))
    /\ UNCHANGED <<run, today>>

CommitCommand ==
    /\ Commit(Operator)
    /\ UNCHANGED <<run, today, commands>>

NextDay ==
    /\ today < MaxDay /\ today' = today + 1
    /\ UNCHANGED <<store, run, commands>>

-----------------------------------------------------------------------------

RunStep(r) ==
    \/ StartMaintain(r) \/ Recall(r) \/ RecallError(r) \/ Gather(r) \/ Unverified(r)
    \/ Verified(r) \/ Draft(r) \/ Promote(r) \/ CommitRun(r)

Next ==
    \/ \E r \in Runs : RunStep(r) \/ Crash(r)
    \/ Command \/ CommitCommand \/ NextDay

Spec == Init /\ [][Next]_vars

-----------------------------------------------------------------------------
(* Properties                                                               *)

FactType ==
    [value : Values, conf : Nat, refs : SUBSET Rows, verified : Nat, status : Statuses,
     alts : SUBSET [value : Values, conf : Nat, refs : SUBSET Rows],
     reinforced : Nat, cited : Nat]

\* Types of the variables.
TypeOK ==
    /\ DOMAIN facts \subseteq Keys /\ \A k \in DOMAIN facts : facts[k] \in FactType
    /\ lock \in Actors \cup {Nobody}
    /\ DOMAIN txn = Actors
    /\ \A a \in Actors : txn[a].op.kind \in {"none", "upsert", "maintain", "cite", "revalidate"}
    /\ pc \in [Runs -> {"start", "maintaining", "recall", "gather", "verify", "crediting",
                        "rfq", "promote", "promoting", "done", "dead"}]
    /\ key \in [Runs -> Keys]
    /\ today \in 0..MaxDay /\ commands \in 0..MaxCommands
    /\ acked \in [Keys -> SUBSET Rows] /\ began \in [Runs -> 0..MaxDay]

Store == INSTANCE FactStore WITH asked <- {txn[a].op : a \in Actors} \ {NoOp}

\* The locked file implements the abstract store: runs, the operator's commands
\* and crashes interleave as they will, every transaction starts from what the
\* one before it wrote (semantic.py:172).
Serializable == Store!StoreSpec

\* Evidence that upsert() has stored for a fact stays with the fact or with one
\* of its disputed sides, until a revalidation overwrites the value.
PromotionKept ==
    \A k \in Keys : acked[k] # {} => k \in DOMAIN facts /\ acked[k] \subseteq RefsOf(facts[k])

\* No side of a dispute is surer than the value the fact shows, whatever order
\* the sides came in and whatever was reinforced or revalidated since
\* (semantic.py:229).
SurestShown ==
    \A k \in DOMAIN facts : \A s \in facts[k].alts : s.conf =< facts[k].conf

\* Only pages support a fact: no chain of recalls and promotions makes memory
\* its own evidence (controller.py:2393).
NoSelfSupport ==
    \A k \in DOMAIN facts : \A ref \in RefsOf(facts[k]) : ref.tool = "page"

\* A dispute is only settled by a revalidation that the operator asks for.
DisputeStands ==
    [][\A k \in DOMAIN facts :
          facts[k].status = "disputed" /\ txn[Operator].op.kind # "revalidate"
              => k \in DOMAIN facts' /\ facts'[k].status = "disputed"]_vars

\* What a run recalls was verified within StaleDays of its start, though facts
\* only become stale when somebody runs maintain() (controller.py:1357).
RecallFresh ==
    \A r \in Runs : \A k \in DOMAIN recalled[r] : ~IsStale(recalled[r][k], began[r])

\* What a run recalls can be relied on: it is fresh, and the surest there was.
RecallIsSound == SurestShown /\ RecallFresh

\* "a fact with status='disputed' must never appear in a generated RFQ draft"
\* (recall.py:122): when a draft names a recalled channel, its fact is not disputed.
NoDisputedInDraft ==
    [][\A r \in Runs :
          draft'[r] # draft[r] /\ draft'[r].from = "memory"
              => facts[key[r]].status # "disputed"]_vars

=============================================================================
