-------------------------- MODULE IdentityRegistry --------------------------
(***************************************************************************)
(* The supplier alias registry of spider_qwen/identity_registry.py: one file *)
(* per owner, shared by every process and thread of the service.             *)
(*                                                                          *)
(* approve_alias() reads the file, changes what it read and replaces the     *)
(* file under an exclusive file lock that dies with its holder; resolve()     *)
(* and equivalent() read under the same lock.  A process is one caller with a *)
(* registry of its own, as every run has: it keeps nothing that it does not    *)
(* read again.                                                              *)
(***************************************************************************)
EXTENDS Naturals, FiniteSets

CONSTANTS
    Ids,        \* supplier ids
    Refs,       \* ledger ids of evidence
    Processes,  \* callers
    None        \* no canonical id, no holder of the lock

ASSUME IdentityRegistryAssumption == None \notin Ids \cup Processes

VARIABLES
    \* supplier_identities.json: the canonical id and the evidence of each alias
    file,
    \* supplier_identities.lock
    lock,
    \* per process: the approval under way, and the aliases it read for it
    call,
    \* history: what resolve() answered, and the approvals that returned
    answers, approved

vars == <<file, lock, call, answers, approved>>

NoCall == [alias |-> None, canonical |-> None, refs |-> {}, read |-> None]
Idle(p) == call[p] = NoCall

-----------------------------------------------------------------------------
(* Chains of aliases: `to` gives the canonical id of an alias, None otherwise *)

\* y is on the chain that starts at x.
Follows(x, y, to) ==
    \A S \in SUBSET Ids : x \in S /\ (\A z \in S : to[z] # None => to[z] \in S) => y \in S

Ends(x, y, to) == to[y] = None /\ Follows(x, y, to)

\* _resolve_from, which raises on a cycle.
Cyclic(to) == \E x \in Ids : ~\E y \in Ids : Ends(x, y, to)
Resolved(x, to) == CHOOSE y \in Ids : Ends(x, y, to)

\* _normalize: every alias names the end of its chain.
Normalized(to) == [x \in Ids |-> IF to[x] = None THEN None ELSE Resolved(to[x], to)]

-----------------------------------------------------------------------------
Init ==
    /\ file = [to |-> [x \in Ids |-> None], refs |-> [x \in Ids |-> {}]]
    /\ lock = None
    /\ call = [p \in Processes |-> NoCall]
    /\ answers = {} /\ approved = {}

\* Mutant: the lock is not taken.
ReadUnlocked(p, a, c, R) ==
    /\ Idle(p) /\ ~Cyclic(file.to)
    /\ a # c /\ R # {}
    /\ lock' = p
    /\ call' = [call EXCEPT ![p] = [alias |-> a, canonical |-> c, refs |-> R,
                                    read |-> [file EXCEPT !.to = Normalized(@)]]]
    /\ UNCHANGED <<file, answers, approved>>

\* approve_alias: the checks of its arguments, then the lock and the file.
Read(p, a, c, R) ==
    /\ Idle(p) /\ lock = None /\ ~Cyclic(file.to)
    /\ a # c /\ R # {}
    /\ lock' = p
    /\ call' = [call EXCEPT ![p] = [alias |-> a, canonical |-> c, refs |-> R,
                                    read |-> [file EXCEPT !.to = Normalized(@)]]]
    /\ UNCHANGED <<file, answers, approved>>

Target(x) == Resolved(x.canonical, x.read.to)

\* Mutant: an alias may be moved to another supplier.
RefusedCycleOnly(x) == Target(x) = x.alias

\* The approval would close a cycle, or move an alias to another supplier.
Refused(x) ==
    \/ Target(x) = x.alias
    \/ x.read.to[x.alias] # None /\ Resolved(x.read.to[x.alias], x.read.to) # Target(x)

\* A new alias, or more evidence for one there is.
Updated(x) ==
    [to |-> Normalized([x.read.to EXCEPT ![x.alias] = Target(x)]),
     refs |-> [x.read.refs EXCEPT ![x.alias] = @ \cup x.refs]]

\* The call ends, and with it the lock.
Release(p) ==
    /\ lock' = IF lock = p THEN None ELSE lock
    /\ call' = [call EXCEPT ![p] = NoCall]

Refuse(p) ==
    /\ ~Idle(p) /\ Refused(call[p])
    /\ Release(p)
    /\ UNCHANGED <<file, answers, approved>>

\* os.replace has happened.
Write(p) ==
    /\ ~Idle(p) /\ ~Refused(call[p])
    /\ file' = Updated(call[p])
    /\ approved' = approved \cup {<<call[p].alias, call[p].canonical>>}
    /\ Release(p)
    /\ UNCHANGED answers

\* The write fails, or the process dies, before the file is replaced.
Abandon(p) ==
    /\ ~Idle(p)
    /\ Release(p)
    /\ UNCHANGED <<file, answers, approved>>

\* The process dies after the file is replaced: nobody is told.
Die(p) ==
    /\ ~Idle(p) /\ ~Refused(call[p])
    /\ file' = Updated(call[p])
    /\ Release(p)
    /\ UNCHANGED <<answers, approved>>

\* equivalent(), which holds the lock from reading to answering, and resolve(), which
\* reads under the lock and follows what it read after: of a registry of its own, the same.
Resolve(x) ==
    /\ lock = None /\ ~Cyclic(file.to)
    /\ answers' = answers \cup {<<x, Resolved(x, Normalized(file.to))>>}
    /\ UNCHANGED <<file, lock, call, approved>>

Next ==
    \/ \E p \in Processes :
         \/ \E a, c \in Ids, R \in SUBSET Refs : Read(p, a, c, R)
         \/ Refuse(p) \/ Write(p) \/ Abandon(p) \/ Die(p)
    \/ \E x \in Ids : Resolve(x)

Spec == Init /\ [][Next]_vars

-----------------------------------------------------------------------------
(* Properties                                                               *)

Aliases == [to : [Ids -> Ids \cup {None}], refs : [Ids -> SUBSET Refs]]
Calls == [alias : Ids, canonical : Ids, refs : SUBSET Refs, read : Aliases]

(* Every variable has its type, and every alias its evidence.                  *)
TypeOK ==
    /\ file \in Aliases
    /\ \A x \in Ids : file.to[x] # None => file.refs[x] # {}
    /\ lock \in Processes \cup {None}
    /\ call \in [Processes -> Calls \cup {NoCall}]
    /\ answers \subseteq Ids \X Ids /\ approved \subseteq Ids \X Ids

\* No alias names another alias.
Flat(to) == \A x \in Ids : to[x] # None => to[to[x]] = None

Canonical == [x \in Ids |-> Resolved(x, file.to)]

(* The registry is a partition of the supplier ids that approvals only coarsen,*)
(* whatever processes race, fail or die.                                       *)
Partition == INSTANCE SupplierPartition WITH canonical <- Canonical
PartitionSpec == Partition!Spec

(* A canonical id handed out before (and stored in a candidate, a fact, an RFQ) *)
(* never stops naming the supplier it was given for.                           *)
AnswersStand == \A e \in answers : Canonical[e[1]] = Canonical[e[2]]

(* An approval that returned is never lost or reversed.                        *)
ApprovalsStand ==
    \A e \in approved : file.to[e[1]] # None /\ Canonical[e[1]] = Canonical[e[2]]

(* Evidence an alias was approved on is never dropped.                         *)
EvidenceKept == [][\A x \in Ids : file.refs[x] \subseteq file'.refs[x]]_vars

(* The inductive invariant: the file is flat, and a process that is changing    *)
(* it holds the lock and has read what is there.                               *)
Inv ==
    /\ TypeOK
    /\ Flat(file.to)
    /\ \A p \in Processes : ~Idle(p) =>
         /\ lock = p
         /\ call[p].read = file
         /\ call[p].alias # call[p].canonical /\ call[p].refs # {}

=============================================================================
