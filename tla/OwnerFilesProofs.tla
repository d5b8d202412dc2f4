-------------------------- MODULE OwnerFilesProofs --------------------------
(***************************************************************************)
(* Theorems about the two files that the owner's `suppliers' and `review'     *)
(* commands write, IdentityRegistry and ReviewStore, for any suppliers,       *)
(* evidence, callers, runs and commands.                                     *)
(*                                                                          *)
(* The registry: the lemmas compute what following a chain returns where the *)
(* file is flat, so that no argument needs induction: every chain that is    *)
(* followed has at most one link, or two right after an approval.            *)
(*                                                                          *)
(* The review store: the file is whole whatever interleaves or dies, and     *)
(* operations that come one after the other keep every event and every       *)
(* decision.                                                                 *)
(***************************************************************************)
EXTENDS IdentityRegistry, ReviewStore, TLAPS

Links == [Ids -> Ids \cup {None}]

\* A canonical id is the end of its own chain.
LEMMA ResolveCanonical ==
    ASSUME NEW to \in Links, NEW x \in Ids, to[x] = None
    PROVE  Ends(x, x, to) /\ Resolved(x, to) = x
<1>1. Ends(x, x, to)
  BY DEF Ends, Follows
<1>2. ASSUME NEW y \in Ids, Ends(x, y, to) PROVE y = x
  <2>1. {x} \in SUBSET Ids /\ \A z \in {x} : to[z] # None => to[z] \in {x}
    OBVIOUS
  <2>2. y \in {x}
    BY <1>2, <2>1 DEF Ends, Follows
  <2> QED BY <2>2
<1> QED BY <1>1, <1>2 DEF Resolved

\* An alias of a canonical id resolves to it.
LEMMA ResolveAlias ==
    ASSUME NEW to \in Links, NEW x \in Ids, to[x] # None, to[to[x]] = None
    PROVE  Ends(x, to[x], to) /\ Resolved(x, to) = to[x]
<1>0. to[x] \in Ids /\ None \notin Ids
  BY IdentityRegistryAssumption DEF Links
<1>1. Ends(x, to[x], to)
  BY DEF Ends, Follows
<1>2. ASSUME NEW y \in Ids, Ends(x, y, to) PROVE y = to[x]
  <2>1. {x, to[x]} \in SUBSET Ids
        /\ \A z \in {x, to[x]} : to[z] # None => to[z] \in {x, to[x]}
    BY <1>0
  <2>2. y \in {x, to[x]}
    BY <1>2, <2>1 DEF Ends, Follows
  <2>3. y # x
    BY <1>2 DEF Ends
  <2> QED BY <2>2, <2>3
<1> QED BY <1>0, <1>1, <1>2 DEF Resolved

\* What resolving does in a flat file.
LEMMA FlatResolve ==
    ASSUME NEW to \in Links, Flat(to)
    PROVE  /\ ~Cyclic(to)
           /\ \A x \in Ids : /\ Resolved(x, to) = IF to[x] = None THEN x ELSE to[x]
                             /\ Resolved(x, to) \in Ids /\ to[Resolved(x, to)] = None
           /\ Normalized(to) = to
<1>0. None \notin Ids
  BY IdentityRegistryAssumption
<1>1. ASSUME NEW x \in Ids
      PROVE  /\ Resolved(x, to) = IF to[x] = None THEN x ELSE to[x]
             /\ Resolved(x, to) \in Ids /\ to[Resolved(x, to)] = None
             /\ \E y \in Ids : Ends(x, y, to)
  <2>1. CASE to[x] = None
    BY <2>1, ResolveCanonical
  <2>2. CASE to[x] # None
    <3>1. to[x] \in Ids /\ to[to[x]] = None
      BY <2>2 DEF Flat, Links
    <3> QED BY <2>2, <3>1, ResolveAlias
  <2> QED BY <2>1, <2>2
<1>2. ~Cyclic(to)
  BY <1>1 DEF Cyclic
<1>3. Normalized(to) = to
  <2>1. ASSUME NEW x \in Ids, to[x] # None PROVE Resolved(to[x], to) = to[x]
    BY <2>1, ResolveCanonical DEF Flat, Links
  <2> QED BY <2>1 DEF Normalized, Links
<1> QED BY <1>1, <1>2, <1>3

\* What an approval makes of a flat file: the ids of `a` become ids of `t`.
Merged(to, a, t) == [x \in Ids |-> IF x = a \/ to[x] = a THEN t ELSE to[x]]

LEMMA NormalizeMerges ==
    ASSUME NEW to \in Links, Flat(to), NEW a \in Ids, NEW t \in Ids,
           to[a] = None, to[t] = None, a # t
    PROVE  /\ Normalized([to EXCEPT ![a] = t]) = Merged(to, a, t)
           /\ Merged(to, a, t) \in Links /\ Flat(Merged(to, a, t))
<1> DEFINE m == [to EXCEPT ![a] = t]
<1>0. m \in Links /\ None \notin Ids
  BY IdentityRegistryAssumption DEF Links
<1>1. m[a] = t /\ m[t] = None /\ \A x \in Ids \ {a} : m[x] = to[x]
  BY DEF Links
<1>2. Resolved(t, m) = t
  BY <1>0, <1>1, ResolveCanonical
<1>3. Resolved(a, m) = t
  BY <1>0, <1>1, ResolveAlias
<1>4. ASSUME NEW x \in Ids, x # a, to[x] # None, to[x] # a PROVE Resolved(m[x], m) = to[x]
  <2>1. m[x] = to[x] /\ to[x] \in Ids /\ m[to[x]] = None
    BY <1>1, <1>4 DEF Flat, Links
  <2> QED BY <1>0, <2>1, ResolveCanonical
<1>5. ASSUME NEW x \in Ids PROVE Normalized(m)[x] = Merged(to, a, t)[x]
  <2> HIDE DEF m
  <2>1. CASE x = a
    BY <1>0, <1>1, <1>2, <2>1 DEF Normalized, Merged
  <2>2. CASE x # a /\ to[x] = a
    BY <1>0, <1>1, <1>3, <2>2 DEF Normalized, Merged
  <2>3. CASE x # a /\ to[x] # a
    BY <1>1, <1>4, <2>3 DEF Normalized, Merged
  <2> QED BY <2>1, <2>2, <2>3
<1>6. Normalized(m) = Merged(to, a, t)
  BY <1>5 DEF Normalized, Merged
<1>7. Merged(to, a, t) \in Links
  BY DEF Merged, Links
<1>8. Flat(Merged(to, a, t))
  BY <1>0 DEF Merged, Links, Flat
<1> QED BY <1>6, <1>7, <1>8

-----------------------------------------------------------------------------
(* What one step can do to the file.                                         *)

Merges(a, t) == /\ file.to[a] = None /\ file.to[t] = None /\ a # t
                /\ file'.to = Merged(file.to, a, t)

\* A step of a process changes the file only by an approval it was right to make.
LEMMA UpdateFacts ==
    ASSUME Inv, NEW p \in Processes, ~Idle(p), ~Refused(call[p]), file' = Updated(call[p])
    PROVE  /\ call[p] \in Calls
           /\ \/ Merges(call[p].alias, Resolved(call[p].canonical, file.to))
              \/ /\ file'.to = file.to
                 /\ file.to[call[p].alias] = Resolved(call[p].canonical, file.to)
           /\ file'.to \in Links /\ Flat(file'.to)
           /\ file'.refs = [file.refs EXCEPT ![call[p].alias] = @ \cup call[p].refs]
           /\ Resolved(call[p].canonical, file.to) \in Ids
<1> DEFINE a == call[p].alias
           t == Resolved(call[p].canonical, file.to)
<1>0. /\ call[p] \in Calls /\ call[p].read = file /\ file.to \in Links /\ Flat(file.to)
      /\ None \notin Ids
  BY IdentityRegistryAssumption DEF Inv, TypeOK, Idle, Aliases, Links
<1>1. a \in Ids /\ call[p].canonical \in Ids
  BY <1>0 DEF Calls
<1>2. t \in Ids /\ file.to[t] = None
  BY <1>0, <1>1, FlatResolve
<1>3. t # a
  BY <1>0 DEF Refused, Target
<1>4. /\ file'.to = Normalized([file.to EXCEPT ![a] = t])
      /\ file'.refs = [file.refs EXCEPT ![a] = @ \cup call[p].refs]
  BY <1>0 DEF Updated, Target
<1>5. CASE file.to[a] = None
  <2>1. /\ file'.to = Merged(file.to, a, t) /\ file'.to \in Links /\ Flat(file'.to)
    BY <1>0, <1>1, <1>2, <1>3, <1>4, <1>5, NormalizeMerges
  <2> QED BY <1>0, <1>2, <1>3, <1>4, <1>5, <2>1 DEF Merges
<1>6. CASE file.to[a] # None
  <2>1. file.to[a] \in Ids /\ file.to[file.to[a]] = None
    BY <1>0, <1>1, <1>6 DEF Flat, Links
  <2>2. Resolved(file.to[a], file.to) = file.to[a]
    BY <1>0, <2>1, ResolveCanonical
  <2>3. file.to[a] = t
    BY <1>0, <1>6, <2>2 DEF Refused, Target
  <2>4. [file.to EXCEPT ![a] = t] = file.to
    BY <1>0, <2>3 DEF Links
  <2>5. file'.to = file.to
    BY <1>0, <1>4, <2>4, FlatResolve
  <2> QED BY <1>0, <1>2, <1>4, <2>3, <2>5
<1> QED BY <1>5, <1>6

\* The ids that were one supplier stay one, and nothing else is disturbed.
LEMMA MergeCanonical ==
    ASSUME Inv, NEW a \in Ids, NEW t \in Ids, Merges(a, t), file'.to \in Links, Flat(file'.to)
    PROVE  /\ Canonical[a] = a /\ Canonical[t] = t
           /\ Canonical' = [x \in Ids |-> IF Canonical[x] = a THEN t ELSE Canonical[x]]
<1>0. file.to \in Links /\ Flat(file.to) /\ None \notin Ids
  BY IdentityRegistryAssumption DEF Inv, TypeOK, Aliases, Links
<1>1. \A x \in Ids : Canonical[x] = IF file.to[x] = None THEN x ELSE file.to[x]
  BY <1>0, FlatResolve DEF Canonical
<1>2. \A x \in Ids : Canonical'[x] = IF file'.to[x] = None THEN x ELSE file'.to[x]
  BY FlatResolve DEF Canonical
<1>3. \A x \in Ids : file'.to[x] = IF x = a \/ file.to[x] = a THEN t ELSE file.to[x]
  BY DEF Merges, Merged
<1>4. \A x \in Ids : Canonical'[x] = IF Canonical[x] = a THEN t ELSE Canonical[x]
  BY <1>0, <1>1, <1>2, <1>3 DEF Merges
<1>5. Canonical' = [x \in Ids |-> IF Canonical[x] = a THEN t ELSE Canonical[x]]
  BY <1>4 DEF Canonical
<1> QED BY <1>1, <1>5 DEF Merges


-----------------------------------------------------------------------------
(* The inductive invariant.                                                  *)

LEMMA InitInv == Init => Inv
<1> SUFFICES ASSUME Init PROVE Inv
  OBVIOUS
<1>1. TypeOK
  BY DEF Init, TypeOK, Aliases, NoCall
<1>2. Flat(file.to)
  BY DEF Init, Flat
<1> QED BY <1>1, <1>2 DEF Init, Inv, Idle

\* A process that ends gives the lock back, which nobody else can hold.
LEMMA Releases ==
    ASSUME Inv, NEW p \in Processes, ~Idle(p), Release(p)
    PROVE  /\ lock' = None
           /\ call' \in [Processes -> Calls \cup {NoCall}]
           /\ \A q \in Processes : call'[q] = NoCall
<1>1. lock = p /\ call \in [Processes -> Calls \cup {NoCall}]
  BY DEF Inv, TypeOK
<1>2. \A q \in Processes \ {p} : call[q] = NoCall
  BY <1>1 DEF Inv, Idle
<1> QED BY <1>1, <1>2 DEF Release

LEMMA NextInv == Inv /\ [Next]_vars => Inv'
<1> SUFFICES ASSUME Inv, [Next]_vars PROVE Inv'
  OBVIOUS
<1>0. TypeOK /\ Flat(file.to) /\ file.to \in Links /\ None \notin Ids \cup Processes
  BY IdentityRegistryAssumption DEF Inv, TypeOK, Aliases, Links
<1>1. ASSUME NEW p \in Processes, NEW a \in Ids, NEW c \in Ids, NEW R \in SUBSET Refs,
             Read(p, a, c, R)
      PROVE  Inv'
  <2> DEFINE x == [alias |-> a, canonical |-> c, refs |-> R,
                   read |-> [file EXCEPT !.to = Normalized(@)]]
  <2>1. [file EXCEPT !.to = Normalized(@)] = file
    BY <1>0, FlatResolve DEF TypeOK, Aliases
  <2>2. x \in Calls /\ x.read = file /\ x.alias # x.canonical /\ x.refs # {}
    BY <1>0, <1>1, <2>1 DEF Calls, TypeOK, Read
  <2>3. call' = [call EXCEPT ![p] = x] /\ lock' = p /\ lock = None /\ file' = file
    BY <1>1 DEF Read
  <2> HIDE DEF x
  <2>4. TypeOK'
    BY <1>0, <1>1, <2>2, <2>3 DEF TypeOK, Read
  <2>5. \A q \in Processes \ {p} : call'[q] = NoCall
    BY <1>0, <2>3 DEF Inv, Idle, TypeOK
  <2>6. call'[p] = x
    BY <1>0, <2>3 DEF TypeOK
  <2> QED BY <1>0, <2>2, <2>3, <2>4, <2>5, <2>6 DEF Inv, Idle
<1>2. ASSUME NEW p \in Processes, ~Idle(p), Release(p), UNCHANGED <<file, answers>>,
             approved' = approved
      PROVE  Inv'
  BY <1>0, <1>2, Releases DEF Inv, TypeOK, Idle
<1>3. ASSUME NEW p \in Processes, ~Idle(p), ~Refused(call[p]), file' = Updated(call[p]), Release(p),
             answers' = answers, approved' \subseteq Ids \X Ids
      PROVE  Inv'
  <2>1. /\ file'.to \in Links /\ Flat(file'.to) /\ call[p] \in Calls
        /\ file'.refs = [file.refs EXCEPT ![call[p].alias] = @ \cup call[p].refs]
        /\ \/ Merges(call[p].alias, Resolved(call[p].canonical, file.to))
           \/ file'.to = file.to
    BY <1>3, UpdateFacts
  <2>2. file' = [to |-> file'.to, refs |-> file'.refs]
    BY <1>3 DEF Updated
  <2>3. file'.refs \in [Ids -> SUBSET Refs]
    BY <1>0, <2>1 DEF TypeOK, Aliases, Calls
  <2>4. file' \in Aliases
    BY <2>1, <2>2, <2>3 DEF Aliases, Links
  <2>5. ASSUME NEW x \in Ids, file'.to[x] # None PROVE file'.refs[x] # {}
    <3>1. file.to[x] # None \/ x = call[p].alias
      <4> DEFINE a == call[p].alias
                 t == Resolved(call[p].canonical, file.to)
      <4>1. CASE Merges(a, t)
        <5>1. a \in Ids
          BY <2>1 DEF Calls
        <5>2. file'.to[x] = IF x = a \/ file.to[x] = a THEN t ELSE file.to[x]
          BY <4>1 DEF Merges, Merged
        <5> HIDE DEF a, t
        <5>3. file.to[x] # None \/ x = a
          BY <1>0, <2>5, <5>1, <5>2
        <5> QED BY <5>3 DEF a
      <4>2. CASE file'.to = file.to
        BY <2>5, <4>2
      <4> QED BY <2>1, <4>1, <4>2
    <3>2. call[p].refs # {} /\ file.refs \in [Ids -> SUBSET Refs]
      BY <1>0, <1>3 DEF Inv, TypeOK, Aliases
    <3> QED BY <1>0, <2>1, <3>1, <3>2 DEF TypeOK
  <2> QED BY <1>0, <1>3, <2>1, <2>4, <2>5, Releases DEF Inv, TypeOK, Idle
<1>4. ASSUME NEW p \in Processes, Refuse(p) \/ Abandon(p) PROVE Inv'
  BY <1>2, <1>4 DEF Refuse, Abandon
<1>5. ASSUME NEW p \in Processes, Write(p) PROVE Inv'
  <2>1. call[p] \in Calls
    BY <1>5, UpdateFacts DEF Write
  <2>2. approved' \subseteq Ids \X Ids
    BY <1>0, <1>5, <2>1 DEF Write, TypeOK, Calls
  <2> QED BY <1>3, <1>5, <2>2 DEF Write
<1>6. ASSUME NEW p \in Processes, Die(p) PROVE Inv'
  BY <1>0, <1>3, <1>6 DEF Die, TypeOK
<1>7. ASSUME NEW x \in Ids, Resolve(x) PROVE Inv'
  <2>1. Resolved(x, Normalized(file.to)) \in Ids
    BY <1>0, FlatResolve
  <2> QED BY <1>0, <1>7, <2>1 DEF Resolve, Inv, TypeOK, Idle
<1>8. CASE UNCHANGED vars
  BY <1>0, <1>8 DEF vars, Inv, TypeOK, Idle
<1> QED BY <1>1, <1>4, <1>5, <1>6, <1>7, <1>8 DEF Next

(* The file is flat, and whoever changes it holds the lock and has read it.    *)
THEOREM InvCorrect == Spec => []Inv
  BY InitInv, NextInv, PTL DEF Spec

(* Every variable has its type, and every alias its evidence.                  *)
THEOREM TypeCorrect == Spec => []TypeOK
<1>1. Inv => TypeOK
  BY DEF Inv
<1> QED BY <1>1, InvCorrect, PTL

-----------------------------------------------------------------------------
(* The registry implements a partition that approvals only coarsen.          *)

LEMMA StepMerges ==
    ASSUME Inv, [Next]_vars
    PROVE  (\E a, b \in Ids : Partition!Merge(a, b)) \/ Canonical' = Canonical
<1>1. CASE file'.to = file.to
  BY <1>1 DEF Canonical
<1>2. ASSUME NEW p \in Processes, ~Idle(p), ~Refused(call[p]), file' = Updated(call[p])
      PROVE  (\E a, b \in Ids : Partition!Merge(a, b)) \/ Canonical' = Canonical
  <2> DEFINE a == call[p].alias
             t == Resolved(call[p].canonical, file.to)
  <2>1. a \in Ids /\ t \in Ids /\ file'.to \in Links /\ Flat(file'.to)
        /\ (Merges(a, t) \/ file'.to = file.to)
    BY <1>2, UpdateFacts DEF Calls
  <2> HIDE DEF a, t
  <2>2. CASE Merges(a, t)
    <3>1. Partition!Merge(a, t)
      BY <2>1, <2>2, MergeCanonical DEF Partition!Merge, Merges
    <3> QED BY <2>1, <3>1
  <2> QED BY <1>1, <2>1, <2>2
<1>3. CASE UNCHANGED vars
  BY <1>1, <1>3 DEF vars
<1> QED BY <1>1, <1>2, <1>3 DEF Next, Read, Refuse, Write, Abandon, Die, Resolve

(* Whatever processes race, fail or die, the registry is a partition of the     *)
(* supplier ids that approvals only coarsen.                                    *)
THEOREM PartitionCorrect == Spec => PartitionSpec
<1>1. Init => Partition!Init
  <2> SUFFICES ASSUME Init PROVE Partition!Init
    OBVIOUS
  <2>1. Flat(file.to) /\ file.to \in Links /\ \A x \in Ids : file.to[x] = None
    BY DEF Init, Flat, Links
  <2>2. \A x \in Ids : Resolved(x, file.to) = x
    BY <2>1, FlatResolve
  <2> QED BY <2>2 DEF Partition!Init, Canonical
<1>2. Inv /\ [Next]_vars => [Partition!Next]_Canonical
  BY StepMerges DEF Partition!Next
<1> QED BY <1>1, <1>2, InvCorrect, PTL DEF Spec, PartitionSpec, Partition!Spec

-----------------------------------------------------------------------------
(* What callers may rely on.                                                 *)

\* What one step leaves of two ids that have one canonical id.
LEMMA NeverSplit ==
    ASSUME Inv, [Next]_vars, NEW x \in Ids, NEW y \in Ids, Canonical[x] = Canonical[y]
    PROVE  Canonical'[x] = Canonical'[y]
  BY StepMerges DEF Partition!Merge

LEMMA ResolveIsCanonical ==
    ASSUME Inv, NEW x \in Ids
    PROVE  /\ Canonical[x] = Resolved(x, file.to) /\ Canonical[x] \in Ids
           /\ Canonical[Canonical[x]] = Canonical[x]
           /\ Resolved(x, Normalized(file.to)) = Canonical[x]
<1>1. Flat(file.to) /\ file.to \in Links
  BY DEF Inv, TypeOK, Aliases, Links
<1> QED BY <1>1, FlatResolve DEF Canonical

(* A canonical id handed out before never stops naming its supplier.           *)
THEOREM AnswersCorrect == Spec => []AnswersStand
<1>1. Init => AnswersStand
  BY DEF Init, AnswersStand
<1>2. Inv /\ AnswersStand /\ [Next]_vars => AnswersStand'
  <2> SUFFICES ASSUME Inv, AnswersStand, [Next]_vars, NEW e \in answers'
               PROVE  Canonical'[e[1]] = Canonical'[e[2]]
    BY DEF AnswersStand
  <2>1. CASE e \in answers
    <3>1. e[1] \in Ids /\ e[2] \in Ids
      BY <2>1 DEF Inv, TypeOK
    <3> QED BY <2>1, <3>1, NeverSplit DEF AnswersStand
  <2>2. ASSUME NEW x \in Ids, Resolve(x), e = <<x, Resolved(x, Normalized(file.to))>>
        PROVE  Canonical'[e[1]] = Canonical'[e[2]]
    <3>1. Canonical' = Canonical
      BY <2>2 DEF Resolve, Canonical
    <3> QED BY <2>2, <3>1, ResolveIsCanonical
  <2> QED BY <2>1, <2>2 DEF Next, Read, Refuse, Write, Abandon, Die, Release, Resolve, vars
<1> QED BY <1>1, <1>2, InvCorrect, PTL DEF Spec

(* An approval that returned is never lost or reversed.                        *)
THEOREM ApprovalsCorrect == Spec => []ApprovalsStand
<1>1. Init => ApprovalsStand
  BY DEF Init, ApprovalsStand
<1>2. Inv /\ ApprovalsStand /\ [Next]_vars => ApprovalsStand'
  <2> SUFFICES ASSUME Inv, ApprovalsStand, [Next]_vars, NEW e \in approved'
               PROVE  file'.to[e[1]] # None /\ Canonical'[e[1]] = Canonical'[e[2]]
    BY DEF ApprovalsStand
  <2>0. None \notin Ids /\ file.to \in Links
    BY IdentityRegistryAssumption DEF Inv, TypeOK, Aliases, Links
  <2>1. ASSUME NEW x \in Ids, file.to[x] # None PROVE file'.to[x] # None
    <3>1. ASSUME NEW p \in Processes, ~Idle(p), ~Refused(call[p]), file' = Updated(call[p])
          PROVE  file'.to[x] # None
      <4>1. PICK a \in Ids, t \in Ids : Merges(a, t) \/ file'.to = file.to
        BY <3>1, UpdateFacts DEF Calls
      <4> QED BY <2>0, <2>1, <4>1 DEF Merges, Merged
    <3> QED BY <2>1, <3>1 DEF Next, Read, Refuse, Write, Abandon, Die, Resolve, vars
  <2>2. CASE e \in approved
    <3>1. e[1] \in Ids /\ e[2] \in Ids
      BY <2>2 DEF Inv, TypeOK
    <3> QED BY <2>1, <2>2, <3>1, NeverSplit DEF ApprovalsStand
  <2>3. ASSUME NEW p \in Processes, Write(p), e = <<call[p].alias, call[p].canonical>>
        PROVE  file'.to[e[1]] # None /\ Canonical'[e[1]] = Canonical'[e[2]]
    <3> DEFINE a == call[p].alias
               c == call[p].canonical
               t == Resolved(c, file.to)
    <3>1. /\ a \in Ids /\ c \in Ids /\ t \in Ids
          /\ file'.to \in Links /\ Flat(file'.to)
          /\ Merges(a, t) \/ (file'.to = file.to /\ file.to[a] = t)
      BY <2>3, UpdateFacts DEF Write, Calls
    <3>2. Canonical[c] = t /\ Canonical[t] = t
      BY <3>1, ResolveIsCanonical
    <3> HIDE DEF a, c, t
    <3>3. CASE Merges(a, t)
      <4>1. file'.to[a] = t
        BY <3>1, <3>3 DEF Merges, Merged
      <4>2. Canonical'[a] = t /\ Canonical'[c] = t
        BY <3>1, <3>2, <3>3, MergeCanonical
      <4> QED BY <2>0, <2>3, <3>1, <4>1, <4>2 DEF a, c
    <3>4. CASE file'.to = file.to /\ file.to[a] = t
      <4>1. Canonical' = Canonical
        BY <3>4 DEF Canonical
      <4>2. Canonical[a] = t
        BY <2>0, <3>1, <3>4, FlatResolve DEF Canonical, Inv
      <4> QED BY <2>0, <2>3, <3>1, <3>2, <3>4, <4>1, <4>2 DEF a, c
    <3> QED BY <3>1, <3>3, <3>4
  <2> QED BY <2>2, <2>3 DEF Next, Read, Refuse, Write, Abandon, Die, Release, Resolve, vars
<1> QED BY <1>1, <1>2, InvCorrect, PTL DEF Spec

(* Evidence an alias was approved on is never dropped.                         *)
THEOREM EvidenceCorrect == Spec => EvidenceKept
<1>1. Inv /\ [Next]_vars => [\A x \in Ids : file.refs[x] \subseteq file'.refs[x]]_vars
  <2> SUFFICES ASSUME Inv, Next, NEW x \in Ids PROVE file.refs[x] \subseteq file'.refs[x]
    OBVIOUS
  <2>1. ASSUME NEW p \in Processes, ~Idle(p), ~Refused(call[p]), file' = Updated(call[p])
        PROVE  file.refs[x] \subseteq file'.refs[x]
    <3>1. file'.refs = [file.refs EXCEPT ![call[p].alias] = @ \cup call[p].refs]
      BY <2>1, UpdateFacts
    <3>2. file.refs \in [Ids -> SUBSET Refs]
      BY DEF Inv, TypeOK, Aliases
    <3> QED BY <3>1, <3>2
  <2> QED BY <2>1 DEF Next, Read, Refuse, Write, Abandon, Die, Resolve
<1> QED BY <1>1, InvCorrect, PTL DEF Spec, EvidenceKept

-----------------------------------------------------------------------------
(* The review store.                                                        *)

Statuses == {"pending", "approved", "rejected"}
EventMaps == UNION {[es -> Statuses] : es \in SUBSET Creators}
Files == [kind : {"whole", "half", "missing"}, events : EventMaps]

ReviewTypeOK ==
    /\ reviews \in Files /\ tmp \in [Names -> Files]
    /\ at \in [People -> {"idle", "changed", "opened", "written", "over"}]
    /\ copy \in [People -> EventMaps]
    /\ DOMAIN asked = Reviewers
    /\ overlapped \in BOOLEAN

Active(a) == at[a] \notin {"idle", "over"}

\* The file is whole, and so is what is about to replace it.
WholeInv ==
    /\ reviews.kind = "whole"
    /\ \A a \in People : at[a] = "written" => tmp[a] = Whole(copy[a])

\* Until two operations overlap there is one at a time, and the file is as it read it.
AloneInv ==
    ~overlapped =>
        /\ \A a, b \in People : Active(a) /\ Active(b) => a = b
        /\ \A c \in Creators : Active(c) => copy[c] = With(reviews.events, c, "pending")
        /\ \A r \in Reviewers : Active(r) =>
             /\ asked[r].event \in DOMAIN reviews.events /\ asked[r].status \in {"approved", "rejected"}
             /\ reviews.events[asked[r].event] \in {"pending", asked[r].status}
             /\ copy[r] = With(reviews.events, asked[r].event, asked[r].status)

\* Then the events in the file are of runs that are over, and it is as was answered.
KeptInv ==
    ~overlapped =>
        /\ DOMAIN reviews.events \subseteq {c \in Creators : at[c] = "over"}
        /\ created \subseteq DOMAIN reviews.events
        /\ \A d \in decided : /\ d.event \in DOMAIN reviews.events /\ d.status # "pending"
                              /\ reviews.events[d.event] = d.status

ReviewInv == ReviewTypeOK /\ WholeInv /\ AloneInv /\ KeptInv

-----------------------------------------------------------------------------
(* Events                                                                   *)

\* A map of events with one more, or with one changed.
LEMMA WithFact ==
    ASSUME NEW events \in EventMaps, NEW e \in Creators, NEW s \in Statuses
    PROVE  /\ With(events, e, s) \in EventMaps
           /\ DOMAIN With(events, e, s) = DOMAIN events \cup {e}
           /\ With(events, e, s)[e] = s
           /\ \A x \in DOMAIN events \ {e} : With(events, e, s)[x] = events[x]
<1>1. PICK es \in SUBSET Creators : events \in [es -> Statuses]
  BY DEF EventMaps
<1>2. With(events, e, s) = [x \in es \cup {e} |-> IF x = e THEN s ELSE events[x]]
  BY <1>1 DEF With
<1>3. With(events, e, s) \in [es \cup {e} -> Statuses]
  BY <1>1, <1>2
<1>4. es \cup {e} \in SUBSET Creators
  BY <1>1
<1>5. With(events, e, s) \in EventMaps
  BY <1>3, <1>4 DEF EventMaps
<1> QED
  BY <1>1, <1>2, <1>5

\* The file of a reader, as long as it is whole.
LEMMA StoredFact ==
    ASSUME ReviewTypeOK, WholeInv
    PROVE  /\ Stored = reviews.events /\ reviews.events \in EventMaps
           /\ PutAside => reviews' = reviews
           /\ DOMAIN reviews.events \subseteq Creators
<1>1. Stored = reviews.events /\ reviews.events \in EventMaps
  BY DEF Stored, WholeInv, ReviewTypeOK, Files
<1>2. DOMAIN reviews.events \subseteq Creators
  BY <1>1 DEF EventMaps
<1> QED
  BY <1>1, <1>2 DEF PutAside, WholeInv

\* The store begins empty, with nobody at it.
LEMMA ReviewInitInv == ReviewInit => ReviewInv
<1> SUFFICES ASSUME ReviewInit PROVE ReviewInv
  OBVIOUS
<1>1. NoEvents \in EventMaps /\ DOMAIN NoEvents = {}
  <2>1. NoEvents \in [{} -> Statuses] /\ {} \in SUBSET Creators
    BY DEF NoEvents
  <2> QED
    BY <2>1 DEF EventMaps
<1>2. Whole(NoEvents) \in Files /\ Missing \in Files
  BY <1>1 DEF Files, Whole, Missing
<1>3. ReviewTypeOK
  BY <1>1, <1>2 DEF ReviewInit, ReviewTypeOK
<1>4. \A a \in People : at[a] = "idle"
  BY DEF ReviewInit
<1>5. WholeInv
  BY <1>4 DEF ReviewInit, WholeInv, Whole
<1>6. AloneInv
  BY <1>4 DEF AloneInv, Active, People
<1>7. KeptInv
  BY <1>1 DEF ReviewInit, KeptInv, Whole
<1> QED
  BY <1>3, <1>5, <1>6, <1>7 DEF ReviewInv

-----------------------------------------------------------------------------
(* Operations                                                               *)

\* A run begins to add its event.
LEMMA CreateInv == ASSUME ReviewInv, NEW c \in Creators, Create(c) PROVE ReviewInv'
<1> USE ReviewAssumption DEF ReviewInv
<1>1. /\ at[c] = "idle" /\ at' = [at EXCEPT ![c] = "changed"]
      /\ copy' = [copy EXCEPT ![c] = With(Stored, c, "pending")]
      /\ reviews' = reviews /\ UNCHANGED <<tmp, asked, created, decided>>
      /\ overlapped' = (overlapped \/ \E b \in People : Active(b))
  BY StoredFact DEF Create, Overlaps, Active
<1>2. /\ Stored = reviews.events /\ c \in People
      /\ With(Stored, c, "pending") \in EventMaps
  BY StoredFact, WithFact DEF People, Statuses
<1>3. /\ at' \in [People -> {"idle", "changed", "opened", "written", "over"}]
      /\ at'[c] = "changed" /\ \A b \in People \ {c} : at'[b] = at[b]
      /\ copy' \in [People -> EventMaps] /\ copy'[c] = With(reviews.events, c, "pending")
      /\ \A b \in People \ {c} : copy'[b] = copy[b]
  BY <1>1, <1>2 DEF ReviewTypeOK
<1>4. ReviewTypeOK'
  BY <1>1, <1>3 DEF ReviewTypeOK
<1>5. WholeInv'
  BY <1>1, <1>3 DEF WholeInv
<1>6. ASSUME ~overlapped' PROVE ~overlapped /\ \A b \in People : Active(b)' => b = c
  BY <1>1, <1>3, <1>6 DEF Active
<1>7. AloneInv'
  <2>1. c \notin Reviewers
    OBVIOUS
  <2> QED
    BY <1>1, <1>3, <1>6, <2>1 DEF AloneInv, People
<1>8. KeptInv'
  BY <1>1, <1>3, <1>6 DEF KeptInv, People
<1> QED
  BY <1>4, <1>5, <1>7, <1>8

\* A decision begins: on an event of the file that is not decided otherwise.
LEMMA DecideInv ==
    ASSUME ReviewInv, NEW r \in Reviewers, NEW e \in Creators, NEW status \in {"approved", "rejected"},
           Decide(r, e, status)
    PROVE  ReviewInv'
<1> USE ReviewAssumption DEF ReviewInv
<1>1. /\ at[r] = "idle" /\ reviews' = reviews /\ UNCHANGED <<tmp, created, decided>>
      /\ asked' = [asked EXCEPT ![r] = [event |-> e, status |-> status]]
      /\ overlapped' = (overlapped \/ \E b \in People : Active(b))
      /\ Stored = reviews.events /\ reviews.events \in EventMaps
      /\ r \in People /\ r \notin Creators
  BY StoredFact DEF Decide, Overlaps, Active, People
<1>2. DOMAIN asked' = Reviewers /\ asked'[r] = [event |-> e, status |-> status]
  BY <1>1 DEF ReviewTypeOK
<1>3. CASE e \in DOMAIN reviews.events /\ reviews.events[e] \in {"pending", status}
  <2>1. /\ copy' = [copy EXCEPT ![r] = With(reviews.events, e, status)]
        /\ at' = [at EXCEPT ![r] = "changed"]
    BY <1>1, <1>3 DEF Decide
  <2>2. With(reviews.events, e, status) \in EventMaps
    BY <1>1, WithFact DEF Statuses
  <2>3. /\ at' \in [People -> {"idle", "changed", "opened", "written", "over"}]
        /\ at'[r] = "changed" /\ \A b \in People \ {r} : at'[b] = at[b]
        /\ copy' \in [People -> EventMaps] /\ copy'[r] = With(reviews.events, e, status)
        /\ \A b \in People \ {r} : copy'[b] = copy[b]
    BY <1>1, <2>1, <2>2 DEF ReviewTypeOK
  <2>4. ReviewTypeOK'
    BY <1>1, <1>2, <2>3 DEF ReviewTypeOK
  <2>5. WholeInv'
    BY <1>1, <2>3 DEF WholeInv
  <2>6. ASSUME ~overlapped' PROVE ~overlapped /\ \A b \in People : Active(b)' => b = r
    BY <1>1, <2>3, <2>6 DEF Active
  <2>7. AloneInv'
    BY <1>1, <1>2, <1>3, <2>3, <2>6 DEF AloneInv, People
  <2>8. KeptInv'
    BY <1>1, <2>3, <2>6 DEF KeptInv, People
  <2> QED
    BY <2>4, <2>5, <2>7, <2>8
<1>4. CASE ~(e \in DOMAIN reviews.events /\ reviews.events[e] \in {"pending", status})
  <2>1. copy' = copy /\ at' = [at EXCEPT ![r] = "over"]
    BY <1>1, <1>4 DEF Decide
  <2>2. /\ at' \in [People -> {"idle", "changed", "opened", "written", "over"}]
        /\ at'[r] = "over" /\ \A b \in People \ {r} : at'[b] = at[b]
    BY <1>1, <2>1 DEF ReviewTypeOK
  <2>3. ReviewTypeOK'
    BY <1>1, <1>2, <2>1, <2>2 DEF ReviewTypeOK
  <2>4. WholeInv'
    BY <1>1, <2>1, <2>2 DEF WholeInv
  <2>5. ASSUME ~overlapped' PROVE ~overlapped /\ \A b \in People : ~Active(b)'
    BY <1>1, <2>2, <2>5 DEF Active
  <2>6. AloneInv'
    BY <2>5 DEF AloneInv, People
  <2>7. KeptInv'
    BY <1>1, <2>2, <2>5 DEF KeptInv, People
  <2> QED
    BY <2>3, <2>4, <2>6, <2>7
<1> QED
  BY <1>3, <1>4

\* A temporary file is opened, or filled with what its writer read and changed.
LEMMA WriteInv == ASSUME ReviewInv, NEW a \in People, OpenTmp(a) \/ FillTmp(a) PROVE ReviewInv'
<1> USE DEF ReviewInv
<1>1. /\ UNCHANGED <<reviews, copy, asked, created, decided, overlapped>> /\ Active(a)
      /\ a \in Names
  BY DEF OpenTmp, FillTmp, past, Active, Names
<1>2. PICK s \in {"opened", "written"} :
         /\ at' = [at EXCEPT ![a] = s]
         /\ tmp' = [tmp EXCEPT ![a] = IF s = "opened" THEN Half ELSE Whole(copy[a])]
  BY DEF OpenTmp, FillTmp, TmpName
<1>3. Half \in Files /\ Whole(copy[a]) \in Files
  <2>1. NoEvents \in [{} -> Statuses] /\ {} \in SUBSET Creators
    BY DEF NoEvents
  <2>2. NoEvents \in EventMaps
    BY <2>1 DEF EventMaps
  <2> QED
    BY <2>2 DEF Half, Whole, Files, ReviewTypeOK
<1>4. /\ at' \in [People -> {"idle", "changed", "opened", "written", "over"}]
      /\ at'[a] = s /\ \A b \in People \ {a} : at'[b] = at[b]
      /\ tmp' \in [Names -> Files] /\ tmp'[a] = IF s = "opened" THEN Half ELSE Whole(copy[a])
      /\ \A b \in People \ {a} : tmp'[b] = tmp[b]
  BY <1>1, <1>2, <1>3 DEF ReviewTypeOK, Names
<1>5. ReviewTypeOK'
  BY <1>1, <1>4 DEF ReviewTypeOK
<1>6. WholeInv'
  BY <1>1, <1>4 DEF WholeInv
<1>7. \A b \in People : (Active(b)' <=> Active(b)) /\ (at[b] = "over" => at'[b] = "over")
  BY <1>1, <1>4 DEF Active
<1>8. AloneInv'
  BY <1>1, <1>7 DEF AloneInv, People
<1>9. KeptInv'
  BY <1>1, <1>7 DEF KeptInv, People
<1> QED
  BY <1>5, <1>6, <1>8, <1>9

\* The process dies: its temporary file is of no more use.
LEMMA DiesInv == ASSUME ReviewInv, NEW a \in People, CommandDies(a) PROVE ReviewInv'
<1> USE DEF ReviewInv
<1>1. /\ UNCHANGED <<reviews, tmp, copy, asked, created, decided, overlapped>>
      /\ at' = [at EXCEPT ![a] = "over"]
  BY DEF CommandDies, past
<1>2. /\ at' \in [People -> {"idle", "changed", "opened", "written", "over"}]
      /\ at'[a] = "over" /\ \A b \in People \ {a} : at'[b] = at[b]
  BY <1>1 DEF ReviewTypeOK
<1>3. ReviewTypeOK' /\ WholeInv'
  BY <1>1, <1>2 DEF ReviewTypeOK, WholeInv
<1>4. \A b \in People : (Active(b)' => Active(b)) /\ (at[b] = "over" => at'[b] = "over")
  BY <1>2 DEF Active
<1>5. AloneInv'
  BY <1>1, <1>4 DEF AloneInv, People
<1>6. KeptInv'
  BY <1>1, <1>4 DEF KeptInv, People
<1> QED
  BY <1>3, <1>5, <1>6

\* The file is replaced by what one operation made of it.
LEMMA ReplaceInv == ASSUME ReviewInv, NEW a \in People, Replace(a) PROVE ReviewInv'
<1> USE ReviewAssumption DEF ReviewInv
<1>1. /\ at[a] = "written" /\ at' = [at EXCEPT ![a] = "over"] /\ UNCHANGED <<copy, asked, overlapped>>
      /\ reviews' = Whole(copy[a]) /\ tmp' = [tmp EXCEPT ![a] = Missing]
      /\ IF a \in Creators THEN created' = created \cup {a} /\ decided' = decided
                           ELSE decided' = decided \cup {asked[a]} /\ created' = created
  BY DEF Replace, TmpName, WholeInv
<1>2. /\ reviews' \in Files /\ reviews'.kind = "whole" /\ reviews'.events = copy[a] /\ Missing \in Files
  <2>1. NoEvents \in [{} -> Statuses] /\ {} \in SUBSET Creators
    BY DEF NoEvents
  <2>2. NoEvents \in EventMaps
    BY <2>1 DEF EventMaps
  <2> QED
    BY <1>1, <2>2 DEF Missing, Whole, Files, ReviewTypeOK
<1>3. /\ at' \in [People -> {"idle", "changed", "opened", "written", "over"}]
      /\ at'[a] = "over" /\ \A b \in People \ {a} : at'[b] = at[b]
      /\ tmp' \in [Names -> Files] /\ \A b \in People \ {a} : tmp'[b] = tmp[b]
  BY <1>1, <1>2 DEF ReviewTypeOK, Names
<1>4. ReviewTypeOK'
  BY <1>1, <1>2, <1>3 DEF ReviewTypeOK
<1>5. WholeInv'
  BY <1>1, <1>2, <1>3 DEF WholeInv
<1>6. ASSUME ~overlapped PROVE \A b \in People : ~Active(b)'
  BY <1>1, <1>3, <1>6 DEF AloneInv, Active
<1>7. AloneInv'
  BY <1>1, <1>6 DEF AloneInv, People
<1>8. KeptInv'
  <2> SUFFICES ASSUME ~overlapped PROVE KeptInv'
    BY <1>1 DEF KeptInv
  <2> DEFINE old == reviews.events
  <2>1. old \in EventMaps /\ DOMAIN old \subseteq {c \in Creators : at[c] = "over"}
    BY StoredFact DEF KeptInv
  <2>2. Active(a)
    BY <1>1 DEF Active
  <2>3. \A c \in Creators : at[c] = "over" => at'[c] = "over"
    BY <1>1, <1>3 DEF People
  <2>4. CASE a \in Creators
    <3>1. copy[a] = With(old, a, "pending")
      BY <2>2, <2>4 DEF AloneInv
    <3>2. /\ DOMAIN reviews'.events = DOMAIN old \cup {a} /\ a \notin DOMAIN old
          /\ \A x \in DOMAIN old : reviews'.events[x] = old[x]
      <4> DEFINE new == With(old, a, "pending")
      <4>1. /\ DOMAIN new = DOMAIN old \cup {a}
            /\ \A x \in DOMAIN old \ {a} : new[x] = old[x]
        <5>1. "pending" \in Statuses
          BY DEF Statuses
        <5>2. DOMAIN With(old, a, "pending") = DOMAIN old \cup {a}
          BY <2>1, <2>4, <5>1, WithFact, Zenon
        <5>3. \A x \in DOMAIN old \ {a} : With(old, a, "pending")[x] = old[x]
          BY DEF With
        <5> QED
          BY <5>2, <5>3
      <4>2. a \notin DOMAIN old
        BY <1>1, <2>1
      <4>3. reviews'.events = new
        BY <1>2, <3>1
      <4> HIDE DEF new, old
      <4> QED
        BY <4>1, <4>2, <4>3
    <3> QED
      BY <1>1, <1>3, <2>1, <2>3, <2>4, <3>2 DEF KeptInv
  <2>5. CASE a \notin Creators
    <3>0. PICK e, s : e = asked[a].event /\ s = asked[a].status
      OBVIOUS
    <3>1. /\ a \in Reviewers /\ e \in DOMAIN old /\ s \in {"approved", "rejected"}
          /\ old[e] \in {"pending", s} /\ copy[a] = With(old, e, s)
      BY <2>2, <2>5, <3>0 DEF AloneInv, People
    <3>2. /\ DOMAIN reviews'.events = DOMAIN old /\ reviews'.events[e] = s
          /\ \A x \in DOMAIN old \ {e} : reviews'.events[x] = old[x]
      <4> DEFINE new == With(old, e, s)
      <4>1. /\ DOMAIN new = DOMAIN old \cup {e} /\ new[e] = s
            /\ \A x \in DOMAIN old \ {e} : new[x] = old[x]
        <5>1. s \in Statuses /\ e \in Creators
          BY <2>1, <3>1 DEF Statuses
        <5>2. DOMAIN With(old, e, s) = DOMAIN old \cup {e}
          BY DEF With
        <5>3. With(old, e, s)[e] = s
          BY DEF With
        <5>4. \A x \in DOMAIN old \ {e} : With(old, e, s)[x] = old[x]
          BY DEF With
        <5> QED
          BY <5>2, <5>3, <5>4
      <4>2. reviews'.events = new
        BY <1>2, <3>1
      <4>3. DOMAIN old \cup {e} = DOMAIN old
        BY <3>1
      <4> HIDE DEF new, old
      <4> QED
        BY <4>1, <4>2, <4>3
    <3>3. ASSUME NEW d \in decided'
          PROVE  /\ d.event \in DOMAIN old /\ d.status # "pending"
                 /\ reviews'.events[d.event] = d.status
      <4>1. CASE d = asked[a]
        BY <3>0, <3>1, <3>2, <4>1
      <4>2. CASE d \in decided
        BY <3>1, <3>2, <4>2 DEF KeptInv
      <4> QED
        BY <1>1, <2>5, <4>1, <4>2
    <3> QED
      BY <1>1, <2>1, <2>3, <2>5, <3>2, <3>3 DEF KeptInv
  <2> QED
    BY <2>4, <2>5
<1> QED
  BY <1>4, <1>5, <1>7, <1>8

-----------------------------------------------------------------------------

\* Every step keeps the invariant.
LEMMA ReviewNextInv == ReviewInv /\ [ReviewNext]_rvars => ReviewInv'
<1> SUFFICES ASSUME ReviewInv, [ReviewNext]_rvars PROVE ReviewInv'
  OBVIOUS
<1>1. CASE UNCHANGED rvars
  BY <1>1 DEF rvars, actor, past, ReviewInv, ReviewTypeOK, WholeInv, AloneInv, KeptInv, Active
<1>2. CASE ReviewNext
  BY <1>2, CreateInv, DecideInv, WriteInv, ReplaceInv, DiesInv DEF ReviewNext
<1> QED
  BY <1>1, <1>2

\* The inductive invariant holds of every reachable state.
THEOREM ReviewInvCorrect == ReviewSpec => []ReviewInv
<1> QED
  BY ReviewInitInv, ReviewNextInv, PTL DEF ReviewSpec

\* No reader ever finds half a file; and while operations come one after the other,
\* crashes or not, no event and no decision that was answered is lost or reversed.
THEOREM ReviewsKeptCorrect == ReviewSpec => []ReviewsKept
<1>1. ReviewInv => ReviewsKept
  BY DEF ReviewInv, WholeInv, KeptInv, ReviewsKept
<1> QED
  BY <1>1, ReviewInvCorrect, PTL

=============================================================================
