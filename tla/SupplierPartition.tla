-------------------------- MODULE SupplierPartition --------------------------
(***************************************************************************)
(* What an alias registry promises: every supplier id has one canonical id,  *)
(* and all that approvals ever do is merge two groups of ids, whole, under    *)
(* the canonical id of one of them.                                          *)
(***************************************************************************)
CONSTANT Ids

VARIABLE canonical   \* the canonical id of every id

Init == canonical = [x \in Ids |-> x]

\* The group of `a` joins the group of `b`.
Merge(a, b) ==
    /\ canonical[a] = a /\ canonical[b] = b /\ a # b
    /\ canonical' = [x \in Ids |-> IF canonical[x] = a THEN b ELSE canonical[x]]

Next == \E a, b \in Ids : Merge(a, b)

Spec == Init /\ [][Next]_canonical

=============================================================================
