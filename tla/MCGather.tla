----------------------------- MODULE MCGather -----------------------------
(***************************************************************************)
(* Small runs of Gather for TLC: the limits of the tracker and the sizes of  *)
(* the buckets.                                                             *)
(***************************************************************************)
EXTENDS Gather

\* One token of each kind: the second node of a level waits for a refill.
MCCapacity == [k \in Kinds |-> 1]

\* Three searches for gathers of up to three, three fetches for levels of up to
\* three and their retries, and three extractions for up to three gathers.
MCBudget == [search |-> 3, fetch |-> 3, extract |-> 3, validated |-> 2, min |-> 2]

=============================================================================
