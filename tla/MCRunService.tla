---------------------------- MODULE MCRunService ----------------------------
(***************************************************************************)
(* Small instances of RunService for TLC.                                   *)
(***************************************************************************)
EXTENDS RunService, TLC

CONSTANTS alice, bob, k1, fpA, fpB

\* One key is used by two owners, and by one of them for two different requests;
\* a live request has no key, so that any number of them can be admitted.
Plain == {[owner |-> bob, key |-> NoKey, print |-> fpB, live |-> FALSE]}
SharedKeyAndLive ==
    {[owner |-> alice, key |-> k1, print |-> fpA, live |-> FALSE],
     [owner |-> alice, key |-> k1, print |-> fpB, live |-> FALSE],
     [owner |-> bob, key |-> k1, print |-> fpA, live |-> FALSE],
     [owner |-> alice, key |-> NoKey, print |-> fpA, live |-> TRUE]}

Symmetry == Permutations(Runs)

=============================================================================
