------------------------------ MODULE FactStore ------------------------------
(***************************************************************************)
(* What the semantic memory of one owner promises its users: its facts only  *)
(* change by whole operations, one after the other, each applied to what the  *)
(* one before it left.  No operation is lost and none sees half of another.   *)
(***************************************************************************)
EXTENDS FactOperations

VARIABLES facts, asked    \* asked: the operations somebody is asking for

StoreInit == facts = NoFacts

StoreNext == \E op \in asked : facts' = Applied(facts, op)

StoreSpec == StoreInit /\ [][StoreNext]_facts

=============================================================================
