-------------------------- MODULE MCEntityResearch --------------------------
(***************************************************************************)
(* Small instances of EntityResearch for TLC.                               *)
(***************************************************************************)
EXTENDS EntityResearch

=============================================================================
