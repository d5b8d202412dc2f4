-------------------------- MODULE MCSemanticMemory --------------------------
(***************************************************************************)
(* Small instances of SemanticMemory for TLC: one supplier, a value in two   *)
(* spellings and another one.                                               *)
(***************************************************************************)
EXTENDS SemanticMemory, TLC

Spellings == {"nrnd", "NRND", "active"}
NormalForm == [v \in Spellings |-> IF v = "active" THEN "active" ELSE "nrnd"]

RunSymmetry == Permutations(Runs)

=============================================================================
