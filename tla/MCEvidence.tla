----------------------------- MODULE MCEvidence -----------------------------
(***************************************************************************)
(* Small instances for TLC of what evidence goes through: the ledger's files,   *)
(* the log over them with the commands that prove a row of it, the research of   *)
(* one requirement, and the belief that conflicting evidence leaves.  They share  *)
(* no state here: a behaviour is one of one of the four, chosen at the start.      *)
(***************************************************************************)
EXTENDS EvidenceLedger, EvidenceCommands, RequirementResearch, BeliefFusion

\* A row of each reliability, rows that are gone, and facts recalled from memory
\* with their provenance and without.
PageOf(r) == [kind |-> "row", reliability |-> r]
Recalled(tiers, c) == [kind |-> "memory", tiers |-> tiers, confidence |-> c]
MCSources ==
    {PageOf(r) : r \in {40, 85, 99}}
        \cup {[kind |-> "gone"], Recalled(<<95, 40>>, 70), Recalled(<<>>, 90)}

VARIABLE which

Unused(module, initial) == which # module => initial

MCInit ==
    /\ which \in {"ledger", "log", "research", "belief"}
    /\ Init /\ MerkleInit /\ ResearchInit /\ BeliefInit
    /\ Unused("log", salt = 0)
    /\ Unused("research", payload = [approved |-> {Site}, pages |-> <<Site>>])
    /\ Unused("belief", \A i \in Rivals : Len(sides) = 1 /\ sides[i].confidence = 50)

MCNext ==
    /\ UNCHANGED which
    /\ \/ which = "ledger" /\ Next /\ UNCHANGED <<mvars, qvars, sides>>
       \/ which = "log" /\ MerkleNext /\ UNCHANGED <<vars, qvars, sides>>
       \/ which = "research" /\ ResearchNext /\ UNCHANGED <<vars, mvars, sides>>
       \/ which = "belief" /\ BeliefNext /\ UNCHANGED <<vars, mvars, qvars>>

MCSpec == MCInit /\ [][MCNext]_<<which, vars, mvars, qvars, sides>>

=============================================================================
