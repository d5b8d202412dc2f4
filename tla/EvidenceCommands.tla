-------------------------- MODULE EvidenceCommands --------------------------
(***************************************************************************)
(* `evidence verify' and `evidence prove' of api/cli.py: what they answer about   *)
(* a persisted ledger that load() accepted, with the key they are told to expect.   *)
(* The ledger's rows are the log `own' of MerkleLog; beside its tree head the file    *)
(* has a signed one, of this log or of another, or none.                          *)
(*                                                                          *)
(* The signing key is one of the places the expected key comes from; the pinned     *)
(* ones, which come first, count as one.  The crypto extra is installed, and the       *)
(* rows' own checks (verify_ledger, verify_chain) pass.                            *)
(***************************************************************************)
EXTENDS MerkleLog

KeyValues == Keys \cup {"unset", "malformed"}
Settings == [pinned : KeyValues, signing : KeyValues]

\* Mutant: the key that belongs to the signing key comes first.
ExpectedKeySigningFirst(s) == IF s.signing # "unset" THEN s.signing ELSE s.pinned

\* _expected_sth_public_key
ExpectedKey(s) == IF s.pinned # "unset" THEN s.pinned ELSE s.signing

\* _signed_tree_head_report: whether the signed head is the expected key's, if there
\* is one and a key to expect; a malformed key is a failed verification.
Report(sth, s) ==
    CASE sth = NoSignature \/ ExpectedKey(s) = "unset" -> "unknown"
      [] sth # NoSignature /\ ExpectedKey(s) \in Keys -> IF sth.key = ExpectedKey(s) THEN "verified" ELSE "failed"
      [] OTHER -> "failed"

\* Mutant: without a head or a key there is nothing that could fail.
PassesUnlessFailed(answer, required) == answer # "failed"

\* What is known must not have failed; if it is required it must be known.
Passes(answer, required) == IF required THEN answer = "verified" ELSE answer # "failed"

Exit(ok) == IF ok THEN 0 ELSE 1

\* _cmd_evidence verify
EvidenceVerify(sth, s, required) == Exit(Passes(Report(sth, s), required))

\* citation_proof_bundles: the proof of a row with the head that was published, which
\* load() has found to be this log's, and the signed head that came with it.
Bundle(i, sth) == CitationProof(own, i, sth)

\* Whether the citation holds against the signed head, for a key that is expected.
CitationReport(i, sth, s) ==
    CASE ExpectedKey(s) = "unset" -> "unknown"
      [] ExpectedKey(s) \in Keys -> IF VerifySignedCitation(Bundle(i, sth), ExpectedKey(s)) THEN "verified" ELSE "failed"
      [] OTHER -> "failed"

\* The same leaf with a digit flipped: the data of no row.
Flipped(proof) == [proof EXCEPT !.data = Redacted(0, NoSalt)]

\* _evidence_prove: a malformed signing key ends it at once.
EvidenceProve(i, sth, s, required) ==
    IF s.signing = "malformed" THEN 2
    ELSE LET proof == Bundle(i, sth) IN
         Exit(/\ VerifyCitation(proof) /\ ~VerifyCitation(Flipped(proof))
              /\ Passes(Report(sth, s), required)
              /\ Passes(CitationReport(i, sth, s), required))

-----------------------------------------------------------------------------
SignedHeads ==
    {NoSignature} \cup {SignTreeHead(TreeHeadOf(log), key) : log \in {own, other}, key \in Keys}

Pinned(s) == IF s.pinned \in Keys THEN s.pinned ELSE IF s.pinned = "unset" THEN s.signing ELSE "none"

(* "External-verifier mode: the citation must verify against a signed head AND a    *)
(* configured trust anchor; absence of either is a failure" (cli.py:233): prove       *)
(* --require-sth passes exactly if the head of this very log was signed with the      *)
(* key that was pinned.  Without the option it passes whenever it does with it, and    *)
(* prove never passes where verify fails.                                        *)
ProveIsStrict ==
    \A sth \in SignedHeads, s \in Settings : \A i \in {0, Size - 1} \cap 0..(Size - 1) :
        /\ EvidenceProve(i, sth, s, TRUE) = 0
             <=> /\ sth.head = TreeHeadOf(own) /\ sth.key = Pinned(s)
                 /\ s.signing # "malformed"
        /\ EvidenceProve(i, sth, s, TRUE) = 0 => EvidenceProve(i, sth, s, FALSE) = 0
        /\ \A required \in BOOLEAN :
             EvidenceProve(i, sth, s, required) = 0 => EvidenceVerify(sth, s, required) = 0

\* The proofs that leave the program convince an outsider exactly when they should:
\* MerkleLog's verifiers and the commands that apply them.
ProofsConvince == ProofsAreExact /\ ProveIsStrict

=============================================================================
