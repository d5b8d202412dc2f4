----------------------------- MODULE MerkleLog -----------------------------
(***************************************************************************)
(* The transparency log over a run's evidence, evidence/transparency.py: the  *)
(* Merkle tree of the rows' chain hashes, its inclusion and consistency       *)
(* proofs, the citations bundled with them, and the verifiers an outsider      *)
(* runs.  EvidenceLedger takes a root for the sequence of its leaves; here it    *)
(* is the tree's.                                                           *)
(*                                                                          *)
(* sha256 is injective and its two prefixes differ: a hash is the term it was   *)
(* computed from.  Two logs grow side by side: `own`, the one the run committed  *)
(* to, and `other`, which differs from it in the rows that were altered.  The   *)
(* row at index i is i + 1, altered it is -(i + 1).                           *)
(***************************************************************************)
EXTENDS Integers, Sequences

CONSTANTS MaxLeaves    \* bound: rows of a log

ASSUME MerkleLogAssumption == MaxLeaves \in Nat

VARIABLES
    own, other,   \* the _leaves of the two logs
    salt          \* the master salt both are redacted under, 0 for none

mvars == <<own, other, salt>>

\* leaf_hash and _node
LeafHash(data) == <<"leaf", data>>
Node(left, right) == <<"node", left, right>>
Empty == <<"empty">>

\* Mutant: every leaf has the same salt.
SharedSalt(master, i) == <<master, 0>>

\* leaf_salt: derived from the master salt and the leaf's index.
LeafSalt(master, i) == <<master, i>>

\* redact_leaf_data, where a log that is not redacted has leaves with no salt.
NoSalt == <<0, 0>>
Redacted(row, s) == <<row, s>>
SaltOf(i) == IF salt = 0 THEN NoSalt ELSE LeafSalt(salt, i)

\* verify_redacted_leaf
Opens(opening) == opening.salt # NoSalt /\ opening.commitment = Redacted(opening.row, opening.salt)

-----------------------------------------------------------------------------
(* The tree over n leaves of log from log[from], counted from 0               *)

Odd(n) == n % 2 = 1

\* n, halved while it is even.
Ascended[n \in Nat] == IF ~Odd(n) /\ n # 0 THEN Ascended[n \div 2] ELSE n

\* A power of two has no odd divisor but 1.
IsPower(n) == Ascended[n] = 1

\* _largest_power_of_two_below(n), for n >= 2
LargestPowerBelow(n) == CHOOSE k \in 1..(n - 1) : IsPower(k) /\ n <= 2 * k

\* _mth
Mth(log, from, to) ==
    LET mth[n \in Nat] ==
          [i \in Nat |->
             LET k == LargestPowerBelow(n) IN
             CASE n = 0 -> Empty
               [] n = 1 -> LeafHash(log[i + 1])
               [] OTHER -> Node(mth[k][i], mth[n - k][i + k])]
    IN mth[to - from][from]

Root(log, size) == Mth(log, 0, size)

\* _path: the audit path of the m-th leaf of that part.
Path(log, m, from, to) ==
    LET path[n \in Nat] ==
          [at \in 0..(n - 1) |-> [i \in Nat |->
             LET k == LargestPowerBelow(n) IN
             CASE n <= 1          -> <<>>
               [] n > 1 /\ at < k -> Append(path[k][at][i], Mth(log, i + k, i + n))
               [] OTHER            -> Append(path[n - k][at - k][i + k], Mth(log, i, i + k))]]
    IN path[to - from][m][from]

InclusionProof(log, i, size) == Path(log, i, 0, size)

\* _subproof: the hashes that show the first m leaves to be a tree of their own.
Subproof(log, m, from, to, complete) ==
    LET subproof[n \in Nat] ==
          [at \in 1..n |-> [i \in Nat |-> [whole \in BOOLEAN |->
             LET k == LargestPowerBelow(n) IN
             CASE at = n            -> IF whole THEN <<>> ELSE <<Mth(log, i, i + n)>>
               [] at < n /\ at <= k -> Append(subproof[k][at][i][whole], Mth(log, i + k, i + n))
               [] OTHER             ->
                     Append(subproof[n - k][at - k][i + k][FALSE], Mth(log, i, i + k))]]]
    IN subproof[to - from][m][from][complete]

ConsistencyProof(log, first, second) ==
    IF first = second THEN <<>> ELSE Subproof(log, first, 0, second, TRUE)

-----------------------------------------------------------------------------
(* The verifiers: fn and sn are the indices of the node reached and of the   *)
(* last node of its level, fr and sr the roots of the first tree and of the    *)
(* second so far.                                                           *)

\* Mutant: a last node without a sibling goes up one level only.
AboveAtOnce(fn, sn) == <<fn \div 2, sn \div 2>>

\* The node above, skipping the levels where the last node has no sibling.
Above(fn, sn) ==
    LET at == IF fn = sn THEN <<Ascended[fn], Ascended[sn]>> ELSE <<fn, sn>>
    IN  <<at[1] \div 2, at[2] \div 2>>

\* Mutant: the last node of a level is taken for a left child.
IsRightChild(fn, sn) == Odd(fn)

IsRight(fn, sn) == Odd(fn) \/ fn = sn

\* No root: the path is too long or too short.
NoRoot == <<"none">>

\* One hash of the path: the first tree's root takes left siblings only.
Climbed(at, c) ==
    LET up == Above(at.fn, at.sn) IN
    CASE at.sn = 0 -> [fr |-> NoRoot, sr |-> NoRoot, fn |-> at.fn, sn |-> at.sn]
      [] at.sn # 0 /\ IsRight(at.fn, at.sn) ->
            [fr |-> Node(c, at.fr), sr |-> Node(c, at.sr), fn |-> up[1], sn |-> up[2]]
      [] at.sn # 0 /\ ~IsRight(at.fn, at.sn) ->
            [fr |-> at.fr, sr |-> Node(at.sr, c), fn |-> up[1], sn |-> up[2]]

\* The loop over the path, and the roots it leads to.
Reached(start, path) ==
    LET reached[t \in Nat] == IF t = 0 THEN start ELSE Climbed(reached[t - 1], path[t])
    IN  reached[Len(path)]

ClimbBoth(r, fn, sn, path) ==
    LET end == Reached([fr |-> r, sr |-> r, fn |-> fn, sn |-> sn], path)
    IN  IF end.sn = 0 THEN <<end.fr, end.sr>> ELSE <<NoRoot, NoRoot>>

Climb(r, fn, sn, path) == ClimbBoth(r, fn, sn, path)[2]

VerifyInclusion(data, i, size, path, root) ==
    i \in 0..(size - 1) /\ Climb(LeafHash(data), i, size - 1, path) = root

\* Up to the first level where the node is a left child.
Rightmost[fn \in Nat] ==
    [sn \in Nat |-> IF Odd(fn) THEN Rightmost[fn \div 2][sn \div 2] ELSE <<fn, sn>>]

\* Mutant: the first root is left out of the path whatever the first size.
VerifyConsistencyNoRoot(first, second, firstRoot, secondRoot, proof) ==
    LET at == Rightmost[first - 1][second - 1] IN
    /\ first \in 1..second
    /\ IF first = second THEN proof = <<>> /\ firstRoot = secondRoot
       ELSE proof # <<>> /\ ClimbBoth(Head(proof), at[1], at[2], Tail(proof)) = <<firstRoot, secondRoot>>

VerifyConsistency(first, second, firstRoot, secondRoot, proof) ==
    LET path == IF IsPower(first) THEN <<firstRoot>> \o proof ELSE proof
        at == Rightmost[first - 1][second - 1]
    IN  /\ first \in 1..second
        /\ IF first = second THEN proof = <<>> /\ firstRoot = secondRoot
           ELSE path # <<>> /\ ClimbBoth(Head(path), at[1], at[2], Tail(path)) = <<firstRoot, secondRoot>>

-----------------------------------------------------------------------------
(* Citations                                                                *)

TreeHeadOf(log) == [size |-> Len(log), root |-> Root(log, Len(log))]
Keys == {"published", "stranger"}
NoSignature == [head |-> [size |-> 0, root |-> Empty], key |-> "none"]
SignTreeHead(h, key) == [head |-> h, key |-> key]

\* citation_proof of the row at index i, with the signed head that was published.
CitationProof(log, i, sth) ==
    [index |-> i, data |-> log[i + 1], path |-> InclusionProof(log, i, Len(log)),
     head |-> TreeHeadOf(log), sth |-> sth]

VerifyCitation(p) == VerifyInclusion(p.data, p.index, p.head.size, p.path, p.head.root)

\* Mutant: the signed head need not be the head the proof is for.
VerifySignedAnyHead(p, anchor) == VerifyCitation(p) /\ p.sth # NoSignature /\ p.sth.key = anchor

\* verify_signed_citation, against the key the verifier was given.
VerifySignedCitation(p, anchor) ==
    VerifyCitation(p) /\ p.sth # NoSignature /\ p.sth.head = p.head /\ p.sth.key = anchor

-----------------------------------------------------------------------------
RowAt(i, altered) == IF altered THEN 0 - (i + 1) ELSE i + 1

MerkleInit == own = <<>> /\ other = <<>> /\ salt \in {0, 1}

\* append(), from_ledger(): each log takes its next leaf, redacted or not.
AppendLeaf(altered) ==
    LET i == Len(own) IN
    /\ i < MaxLeaves
    /\ own' = Append(own, Redacted(RowAt(i, FALSE), SaltOf(i)))
    /\ other' = Append(other, Redacted(RowAt(i, altered), SaltOf(i)))
    /\ UNCHANGED salt

MerkleNext == \E altered \in BOOLEAN : AppendLeaf(altered)

MerkleSpec == MerkleInit /\ [][MerkleNext]_mvars

-----------------------------------------------------------------------------
(* Properties                                                               *)

Size == Len(own)
Agree(except) == \A j \in 1..Size : j = except \/ own[j] = other[j]

(* An audit path shows a leaf to be the one at its index, and nothing else: a  *)
(* path taken from another log leads to our root exactly if that log differs   *)
(* from ours in no other leaf, and no path shows a leaf at a second index.      *)
InclusionIsExact ==
    \A i, j \in 0..(Size - 1) :
        VerifyInclusion(own[i + 1], j, Size, InclusionProof(other, i, Size), Root(own, Size))
            <=> i = j /\ Agree(i + 1)

(* A consistency proof shows a smaller tree to be the beginning of a larger one *)
(* and nothing else: one from another log passes exactly if that log begins     *)
(* with our first rows.                                                       *)
ConsistencyIsExact ==
    \A m \in 1..Size :
        VerifyConsistency(m, Size, Root(own, m), Root(other, Size), ConsistencyProof(other, m, Size))
            <=> \A j \in 1..m : own[j] = other[j]

(* A signed citation is accepted from the log whose head was signed with the     *)
(* verifier's key and from no other: our signature does not carry over to the     *)
(* proof of a log that was altered.                                           *)
SignedHeadBinds ==
    \A i \in 0..(Size - 1), key \in Keys :
        VerifySignedCitation(CitationProof(other, i, SignTreeHead(TreeHeadOf(own), key)), "published")
            <=> key = "published" /\ own = other

(* Opening one redacted leaf tells what that leaf is and leaves the others       *)
(* blinded: its salt opens no other, even to someone who knows the rows.         *)
OpeningsStayApart ==
    \A i, j \in 0..(Size - 1) :
        Opens([row |-> RowAt(i, FALSE), salt |-> SaltOf(j), commitment |-> own[i + 1]])
            <=> salt # 0 /\ i = j

(* "every citation can ship an inclusion proof (audit path) against a signed    *)
(* tree head, so a third party can confirm a claim was in the ledger at answer   *)
(* time without trusting spider-qwen or downloading the full ledger"            *)
(* (transparency.py:4): the proofs accept what they are for and refuse all else. *)
ProofsAreExact ==
    InclusionIsExact /\ ConsistencyIsExact /\ SignedHeadBinds /\ OpeningsStayApart

=============================================================================
