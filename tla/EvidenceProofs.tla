---------------------------- MODULE EvidenceProofs ----------------------------
(***************************************************************************)
(* Proofs about EvidenceLedger, RequirementResearch and EvidenceCommands with   *)
(* its MerkleLog: what is published is sound and stands, acknowledged rows are  *)
(* loaded again, a research claim rests on one whole attempt, and the proofs    *)
(* that leave the program convince an outsider exactly when they should, for    *)
(* any number of rows, annotations, heads, faults, pages, attempts and leaves.  *)
(***************************************************************************)
EXTENDS EvidenceLedger, EvidenceCommands, RequirementResearch, SequenceTheorems,
        WellFoundedInduction, TLAPS

Digests == [id : Nat, note : Nat]
ChainRows == [id : Nat, note : Nat, parent : Seq(Digests), hash : Seq(Digests)]
TreeHeads == [leaves : Seq(Seq(Digests)), stamp : Nat]

-----------------------------------------------------------------------------
(* The chain                                                                *)

\* One element more.
LEMMA PrefixStep ==
    ASSUME NEW S, NEW c \in Seq(S), NEW i \in 1..Len(c)
    PROVE  /\ SubSeq(c, 1, i - 1) \in Seq(S) /\ SubSeq(c, 1, i) \in Seq(S)
           /\ Len(SubSeq(c, 1, i - 1)) = i - 1 /\ Len(SubSeq(c, 1, i)) = i
           /\ Append(SubSeq(c, 1, i - 1), c[i]) = SubSeq(c, 1, i)
  OBVIOUS

\* Sequences with the same first elements have the same prefixes.
LEMMA SamePrefix ==
    ASSUME NEW S, NEW c \in Seq(S), NEW d \in Seq(S), NEW i \in Nat, i <= Len(c), i <= Len(d),
           \A j \in 1..i : c[j] = d[j]
    PROVE  SubSeq(c, 1, i) = SubSeq(d, 1, i)
  OBVIOUS

\* A row of the chain, or a line of the log, has an id and a note.
LEMMA RowFact ==
    ASSUME NEW s \in Seq(ChainRows) \cup Seq(Digests), NEW i \in 1..Len(s)
    PROVE  s[i].id \in Nat /\ s[i].note \in Nat
<1>1. CASE s \in Seq(ChainRows)
  <2>1. s[i] \in ChainRows
    BY <1>1
  <2> QED
    BY <2>1 DEF ChainRows
<1>2. CASE s \in Seq(Digests)
  <2>1. s[i] \in Digests
    BY <1>2
  <2> QED
    BY <2>1 DEF Digests
<1> QED
  BY <1>1, <1>2

\* What a row commits to, of a row of the chain or of a line of the log.
LEMMA ContentsFact ==
    ASSUME NEW s \in Seq(ChainRows) \cup Seq(Digests)
    PROVE  /\ Contents(s) \in Seq(Digests) /\ Len(Contents(s)) = Len(s)
           /\ \A i \in 1..Len(s) : Contents(s)[i] = [id |-> s[i].id, note |-> s[i].note]
<1>1. \A i \in 1..Len(s) : s[i].id \in Nat /\ s[i].note \in Nat
  BY RowFact
<1>2. DOMAIN s = 1..Len(s) /\ Len(s) \in Nat
  OBVIOUS
<1>3. Contents(s) = [i \in 1..Len(s) |-> [id |-> s[i].id, note |-> s[i].note]]
  BY <1>2 DEF Contents, Content
<1> QED
  BY <1>1, <1>2, <1>3 DEF Digests

\* What sealing gives: each row carries the digests up to itself.
LEMMA SealedFact ==
    ASSUME NEW s \in Seq(ChainRows) \cup Seq(Digests)
    PROVE  /\ Sealed(s) \in Seq(ChainRows) /\ Len(Sealed(s)) = Len(s)
           /\ Contents(Sealed(s)) = Contents(s)
           /\ \A i \in 1..Len(s) :
                /\ Sealed(s)[i] = [id |-> s[i].id, note |-> s[i].note,
                                   parent |-> SubSeq(Contents(s), 1, i - 1),
                                   hash |-> SubSeq(Contents(s), 1, i)]
                /\ Sealed(s)[i].id = s[i].id /\ Sealed(s)[i].note = s[i].note
                /\ Sealed(s)[i].hash = SubSeq(Contents(s), 1, i)
<1> DEFINE c == Contents(s)
           r(i) == [id |-> s[i].id, note |-> s[i].note,
                    parent |-> SubSeq(c, 1, i - 1), hash |-> SubSeq(c, 1, i)]
<1>1. /\ c \in Seq(Digests) /\ Len(c) = Len(s) /\ DOMAIN s = 1..Len(s) /\ Len(s) \in Nat
      /\ \A i \in 1..Len(s) : c[i] = [id |-> s[i].id, note |-> s[i].note]
  BY ContentsFact
<1>2. \A i \in 1..Len(s) : Link(s[i], SubSeq(c, 1, i - 1)) = r(i)
  <2> SUFFICES ASSUME NEW i \in 1..Len(s) PROVE Link(s[i], SubSeq(c, 1, i - 1)) = r(i)
    OBVIOUS
  <2>1. Content(s[i]) = c[i]
    BY <1>1 DEF Content
  <2>2. Append(SubSeq(c, 1, i - 1), c[i]) = SubSeq(c, 1, i)
    BY <1>1, PrefixStep
  <2> QED
    BY <2>1, <2>2 DEF Link
<1>3. \A i \in 1..Len(s) : r(i) \in ChainRows
  <2> SUFFICES ASSUME NEW i \in 1..Len(s) PROVE r(i) \in ChainRows
    OBVIOUS
  <2>1. SubSeq(c, 1, i - 1) \in Seq(Digests) /\ SubSeq(c, 1, i) \in Seq(Digests)
    BY <1>1, PrefixStep
  <2>2. s[i].id \in Nat /\ s[i].note \in Nat
    BY RowFact
  <2> QED
    BY <2>1, <2>2 DEF ChainRows
<1>4. Sealed(s) = [i \in 1..Len(s) |-> r(i)]
  BY <1>1, <1>2 DEF Sealed
<1>5. Sealed(s) \in Seq(ChainRows) /\ Len(Sealed(s)) = Len(s)
  <2> HIDE DEF r
  <2>1. [i \in 1..Len(s) |-> r(i)] \in Seq(ChainRows)
    BY <1>1, <1>3, IsASeq
  <2> QED
    BY <1>1, <1>4, <2>1
<1> HIDE DEF c
<1>6. \A i \in 1..Len(s) : Sealed(s)[i] = r(i)
  BY <1>4
<1>7. Contents(Sealed(s)) = c
  <2>1. /\ Contents(Sealed(s)) \in Seq(Digests) /\ Len(Contents(Sealed(s))) = Len(s)
        /\ \A i \in 1..Len(s) : Contents(Sealed(s))[i] = [id |-> s[i].id, note |-> s[i].note]
    <3>1. /\ Contents(Sealed(s)) \in Seq(Digests) /\ Len(Contents(Sealed(s))) = Len(s)
          /\ \A i \in 1..Len(s) : Contents(Sealed(s))[i]
                                      = [id |-> Sealed(s)[i].id, note |-> Sealed(s)[i].note]
      BY <1>5, ContentsFact
    <3>2. ASSUME NEW i \in 1..Len(s)
          PROVE  Sealed(s)[i].id = s[i].id /\ Sealed(s)[i].note = s[i].note
      <4>1. Sealed(s)[i] = r(i)
        BY <1>6
      <4> QED
        BY <4>1
    <3> QED
      BY <3>1, <3>2
  <2> QED
    <3> DEFINE d == Contents(Sealed(s))
    <3>1. /\ d \in Seq(Digests) /\ c \in Seq(Digests) /\ Len(d) = Len(c)
          /\ \A i \in 1..Len(d) : d[i] = c[i]
      BY <1>1, <2>1
    <3> HIDE DEF d
    <3>2. d = c
      BY <3>1, SeqEqual
    <3> QED
      BY <3>2 DEF d
<1> QED
  BY <1>5, <1>6, <1>7 DEF c

\* Sealing depends on what the rows say only.
LEMMA SealedByContents ==
    ASSUME NEW s \in Seq(ChainRows) \cup Seq(Digests), NEW t \in Seq(ChainRows) \cup Seq(Digests),
           Contents(s) = Contents(t)
    PROVE  Sealed(s) = Sealed(t)
<1>1. /\ Len(Contents(s)) = Len(s) /\ Len(Contents(t)) = Len(t)
      /\ \A i \in 1..Len(s) : Contents(s)[i] = [id |-> s[i].id, note |-> s[i].note]
      /\ \A i \in 1..Len(t) : Contents(t)[i] = [id |-> t[i].id, note |-> t[i].note]
  BY ContentsFact
<1>2. DOMAIN s = 1..Len(s) /\ DOMAIN t = 1..Len(s)
  BY <1>1
<1>3. ASSUME NEW i \in 1..Len(s) PROVE s[i].id = t[i].id /\ s[i].note = t[i].note
  <2>1. Contents(s)[i] = [id |-> s[i].id, note |-> s[i].note]
    BY <1>1
  <2>2. Contents(s)[i] = [id |-> t[i].id, note |-> t[i].note]
    BY <1>1
  <2> QED
    BY <2>1, <2>2
<1>4. \A i \in 1..Len(s) : \A p : Link(s[i], p) = Link(t[i], p)
  BY <1>3 DEF Link, Content
<1> QED
  BY <1>2, <1>4 DEF Sealed

\* A chain that is sealed: its leaves, its tip, and what a verifier finds.
LEMMA ChainFact ==
    ASSUME NEW s \in Seq(ChainRows), s = Sealed(s)
    PROVE  /\ Leaves(s) \in Seq(Seq(Digests)) /\ Len(Leaves(s)) = Len(s)
           /\ \A i \in 1..Len(s) : Leaves(s)[i] = SubSeq(Contents(s), 1, i)
           /\ Tip(s) = Contents(s)
           /\ ChainHolds(s)
<1> DEFINE c == Contents(s)
<1>1. /\ c \in Seq(Digests) /\ Len(c) = Len(s) /\ DOMAIN s = 1..Len(s) /\ Len(s) \in Nat
  BY ContentsFact
<1>2. \A i \in 1..Len(s) :
         /\ s[i] = [id |-> s[i].id, note |-> s[i].note,
                    parent |-> SubSeq(c, 1, i - 1), hash |-> SubSeq(c, 1, i)]
         /\ s[i].hash = SubSeq(c, 1, i)
  BY SealedFact
<1>3. \A i \in 1..Len(s) : s[i] = Link(s[i], SubSeq(c, 1, i - 1))
  BY <1>1 DEF Sealed
<1>4. \A i \in 1..Len(s) : SubSeq(c, 1, i) \in Seq(Digests)
  BY <1>1, PrefixStep
<1> HIDE DEF c
<1>5. /\ Leaves(s) \in Seq(Seq(Digests)) /\ Len(Leaves(s)) = Len(s)
      /\ \A i \in 1..Len(s) : Leaves(s)[i] = SubSeq(c, 1, i)
  <2>1. Leaves(s) = [i \in 1..Len(s) |-> SubSeq(c, 1, i)]
    BY <1>1, <1>2 DEF Leaves
  <2>2. [i \in 1..Len(s) |-> SubSeq(c, 1, i)] \in Seq(Seq(Digests))
    BY <1>1, <1>4, IsASeq
  <2> QED
    BY <1>1, <2>1, <2>2
<1>6. Tip(s) = c
  <2>1. CASE s = <<>>
    BY <1>1, <2>1 DEF Tip
  <2>2. CASE s # <<>>
    <3>1. Len(s) \in 1..Len(s)
      BY <2>2
    <3>2. Tip(s) = SubSeq(c, 1, Len(c))
      BY <1>1, <1>2, <2>2, <3>1 DEF Tip
    <3> QED
      BY <1>1, <3>2, SubSeqFull
  <2> QED
    BY <2>1, <2>2
<1>7. ChainHolds(s)
  <2> SUFFICES ASSUME NEW i \in 1..Len(s) PROVE s[i] = Link(s[i], Tip(SubSeq(s, 1, i - 1)))
    BY <1>1 DEF ChainHolds
  <2>1. Tip(SubSeq(s, 1, i - 1)) = SubSeq(c, 1, i - 1)
    <3>1. CASE i = 1
      BY <1>1, <3>1 DEF Tip
    <3>2. CASE i # 1
      <4>1. /\ i - 1 \in 1..Len(s) /\ SubSeq(s, 1, i - 1) # <<>>
            /\ Len(SubSeq(s, 1, i - 1)) = i - 1 /\ SubSeq(s, 1, i - 1)[i - 1] = s[i - 1]
        BY <1>1, <3>2
      <4> QED
        BY <1>2, <4>1 DEF Tip
    <3> QED
      BY <3>1, <3>2
  <2> QED
    BY <1>3, <2>1
<1> QED
  BY <1>5, <1>6, <1>7 DEF c

\* A row that is linked to the tip of a sealed chain leaves it sealed.
LEMMA ChainedFact ==
    ASSUME NEW s \in Seq(ChainRows), s = Sealed(s), NEW row \in Digests
    PROVE  LET t == Append(s, Link(row, Tip(s))) IN
           /\ t \in Seq(ChainRows) /\ t = Sealed(t) /\ Len(t) = Len(s) + 1
           /\ Contents(t) = Append(Contents(s), row)
           /\ \A i \in 1..Len(s) : t[i] = s[i]
           /\ t[Len(s) + 1].id = row.id
<1> DEFINE c == Contents(s)
           new == Link(row, Tip(s))
           t == Append(s, new)
           d == Append(c, row)
<1>1. /\ c \in Seq(Digests) /\ Len(c) = Len(s) /\ Len(s) \in Nat /\ Tip(s) = c
      /\ \A i \in 1..Len(s) : c[i] = [id |-> s[i].id, note |-> s[i].note]
  BY ContentsFact, ChainFact
<1>2. row = [id |-> row.id, note |-> row.note] /\ row.id \in Nat /\ row.note \in Nat
  BY DEF Digests
<1>3. new = [id |-> row.id, note |-> row.note, parent |-> c, hash |-> d]
  BY <1>1, <1>2 DEF Link, Content
<1>4. d \in Seq(Digests) /\ Len(d) = Len(s) + 1 /\ d[Len(s) + 1] = row
      /\ \A i \in 1..Len(s) : d[i] = c[i]
  BY <1>1
<1>5. new \in ChainRows
  BY <1>1, <1>2, <1>3, <1>4 DEF ChainRows
<1> HIDE DEF new, c, d
<1>6. /\ t \in Seq(ChainRows) /\ Len(t) = Len(s) + 1 /\ t[Len(s) + 1] = new
      /\ \A i \in 1..Len(s) : t[i] = s[i]
  BY <1>1, <1>5
<1> HIDE DEF t
<1>7. Contents(t) = d
  <2> DEFINE e == Contents(t)
  <2>1. /\ e \in Seq(Digests) /\ Len(e) = Len(t)
        /\ \A i \in 1..Len(t) : e[i] = [id |-> t[i].id, note |-> t[i].note]
    BY <1>6, ContentsFact
  <2>2. \A i \in 1..Len(s) : e[i] = d[i]
    BY <1>1, <1>4, <1>6, <2>1
  <2>3. e[Len(s) + 1] = d[Len(s) + 1]
    BY <1>1, <1>2, <1>3, <1>4, <1>6, <2>1
  <2> HIDE DEF e
  <2>4. Len(e) = Len(d) /\ \A i \in 1..Len(e) : e[i] = d[i]
    BY <1>1, <1>4, <1>6, <2>1, <2>2, <2>3
  <2>5. e = d
    BY <1>4, <2>1, <2>4, SeqEqual
  <2> QED
    BY <2>5 DEF e
<1>8. t = Sealed(t)
  <2>1. /\ Sealed(t) \in Seq(ChainRows) /\ Len(Sealed(t)) = Len(t)
        /\ \A i \in 1..Len(t) :
             Sealed(t)[i] = [id |-> t[i].id, note |-> t[i].note,
                             parent |-> SubSeq(d, 1, i - 1), hash |-> SubSeq(d, 1, i)]
    BY <1>6, <1>7, SealedFact
  <2>2. ASSUME NEW i \in 1..Len(s) PROVE t[i] = Sealed(t)[i]
    <3>1. s[i] = [id |-> s[i].id, note |-> s[i].note,
                  parent |-> SubSeq(c, 1, i - 1), hash |-> SubSeq(c, 1, i)]
      BY SealedFact DEF c
    <3>2. i \in Nat /\ i - 1 \in Nat /\ i <= Len(c) /\ i <= Len(d) /\ i - 1 <= Len(c) /\ i - 1 <= Len(d)
      BY <1>1, <1>4
    <3>3. SubSeq(c, 1, i) = SubSeq(d, 1, i)
      <4>1. \A j \in 1..i : c[j] = d[j]
        BY <1>1, <1>4
      <4> QED
        BY <1>1, <1>4, <3>2, <4>1, SamePrefix
    <3>4. SubSeq(c, 1, i - 1) = SubSeq(d, 1, i - 1)
      <4>1. \A j \in 1..(i - 1) : c[j] = d[j]
        BY <1>1, <1>4
      <4> QED
        BY <1>1, <1>4, <3>2, <4>1, SamePrefix
    <3>5. i \in 1..Len(t) /\ t[i] = s[i]
      BY <1>1, <1>6
    <3> QED
      BY <2>1, <3>1, <3>3, <3>4, <3>5
  <2>3. t[Len(s) + 1] = Sealed(t)[Len(s) + 1]
    <3>1. SubSeq(d, 1, Len(s) + 1) = d
      BY <1>4, SubSeqFull
    <3>2. SubSeq(d, 1, Len(s)) = c
      <4>1. SubSeq(d, 1, Len(s)) = SubSeq(c, 1, Len(s))
        BY <1>1, <1>4, SamePrefix
      <4> QED
        BY <1>1, <4>1, SubSeqFull
    <3>3. /\ Len(s) + 1 \in 1..Len(t) /\ (Len(s) + 1) - 1 = Len(s)
          /\ t[Len(s) + 1] = new /\ new.id = row.id /\ new.note = row.note
      BY <1>1, <1>3, <1>6
    <3>4. Sealed(t)[Len(s) + 1] = [id |-> row.id, note |-> row.note,
              parent |-> SubSeq(d, 1, Len(s)), hash |-> SubSeq(d, 1, Len(s) + 1)]
      BY <2>1, <3>3
    <3> QED
      BY <1>3, <3>1, <3>2, <3>3, <3>4
  <2>4. \A i \in 1..Len(t) : t[i] = Sealed(t)[i]
    BY <1>1, <1>6, <2>2, <2>3
  <2> QED
    BY <1>6, <2>1, <2>4, SeqEqual
<1>9. t[Len(s) + 1].id = row.id
  BY <1>3, <1>6
<1> QED
  BY <1>6, <1>7, <1>8, <1>9 DEF t, d, c, new

-----------------------------------------------------------------------------
(* The inductive invariant of the ledger                                    *)

TypeInv ==
    /\ open \in BOOLEAN /\ stale \in BOOLEAN /\ replaced \in BOOLEAN /\ used \in BOOLEAN
    /\ items \in Seq(ChainRows) /\ head \in TreeHeads /\ signed \in TreeHeads
    /\ wal \in Seq(Digests) /\ tail \in {"clean", "cut", "whole"}
    /\ file \in [exists : BOOLEAN, items : Seq(ChainRows), head : TreeHeads, signed : TreeHeads]
    /\ rows \in Nat /\ heads \in Nat /\ acked \subseteq Nat

\* The leaves of a head are the first hashes of the chain over these rows.
Covers(leaves, s) ==
    /\ Len(leaves) <= Len(s)
    /\ \A i \in 1..Len(leaves) : leaves[i] = SubSeq(Contents(s), 1, i)

\* The rows in memory: their chain is sealed unless it is stale, and the head
\* covers the first of them.
MemoryInv ==
    /\ ~stale => items = Sealed(items)
    /\ Covers(head.leaves, items)
    /\ head.leaves = <<>> => head = NoHead

\* The file: sealed, with the head of all its rows, and written by a run only.
FileInv ==
    /\ ~file.exists => file = NoFile /\ ~replaced
    /\ file.items = Sealed(file.items)
    /\ file.head.leaves = Leaves(file.items)
    /\ file.head.leaves = <<>> => file.head = NoHead
    /\ file.signed \in {NoHead, file.head}
    /\ ~used => ~file.exists /\ acked = {} /\ ~open

\* What a head, with its signature, may become.
Extends(h, g) ==
    /\ Len(h.leaves) > Len(g.leaves)
    /\ SubSeq(h.leaves, 1, Len(g.leaves)) = g.leaves

\* The head in memory goes on from the published one.
HeadInv ==
    open /\ file.head # NoHead =>
        \/ head = file.head /\ (file.signed # NoHead => signed = file.signed)
        \/ Extends(head, file.head)

\* The log has a first line that does not parse, or none.
LogInv ==
    /\ tail = "whole" => wal # <<>>
    /\ \E k \in 0..Len(wal) : (\A i \in 1..k : wal[i] # Garbage) /\ (k = Len(wal) \/ wal[k + 1] = Garbage)

\* The row stands in the log, before every line that does not parse or may come not to.
InLog(n) ==
    \E i \in 1..Len(wal) :
        /\ wal[i].id = n
        /\ \A j \in 1..i : wal[j] # Garbage
        /\ tail = "whole" => i < Len(wal)

InRows(n, s) == \E i \in 1..Len(s) : s[i].id = n

\* Where the acknowledged rows are.
AckedInv ==
    \A n \in acked :
        /\ open => InRows(n, items)
        /\ IF file.exists THEN InRows(n, file.items) ELSE InLog(n)

LedgerInv == TypeInv /\ MemoryInv /\ FileInv /\ HeadInv /\ LogInv /\ AckedInv

\* Nothing begins published, logged or acknowledged.
LEMMA LedgerInit == Init => LedgerInv
<1> SUFFICES ASSUME Init PROVE LedgerInv
  OBVIOUS
<1>1. /\ open = FALSE /\ items = <<>> /\ stale = FALSE /\ head = NoHead /\ signed = NoHead
      /\ replaced = FALSE /\ wal = <<>> /\ tail = "clean" /\ file = NoFile
      /\ used = FALSE /\ rows = 0 /\ heads = 0 /\ acked = {}
  BY DEF Init
<1>2. NoHead \in TreeHeads /\ NoHead.leaves = <<>>
  BY DEF NoHead, TreeHeads
<1>3. /\ file.exists = FALSE /\ file.items = <<>> /\ file.head = NoHead /\ file.signed = NoHead
      /\ file \in [exists : BOOLEAN, items : Seq(ChainRows), head : TreeHeads, signed : TreeHeads]
  BY <1>1, <1>2 DEF NoFile
<1>4. TypeInv
  <2>1. items \in Seq(ChainRows) /\ wal \in Seq(Digests)
    BY <1>1
  <2>2. open \in BOOLEAN /\ stale \in BOOLEAN /\ replaced \in BOOLEAN /\ used \in BOOLEAN
    BY <1>1
  <2> QED
    BY <1>1, <1>2, <1>3, <2>1, <2>2 DEF TypeInv
<1>5. Sealed(<<>>) = <<>> /\ Leaves(<<>>) = <<>>
  BY DEF Sealed, Leaves
<1>6. MemoryInv
  BY <1>1, <1>2, <1>5 DEF MemoryInv, Covers
<1>7. FileInv
  BY <1>1, <1>2, <1>3, <1>5 DEF FileInv
<1>8. HeadInv /\ AckedInv
  BY <1>1 DEF HeadInv, AckedInv
<1>9. LogInv
  BY <1>1 DEF LogInv
<1> QED
  BY <1>4, <1>6, <1>7, <1>8, <1>9 DEF LedgerInv

-----------------------------------------------------------------------------
(* Memory                                                                   *)

\* Sealed or not, what is used of the rows is their sealed chain.
LEMMA CurrentFact ==
    ASSUME TypeInv, MemoryInv
    PROVE  /\ Current = Sealed(items) /\ Current \in Seq(ChainRows) /\ Current = Sealed(Current)
           /\ Contents(Current) = Contents(items) /\ Len(Current) = Len(items)
           /\ \A i \in 1..Len(items) : Current[i].id = items[i].id
                                       /\ Current[i].hash = SubSeq(Contents(items), 1, i)
<1>1. items \in Seq(ChainRows)
  BY DEF TypeInv
<1>2. Current = Sealed(items)
  BY DEF Current, MemoryInv
<1>3. /\ Sealed(items) \in Seq(ChainRows) /\ Len(Sealed(items)) = Len(items)
      /\ Contents(Sealed(items)) = Contents(items)
      /\ \A i \in 1..Len(items) :
           /\ Sealed(items)[i].id = items[i].id
           /\ Sealed(items)[i].hash = SubSeq(Contents(items), 1, i)
  BY <1>1, SealedFact
<1>4. Sealed(Sealed(items)) = Sealed(items)
  BY <1>1, <1>3, SealedByContents
<1> QED
  BY <1>2, <1>3, <1>4

\* A head still covers the rows it covered, whatever becomes of later ones.
LEMMA CoversMore ==
    ASSUME NEW leaves \in Seq(Seq(Digests)), NEW s \in Seq(ChainRows), NEW t \in Seq(ChainRows),
           Covers(leaves, s), Len(leaves) <= Len(t),
           \A i \in 1..Len(leaves) : Contents(t)[i] = Contents(s)[i]
    PROVE  Covers(leaves, t)
<1>1. /\ Contents(s) \in Seq(Digests) /\ Len(Contents(s)) = Len(s)
      /\ Contents(t) \in Seq(Digests) /\ Len(Contents(t)) = Len(t)
  BY ContentsFact
<1>2. ASSUME NEW i \in 1..Len(leaves) PROVE leaves[i] = SubSeq(Contents(t), 1, i)
  <2>1. /\ i \in Nat /\ i <= Len(Contents(s)) /\ i <= Len(Contents(t))
        /\ \A j \in 1..i : Contents(s)[j] = Contents(t)[j]
    BY <1>1 DEF Covers
  <2>2. SubSeq(Contents(s), 1, i) = SubSeq(Contents(t), 1, i)
    BY <1>1, <2>1, SamePrefix
  <2> QED
    BY <2>2 DEF Covers
<1> QED
  BY <1>2 DEF Covers

\* A row is recorded in memory.
LEMMA ChainedMemory ==
    ASSUME TypeInv, MemoryInv, items' = Chained(NewRow), stale' = FALSE, head' = head
    PROVE  /\ items' \in Seq(ChainRows) /\ MemoryInv'
           /\ \A n : InRows(n, items) => InRows(n, items')
           /\ InRows(rows + 1, items')
<1>1. /\ Current = Sealed(items) /\ Current \in Seq(ChainRows) /\ Current = Sealed(Current)
      /\ Contents(Current) = Contents(items) /\ Len(Current) = Len(items)
      /\ \A i \in 1..Len(items) : Current[i].id = items[i].id
  BY CurrentFact
<1>2. NewRow \in Digests /\ NewRow.id = rows + 1
  BY DEF NewRow, Digests, TypeInv
<1>3. items' = Append(Current, Link(NewRow, Tip(Current)))
  BY DEF Chained
<1>4. /\ items' \in Seq(ChainRows) /\ items' = Sealed(items') /\ Len(items') = Len(items) + 1
      /\ Contents(items') = Append(Contents(items), NewRow)
      /\ \A i \in 1..Len(items) : items'[i] = Current[i]
      /\ items'[Len(items) + 1].id = rows + 1
  BY <1>1, <1>2, <1>3, ChainedFact
<1>5. items \in Seq(ChainRows) /\ head.leaves \in Seq(Seq(Digests)) /\ Len(items) \in Nat
      /\ Contents(items) \in Seq(Digests) /\ Len(Contents(items)) = Len(items)
  BY ContentsFact DEF TypeInv, TreeHeads
<1>6. Covers(head.leaves, items')
  <2>1. Covers(head.leaves, items) /\ Len(head.leaves) <= Len(items)
    BY DEF MemoryInv, Covers
  <2>2. \A i \in 1..Len(head.leaves) : Contents(items')[i] = Contents(items)[i]
    BY <1>2, <1>4, <1>5, <2>1
  <2>3. Len(head.leaves) <= Len(items') /\ items' \in Seq(ChainRows)
    BY <1>4, <1>5, <2>1
  <2> QED
    BY <1>5, <2>1, <2>2, <2>3, CoversMore
<1>7. MemoryInv'
  BY <1>4, <1>6 DEF MemoryInv
<1>8. ASSUME NEW n, InRows(n, items) PROVE InRows(n, items')
  <2>1. PICK i \in 1..Len(items) : items[i].id = n
    BY <1>8 DEF InRows
  <2>2. i \in 1..Len(items')
    BY <1>4, <1>5
  <2>3. items'[i] = Current[i] /\ Current[i].id = n
    BY <1>1, <1>4, <2>1
  <2> QED
    BY <2>2, <2>3 DEF InRows
<1>9. InRows(rows + 1, items')
  BY <1>4, <1>5 DEF InRows
<1> QED
  BY <1>4, <1>7, <1>8, <1>9

\* The head a ledger publishes next is the one it has, or goes on from it.
LEMMA NextHeadFact ==
    ASSUME TypeInv, MemoryInv
    PROVE  LET h == NextHead(Current) IN
           /\ h \in TreeHeads /\ h.leaves = Leaves(Current)
           /\ h.leaves = <<>> => h = NoHead
           /\ Covers(h.leaves, Current)
           /\ h = head \/ Extends(h, head)
<1> DEFINE l == Leaves(Current)
           h == NextHead(Current)
           c == Contents(Current)
<1>1. /\ Current = Sealed(items) /\ Current \in Seq(ChainRows) /\ Current = Sealed(Current)
      /\ c = Contents(items) /\ Len(Current) = Len(items) /\ Len(items) \in Nat
  BY CurrentFact DEF TypeInv
<1>2. /\ l \in Seq(Seq(Digests)) /\ Len(l) = Len(items)
      /\ \A i \in 1..Len(items) : l[i] = SubSeq(c, 1, i)
  BY <1>1, ChainFact
<1>3. /\ head \in TreeHeads /\ head.leaves \in Seq(Seq(Digests)) /\ Len(head.leaves) \in Nat
      /\ Len(head.leaves) <= Len(items)
      /\ \A i \in 1..Len(head.leaves) : head.leaves[i] = SubSeq(c, 1, i)
      /\ head.leaves = <<>> => head = NoHead
  BY <1>1 DEF TypeInv, TreeHeads, MemoryInv, Covers
<1>4. Covers(l, Current)
  BY <1>1, <1>2 DEF Covers
<1>5. CASE Current = <<>>
  <2>1. h = head /\ Len(items) = 0
    BY <1>1, <1>5 DEF NextHead
  <2>2. head.leaves = <<>> /\ l = <<>>
    BY <1>2, <1>3, <2>1
  <2> QED
    BY <1>3, <1>4, <2>1, <2>2
<1>6. CASE Current # <<>> /\ head.leaves = l
  BY <1>3, <1>4, <1>6 DEF NextHead
<1>7. CASE Current # <<>> /\ head.leaves # l
  <2>1. h = [leaves |-> l, stamp |-> heads + 1] /\ h.leaves = l
    BY <1>7 DEF NextHead
  <2>2. h \in TreeHeads
    BY <1>2, <2>1 DEF TreeHeads, TypeInv
  <2>3. Len(l) # 0
    BY <1>1, <1>2, <1>7
  <2> HIDE DEF l, h, c
  <2>4. ASSUME NEW i \in 1..Len(head.leaves) PROVE l[i] = head.leaves[i]
    <3>1. i \in 1..Len(items)
      BY <1>1, <1>3
    <3>2. l[i] = SubSeq(c, 1, i)
      BY <1>2, <3>1
    <3>3. head.leaves[i] = SubSeq(c, 1, i)
      BY <1>3
    <3> QED
      BY <3>2, <3>3
  <2>5. Len(l) # Len(head.leaves)
    BY <1>2, <1>3, <1>7, <2>4, SeqEqual
  <2>6. SubSeq(l, 1, Len(head.leaves)) = SubSeq(head.leaves, 1, Len(head.leaves))
    BY <1>2, <1>3, <2>4, SamePrefix
  <2>7. SubSeq(head.leaves, 1, Len(head.leaves)) = head.leaves
    BY <1>3, SubSeqFull
  <2>8. Extends(h, head)
    BY <1>2, <1>3, <2>1, <2>5, <2>6, <2>7 DEF Extends
  <2> QED
    BY <1>4, <2>1, <2>2, <2>3, <2>8 DEF l, h
<1> QED
  BY <1>5, <1>6, <1>7

-----------------------------------------------------------------------------
(* The log                                                                  *)

\* A row of the run is no garbage.
LEMMA NewRowFact ==
    ASSUME TypeInv
    PROVE  NewRow \in Digests /\ NewRow.id = rows + 1 /\ NewRow # Garbage /\ Garbage \in Digests
<1>1. NewRow.id = rows + 1 /\ Garbage.id = 0 /\ rows + 1 # 0
  BY DEF NewRow, Garbage, TypeInv
<1> QED
  BY <1>1 DEF NewRow, Garbage, Digests, TypeInv

\* A log that loses its end, or has it spoilt, keeps a first line that does not parse.
LEMMA LogShortened ==
    ASSUME TypeInv, LogInv, tail = "whole", tail' # "whole",
           Len(wal') \in {Len(wal), Len(wal) - 1},
           Len(wal') = Len(wal) => wal'[Len(wal)] = Garbage,
           \A i \in 1..(Len(wal) - 1) : wal'[i] = wal[i]
    PROVE  LogInv' /\ \A n : InLog(n) => InLog(n)'
<1>1. Len(wal) \in Nat /\ Len(wal) # 0
  BY DEF TypeInv, LogInv
<1>2. PICK k \in 0..Len(wal) :
         (\A i \in 1..k : wal[i] # Garbage) /\ (k = Len(wal) \/ wal[k + 1] = Garbage)
  BY DEF LogInv
<1>3. ASSUME k = Len(wal) PROVE LogInv'
  <2>1. /\ Len(wal) - 1 \in 0..Len(wal') /\ \A i \in 1..(Len(wal) - 1) : wal'[i] # Garbage
        /\ Len(wal) - 1 = Len(wal') \/ wal'[(Len(wal) - 1) + 1] = Garbage
    BY <1>1, <1>2, <1>3
  <2> QED
    BY <2>1 DEF LogInv
<1>4. ASSUME k # Len(wal) PROVE LogInv'
  <2>1. /\ k \in 0..Len(wal') /\ \A i \in 1..k : wal'[i] # Garbage
        /\ k = Len(wal') \/ wal'[k + 1] = Garbage
    BY <1>1, <1>2, <1>4
  <2> QED
    BY <2>1 DEF LogInv
<1>5. ASSUME NEW n, InLog(n) PROVE InLog(n)'
  <2>1. PICK i \in 1..Len(wal) :
           wal[i].id = n /\ i < Len(wal) /\ \A j \in 1..i : wal[j] # Garbage
    BY <1>5 DEF InLog
  <2>2. i \in 1..Len(wal') /\ \A j \in 1..i : j \in 1..Len(wal') /\ wal'[j] = wal[j]
    BY <1>1, <2>1
  <2>3. i \in 1..i
    BY <2>2
  <2> QED
    BY <2>1, <2>2, <2>3 DEF InLog
<1> QED
  BY <1>3, <1>4, <1>5

\* A line is appended.
LEMMA LogLengthened ==
    ASSUME TypeInv, LogInv, tail # "whole", tail' \in {"clean", "whole"}, NEW line \in Digests,
           wal' = Append(wal, line)
    PROVE  /\ wal' \in Seq(Digests) /\ LogInv'
           /\ \A n : InLog(n) => InLog(n)'
           /\ \A n : LogWhole /\ line # Garbage /\ tail' = "clean" /\ n = line.id => InLog(n)'
<1>1. /\ wal \in Seq(Digests) /\ Len(wal) \in Nat /\ wal' \in Seq(Digests)
      /\ Len(wal') = Len(wal) + 1 /\ wal'[Len(wal) + 1] = line
      /\ \A i \in 1..Len(wal) : wal'[i] = wal[i]
  BY DEF TypeInv
<1>2. PICK k \in 0..Len(wal) :
         (\A i \in 1..k : wal[i] # Garbage) /\ (k = Len(wal) \/ wal[k + 1] = Garbage)
  BY DEF LogInv
<1>3. \E m \in 0..Len(wal') :
         (\A i \in 1..m : wal'[i] # Garbage) /\ (m = Len(wal') \/ wal'[m + 1] = Garbage)
  <2>1. CASE k = Len(wal) /\ line # Garbage
    <3>1. Len(wal') \in 0..Len(wal') /\ \A i \in 1..Len(wal') : wal'[i] # Garbage
      BY <1>1, <1>2, <2>1
    <3> QED
      BY <3>1
  <2>2. CASE k # Len(wal) \/ line = Garbage
    <3>1. /\ k \in 0..Len(wal') /\ \A i \in 1..k : wal'[i] # Garbage
          /\ wal'[k + 1] = Garbage
      BY <1>1, <1>2, <2>2
    <3> QED
      BY <3>1
  <2> QED
    BY <2>1, <2>2
<1>4. LogInv'
  <2>1. wal' # <<>>
    BY <1>1
  <2> QED
    BY <1>3, <2>1 DEF LogInv
<1>5. ASSUME NEW n, InLog(n) PROVE InLog(n)'
  <2>1. PICK i \in 1..Len(wal) : wal[i].id = n /\ \A j \in 1..i : wal[j] # Garbage
    BY <1>5 DEF InLog
  <2>2. /\ i \in 1..Len(wal') /\ i < Len(wal') /\ wal'[i].id = n
        /\ \A j \in 1..i : wal'[j] # Garbage
    BY <1>1, <2>1
  <2> QED
    BY <2>2 DEF InLog
<1>6. ASSUME LogWhole, line # Garbage, tail' = "clean", NEW n, n = line.id PROVE InLog(n)'
  <2>1. \A j \in 1..Len(wal) : wal[j] # Garbage
    BY <1>1, <1>6 DEF LogWhole
  <2>2. /\ Len(wal') \in 1..Len(wal') /\ wal'[Len(wal')].id = n
        /\ \A j \in 1..Len(wal') : wal'[j] # Garbage
    BY <1>1, <1>6, <2>1
  <2>3. tail' # "whole"
    BY <1>6
  <2> QED
    BY <2>2, <2>3 DEF InLog
<1> QED
  BY <1>1, <1>4, <1>5, <1>6

\* Nothing is appended, whatever the last line is cut to.
LEMMA LogSame ==
    ASSUME TypeInv, LogInv, wal' = wal, tail' = tail \/ (tail # "whole" /\ tail' = "cut")
    PROVE  wal' \in Seq(Digests) /\ LogInv' /\ \A n : InLog(n) => InLog(n)'
  BY DEF TypeInv, LogInv, InLog

\* What record() does to the log.
LEMMA WrittenFact ==
    ASSUME TypeInv, LogInv, wal' = Written(NewRow), tail' = "clean"
    PROVE  /\ wal' \in Seq(Digests) /\ LogInv'
           /\ \A n : InLog(n) => InLog(n)'
           /\ \A n : LogWhole /\ n = rows + 1 => InLog(n)'
<1>1. NewRow \in Digests /\ NewRow.id = rows + 1 /\ NewRow # Garbage /\ Garbage \in Digests
  BY NewRowFact
<1>2. CASE tail = "clean"
  <2>1. wal' = Append(wal, NewRow)
    BY <1>2 DEF Written
  <2> QED
    BY <1>1, <1>2, <2>1, LogLengthened
<1>3. CASE tail = "cut"
  <2>1. wal' = Append(wal, Garbage)
    BY <1>3 DEF Written
  <2> QED
    BY <1>1, <1>3, <2>1, LogLengthened DEF LogWhole
<1>4. CASE tail = "whole"
  <2>1. wal' = [wal EXCEPT ![Len(wal)] = Garbage] /\ wal \in Seq(Digests) /\ wal # <<>>
    BY <1>4 DEF Written, TypeInv, LogInv
  <2>2. /\ wal' \in Seq(Digests) /\ Len(wal') = Len(wal) /\ wal'[Len(wal)] = Garbage
        /\ \A i \in 1..(Len(wal) - 1) : wal'[i] = wal[i]
    BY <1>1, <2>1
  <2> QED
    BY <1>4, <2>2, LogShortened DEF LogWhole
<1> QED
  BY <1>2, <1>3, <1>4 DEF TypeInv

\* What an append that was cut short does to the log.
LEMMA TornFact ==
    ASSUME TypeInv, LogInv, TornBy(NewRow)
    PROVE  /\ wal' \in Seq(Digests) /\ tail' \in {"clean", "cut", "whole"} /\ LogInv'
           /\ \A n : InLog(n) => InLog(n)'
<1>1. NewRow \in Digests
  BY NewRowFact
<1>2. CASE tail' = "cut" /\ tail = "whole" /\ wal' = SubSeq(wal, 1, Len(wal) - 1)
  <2>1. wal \in Seq(Digests) /\ wal # <<>>
    BY <1>2 DEF TypeInv, LogInv
  <2>2. /\ wal' \in Seq(Digests) /\ Len(wal') = Len(wal) - 1
        /\ \A i \in 1..(Len(wal) - 1) : wal'[i] = wal[i]
    <3> DEFINE m == Len(wal) - 1
    <3>1. m \in Nat /\ m <= Len(wal)
      BY <2>1
    <3>2. wal' = SubSeq(wal, 1, m)
      BY <1>2
    <3> HIDE DEF m
    <3>3. wal' \in Seq(Digests) /\ Len(wal') = m /\ \A i \in 1..m : wal'[i] = wal[i]
      BY <2>1, <3>1, <3>2
    <3> QED
      BY <3>3 DEF m
  <2>3. Len(wal') # Len(wal)
    BY <2>1, <2>2
  <2> QED
    BY <1>2, <2>2, <2>3, LogShortened
<1>3. CASE tail' = "cut" /\ tail # "whole" /\ wal' = wal
  BY <1>3, LogSame
<1>4. CASE tail = "clean" /\ tail' = "whole" /\ wal' = Append(wal, NewRow)
  BY <1>1, <1>4, LogLengthened
<1> QED
  BY <1>2, <1>3, <1>4 DEF TornBy

-----------------------------------------------------------------------------
(* Opening                                                                  *)

\* What is loaded is sealed, covered by the head that comes with it, and holds every
\* acknowledged row.
LEMMA LoadedFact ==
    ASSUME TypeInv, FileInv, LogInv, AckedInv
    PROVE  /\ Loaded \in Seq(ChainRows) /\ Loaded = Sealed(Loaded)
           /\ Covers(file.head.leaves, Loaded)
           /\ \A n \in acked : InRows(n, Loaded)
<1>1. /\ file.items \in Seq(ChainRows) /\ file.items = Sealed(file.items)
      /\ file.head.leaves = Leaves(file.items)
  BY DEF TypeInv, FileInv
<1>2. CASE file.exists
  <2>1. Loaded = file.items
    BY <1>2 DEF Loaded
  <2>2. Covers(file.head.leaves, file.items)
    <3>1. /\ Len(Leaves(file.items)) = Len(file.items) /\ Len(file.items) \in Nat
          /\ \A i \in 1..Len(file.items) : Leaves(file.items)[i] = SubSeq(Contents(file.items), 1, i)
      BY <1>1, ChainFact
    <3> QED
      BY <1>1, <3>1 DEF Covers
  <2>3. \A n \in acked : InRows(n, file.items)
    BY <1>2 DEF AckedInv
  <2> QED
    BY <1>1, <2>1, <2>2, <2>3
<1>3. CASE ~file.exists
  <2> DEFINE stops(k) == (\A i \in 1..k : wal[i] # Garbage) /\ (k = Len(wal) \/ wal[k + 1] = Garbage)
             m == CHOOSE k \in 0..Len(wal) : stops(k)
  <2>1. m \in 0..Len(wal) /\ stops(m)
    <3>1. \E k \in 0..Len(wal) : stops(k)
      BY DEF LogInv
    <3> HIDE DEF stops
    <3> QED
      BY <3>1
  <2>2. Loaded = Sealed(Replayed) /\ Replayed = SubSeq(wal, 1, m)
    BY <1>3 DEF Loaded, Replayed
  <2> HIDE DEF m
  <2>3. wal \in Seq(Digests) /\ Len(wal) \in Nat
    BY DEF TypeInv
  <2>4. /\ Replayed \in Seq(Digests) /\ Len(Replayed) = m /\ \A i \in 1..m : Replayed[i] = wal[i]
    BY <2>1, <2>2, <2>3
  <2>5. /\ Loaded \in Seq(ChainRows) /\ Len(Loaded) = m /\ Contents(Loaded) = Contents(Replayed)
        /\ \A i \in 1..m : Loaded[i].id = Replayed[i].id
    <3>1. Replayed \in Seq(ChainRows) \cup Seq(Digests)
      BY <2>4
    <3>2. /\ Sealed(Replayed) \in Seq(ChainRows) /\ Len(Sealed(Replayed)) = Len(Replayed)
          /\ Contents(Sealed(Replayed)) = Contents(Replayed)
          /\ \A i \in 1..Len(Replayed) : Sealed(Replayed)[i].id = Replayed[i].id
      BY <3>1, SealedFact
    <3> QED
      BY <2>2, <2>4, <3>2
  <2>6. Loaded = Sealed(Loaded)
    BY <2>2, <2>4, <2>5, SealedByContents
  <2>7. Covers(file.head.leaves, Loaded)
    <3>1. file.head.leaves = <<>>
      BY <1>3 DEF FileInv, NoFile, NoHead
    <3> QED
      BY <2>5, <3>1 DEF Covers
  <2>8. ASSUME NEW n \in acked PROVE InRows(n, Loaded)
    <3>1. PICK i \in 1..Len(wal) : wal[i].id = n /\ \A j \in 1..i : wal[j] # Garbage
      BY <1>3 DEF AckedInv, InLog
    <3>2. i \in 1..m
      BY <2>1, <2>3, <3>1
    <3> QED
      BY <2>4, <2>5, <3>1, <3>2 DEF InRows
  <2> QED
    BY <2>5, <2>6, <2>7, <2>8
<1> QED
  BY <1>2, <1>3

\* A ledger is created before anything was published or acknowledged.
LEMMA CreateInv == LedgerInv /\ Create => LedgerInv'
<1> SUFFICES ASSUME LedgerInv, Create PROVE LedgerInv'
  OBVIOUS
<1>1. /\ UNCHANGED <<items, stale, head, signed, replaced, wal, tail, file, rows, heads, acked>>
      /\ open' = TRUE /\ used' = TRUE /\ ~used
  BY DEF Create, disk
<1>2. acked = {} /\ file = NoFile /\ ~replaced
  BY <1>1 DEF LedgerInv, FileInv
<1>3. TypeInv' /\ MemoryInv' /\ FileInv'
  BY <1>1 DEF LedgerInv, TypeInv, MemoryInv, FileInv
<1>4. HeadInv' /\ AckedInv'
  BY <1>1, <1>2 DEF HeadInv, AckedInv, NoFile
<1>5. LogInv'
  BY <1>1 DEF LedgerInv, LogInv
<1> QED
  BY <1>3, <1>4, <1>5 DEF LedgerInv

\* A ledger is loaded with the head of the file.
LEMMA LoadInv == LedgerInv /\ Load => LedgerInv'
<1> SUFFICES ASSUME LedgerInv, Load PROVE LedgerInv'
  OBVIOUS
<1>1. /\ UNCHANGED <<wal, tail, file, used, rows, heads, acked>> /\ used
      /\ open' = TRUE /\ stale' = FALSE /\ replaced' = FALSE
      /\ items' = Loaded /\ head' = file.head /\ signed' = file.signed
  BY DEF Load, disk
<1>2. /\ Loaded \in Seq(ChainRows) /\ Loaded = Sealed(Loaded)
      /\ Covers(file.head.leaves, Loaded)
      /\ \A n \in acked : InRows(n, Loaded)
  BY LoadedFact DEF LedgerInv
<1>3. TypeInv'
  <2>1. file.head \in TreeHeads /\ file.signed \in TreeHeads
    BY DEF LedgerInv, TypeInv
  <2> QED
    BY <1>1, <1>2, <2>1 DEF LedgerInv, TypeInv
<1>4. MemoryInv'
  BY <1>1, <1>2 DEF LedgerInv, MemoryInv, FileInv
<1>5. FileInv' /\ HeadInv'
  BY <1>1 DEF LedgerInv, FileInv, HeadInv
<1>6. LogInv'
  BY <1>1 DEF LedgerInv, LogInv
<1>7. AckedInv'
  BY <1>1, <1>2 DEF LedgerInv, AckedInv, InLog, InRows
<1> QED
  BY <1>3, <1>4, <1>5, <1>6, <1>7 DEF LedgerInv

-----------------------------------------------------------------------------
(* Writing                                                                  *)

\* record(), whether its append succeeds or fails.
LEMMA RecordInv == LedgerInv /\ (Record \/ RecordError) => LedgerInv'
<1> SUFFICES ASSUME LedgerInv, Record \/ RecordError PROVE LedgerInv'
  OBVIOUS
<1> USE DEF LedgerInv
<1>1. /\ UNCHANGED <<open, head, signed, replaced, file, used, heads>>
      /\ open /\ rows' = rows + 1 /\ items' = Chained(NewRow) /\ stale' = FALSE
  BY DEF Record, RecordError, Writable
<1>2. /\ items' \in Seq(ChainRows) /\ MemoryInv'
      /\ \A n : InRows(n, items) => InRows(n, items')
      /\ InRows(rows + 1, items')
  BY <1>1, ChainedMemory
<1>3. /\ wal' \in Seq(Digests) /\ tail' \in {"clean", "cut", "whole"} /\ LogInv'
      /\ \A n : InLog(n) => InLog(n)'
      /\ \/ acked' = acked
         \/ /\ ~file.exists /\ acked' = acked \cup {rows + 1}
            /\ \A n : n = rows + 1 => InLog(n)'
  <2>1. CASE Record
    <3>1. /\ wal' = Written(NewRow) /\ tail' = "clean"
          /\ acked' = IF ~file.exists /\ LogWhole THEN acked \cup {rows + 1} ELSE acked
      BY <2>1 DEF Record
    <3> QED
      BY <3>1, WrittenFact
  <2>2. CASE RecordError
    <3>1. /\ acked' = acked
          /\ \/ TornBy(NewRow) \/ UNCHANGED <<wal, tail>>
             \/ wal' = Written(NewRow) /\ tail' = "clean"
      BY <2>2 DEF RecordError
    <3> QED
      BY <3>1, TornFact, WrittenFact, LogSame DEF TypeInv
  <2> QED
    BY <2>1, <2>2
<1>4. acked' \subseteq Nat /\ rows' \in Nat
  <2>1. acked \subseteq Nat /\ rows + 1 \in Nat
    BY DEF TypeInv
  <2>2. acked' = acked \/ acked' = acked \cup {rows + 1}
    BY <1>3
  <2> QED
    BY <1>1, <2>1, <2>2
<1>5. TypeInv'
  BY <1>1, <1>2, <1>3, <1>4 DEF TypeInv
<1>6. FileInv' /\ HeadInv'
  BY <1>1 DEF FileInv, HeadInv
<1>7. AckedInv'
  <2> SUFFICES ASSUME NEW n \in acked'
               PROVE  InRows(n, items') /\ IF file.exists THEN InRows(n, file.items) ELSE InLog(n)'
    BY <1>1 DEF AckedInv
  <2>1. CASE n \in acked
    BY <1>1, <1>2, <1>3, <2>1 DEF AckedInv
  <2>2. CASE n \notin acked
    <3>1. ~file.exists /\ n = rows + 1 /\ InLog(n)'
      BY <1>3, <2>2
    <3> QED
      BY <1>2, <3>1
  <2> QED
    BY <2>1, <2>2
<1> QED
  BY <1>2, <1>3, <1>5, <1>6, <1>7

\* An annotation reaches no row that the head covers.
LEMMA AnnotateInv == ASSUME LedgerInv, NEW i, Annotate(i) PROVE LedgerInv'
<1> USE DEF LedgerInv
<1>1. /\ UNCHANGED <<open, head, signed, replaced, wal, tail, file, used, rows, heads, acked>>
      /\ open /\ i \in DOMAIN items /\ i > Len(head.leaves) /\ stale' = TRUE
      /\ items' = [items EXCEPT ![i].note = @ + 1]
  BY DEF Annotate, Writable, disk
<1>2. items \in Seq(ChainRows) /\ i \in 1..Len(items) /\ items[i] \in ChainRows
  BY <1>1 DEF TypeInv
<1> DEFINE row == [id |-> items[i].id, note |-> items[i].note + 1,
                   parent |-> items[i].parent, hash |-> items[i].hash]
<1>3. row \in ChainRows /\ row.id = items[i].id
  BY <1>2 DEF ChainRows
<1>4. items' = [items EXCEPT ![i] = row]
  <2>1. [items[i] EXCEPT !.note = items[i].note + 1] = row
    <3>1. \A r \in ChainRows : \A x : [r EXCEPT !.note = x]
              = [id |-> r.id, note |-> x, parent |-> r.parent, hash |-> r.hash]
      BY DEF ChainRows
    <3> QED
      BY <1>2, <3>1
  <2> HIDE DEF row
  <2> QED
    BY <1>1, <2>1
<1> HIDE DEF row
<1>5. /\ items' \in Seq(ChainRows) /\ Len(items') = Len(items) /\ items'[i] = row
      /\ \A j \in 1..Len(items) : j # i => items'[j] = items[j]
  BY <1>2, <1>3, <1>4
<1>6. Covers(head.leaves, items')
  <2>1. head.leaves \in Seq(Seq(Digests)) /\ Len(head.leaves) \in Nat
    BY DEF TypeInv, TreeHeads
  <2>2. Covers(head.leaves, items) /\ Len(head.leaves) <= Len(items)
    BY DEF MemoryInv, Covers
  <2>3. ASSUME NEW j \in 1..Len(head.leaves) PROVE Contents(items')[j] = Contents(items)[j]
    <3>1. j \in 1..Len(items) /\ j # i
      BY <1>1, <1>2, <2>1, <2>2
    <3>2. Contents(items)[j] = [id |-> items[j].id, note |-> items[j].note]
      BY <1>2, <3>1, ContentsFact
    <3>3. Contents(items')[j] = [id |-> items'[j].id, note |-> items'[j].note]
      BY <1>5, <3>1, ContentsFact
    <3> QED
      BY <1>5, <3>1, <3>2, <3>3
  <2> QED
    BY <1>2, <1>5, <2>1, <2>2, <2>3, CoversMore
<1>7. TypeInv'
  BY <1>1, <1>5 DEF TypeInv
<1>8. MemoryInv' /\ FileInv' /\ HeadInv' /\ LogInv'
  BY <1>1, <1>6 DEF MemoryInv, FileInv, HeadInv, LogInv
<1>9. AckedInv'
  <2>1. ASSUME NEW n, InRows(n, items) PROVE InRows(n, items')
    <3>1. PICK j \in 1..Len(items) : items[j].id = n
      BY <2>1 DEF InRows
    <3>2. items'[j].id = n
      BY <1>3, <1>5, <3>1
    <3> QED
      BY <1>5, <3>1, <3>2 DEF InRows
  <2> QED
    BY <1>1, <2>1 DEF AckedInv, InLog
<1> QED
  BY <1>7, <1>8, <1>9

\* What sealing the rows in memory leaves, with any head that covers them.
LEMMA SealedMemory ==
    ASSUME TypeInv, MemoryInv, items' = Current, stale' = FALSE,
           head' \in TreeHeads, Covers(head'.leaves, Current),
           head'.leaves = <<>> => head' = NoHead
    PROVE  /\ items' \in Seq(ChainRows) /\ MemoryInv'
           /\ \A n : InRows(n, items) => InRows(n, items')
<1>1. /\ Current \in Seq(ChainRows) /\ Current = Sealed(Current) /\ Len(Current) = Len(items)
      /\ \A i \in 1..Len(items) : Current[i].id = items[i].id
  BY CurrentFact
<1>2. MemoryInv'
  BY <1>1 DEF MemoryInv
<1> QED
  BY <1>1, <1>2 DEF InRows

\* A stale chain is sealed.
LEMMA SealInv == LedgerInv /\ Seal => LedgerInv'
<1> SUFFICES ASSUME LedgerInv, Seal PROVE LedgerInv'
  OBVIOUS
<1> USE DEF LedgerInv
<1>1. /\ UNCHANGED <<open, head, signed, replaced, wal, tail, file, used, rows, heads, acked>>
      /\ items' = Current /\ stale' = FALSE
  BY DEF Seal, Current, disk
<1>2. head \in TreeHeads /\ Covers(head.leaves, Current) /\ (head.leaves = <<>> => head = NoHead)
  BY CurrentFact DEF TypeInv, MemoryInv, Covers
<1>3. /\ items' \in Seq(ChainRows) /\ MemoryInv'
      /\ \A n : InRows(n, items) => InRows(n, items')
  BY <1>1, <1>2, SealedMemory
<1>4. TypeInv' /\ FileInv'
  BY <1>1, <1>3 DEF TypeInv, FileInv
<1>5. HeadInv' /\ LogInv'
  BY <1>1 DEF HeadInv, LogInv
<1>6. AckedInv'
  BY <1>1, <1>3 DEF AckedInv, InLog
<1> QED
  BY <1>3, <1>4, <1>5, <1>6

-----------------------------------------------------------------------------
(* Publishing                                                               *)

\* What persist() makes of memory, and what it writes, if it can.
LEMMA PublishFact ==
    ASSUME LedgerInv, NEW key \in BOOLEAN, Persist(key) \/ PersistError(key)
    PROVE  /\ items' = Current /\ items' \in Seq(ChainRows) /\ items' = Sealed(items')
           /\ MemoryInv'
           /\ \A n : InRows(n, items) => InRows(n, items')
           /\ head' \in TreeHeads /\ head'.leaves = Leaves(items')
           /\ signed' \in TreeHeads /\ (Persist(key) => signed' \in {NoHead, head'})
           /\ (head' = head /\ (signed = head => signed' = signed)) \/ Extends(head', head)
           /\ heads' \in Nat
<1> USE DEF LedgerInv
<1> DEFINE h == NextHead(Current)
<1>1. /\ items' = Current /\ stale' = FALSE /\ head' = h
      /\ signed' = Signature(h, key) \/ (signed' = signed /\ PersistError(key))
      /\ Persist(key) => signed' = Signature(h, key)
      /\ heads' = IF h = head THEN heads ELSE heads + 1
  BY DEF Persist, PersistError
<1>2. /\ h \in TreeHeads /\ h.leaves = Leaves(Current)
      /\ h.leaves = <<>> => h = NoHead
      /\ Covers(h.leaves, Current)
      /\ h = head \/ Extends(h, head)
  BY NextHeadFact
<1> HIDE DEF h
<1>3. /\ items' \in Seq(ChainRows) /\ MemoryInv'
      /\ \A n : InRows(n, items) => InRows(n, items')
  BY <1>1, <1>2, SealedMemory
<1>4. items' = Sealed(items')
  BY <1>1, CurrentFact
<1>5. /\ signed' \in TreeHeads /\ (Persist(key) => signed' \in {NoHead, head'})
      /\ head' = head /\ signed = head => signed' = signed
  <2>1. Signature(h, key) \in {NoHead, h} /\ (signed = h => Signature(h, key) = signed)
    BY DEF Signature
  <2>2. NoHead \in TreeHeads /\ signed \in TreeHeads
    BY DEF NoHead, TreeHeads, TypeInv
  <2> QED
    BY <1>1, <1>2, <2>1, <2>2
<1>6. heads' \in Nat
  BY <1>1 DEF TypeInv
<1> QED
  BY <1>1, <1>2, <1>3, <1>4, <1>5, <1>6

\* A head goes on from what the one before it went on from.
LEMMA ExtendsOn ==
    ASSUME NEW f \in TreeHeads, NEW g \in TreeHeads, NEW h \in TreeHeads,
           Extends(g, f), Extends(h, g)
    PROVE  Extends(h, f)
<1> DEFINE lf == f.leaves
           lg == g.leaves
           lh == h.leaves
<1>1. lf \in Seq(Seq(Digests)) /\ lg \in Seq(Seq(Digests)) /\ lh \in Seq(Seq(Digests))
  BY DEF TreeHeads
<1>2. /\ Len(lg) > Len(lf) /\ SubSeq(lg, 1, Len(lf)) = lf
      /\ Len(lh) > Len(lg) /\ SubSeq(lh, 1, Len(lg)) = lg
  BY DEF Extends
<1> HIDE DEF lf, lg, lh
<1>3. Len(lf) \in Nat /\ Len(lg) \in Nat /\ Len(lh) \in Nat
  BY <1>1
<1>4. \A i \in 1..Len(lg) : lh[i] = lg[i]
  BY <1>1, <1>2, <1>3
<1>5. SubSeq(lh, 1, Len(lf)) = SubSeq(lg, 1, Len(lf))
  <2>1. /\ Len(lf) <= Len(lh) /\ Len(lf) <= Len(lg)
        /\ \A j \in 1..Len(lf) : lh[j] = lg[j]
    BY <1>2, <1>3, <1>4
  <2> QED
    BY <1>1, <1>3, <2>1, SamePrefix
<1>6. Len(lh) > Len(lf)
  BY <1>2, <1>3
<1> QED
  BY <1>2, <1>5, <1>6 DEF Extends, lf, lg, lh

\* The head that is published next goes on from the published one.
LEMMA HeadGoesOn ==
    ASSUME LedgerInv, NEW key \in BOOLEAN, Persist(key) \/ PersistError(key), file.head # NoHead
    PROVE  \/ head' = file.head /\ (file.signed # NoHead => signed' = file.signed)
           \/ Extends(head', file.head)
<1> USE DEF LedgerInv
<1>1. \/ head = file.head /\ (file.signed # NoHead => signed = file.signed)
      \/ Extends(head, file.head)
  BY DEF HeadInv, Persist, PersistError
<1>2. (head' = head /\ (signed = head => signed' = signed)) \/ Extends(head', head)
  BY PublishFact
<1>3. head' \in TreeHeads /\ head \in TreeHeads /\ file.head \in TreeHeads
  BY PublishFact DEF TypeInv
<1>4. Extends(head', head) /\ Extends(head, file.head) => Extends(head', file.head)
  BY <1>3, ExtendsOn
<1>5. file.signed \in {NoHead, file.head}
  BY DEF FileInv
<1> QED
  BY <1>1, <1>2, <1>4, <1>5

\* persist(), up to the replacement of the file, whether it can be written or not.
LEMMA PersistInv == ASSUME LedgerInv, NEW key \in BOOLEAN, Persist(key) \/ PersistError(key) PROVE LedgerInv'
<1> USE DEF LedgerInv
<1>1. /\ UNCHANGED <<open, wal, tail, used, rows, acked>> /\ open
      /\ stale' \in BOOLEAN /\ replaced' \in BOOLEAN
  BY DEF Persist, PersistError, disk, TypeInv
<1>2. /\ items' \in Seq(ChainRows) /\ items' = Sealed(items') /\ MemoryInv'
      /\ \A n : InRows(n, items) => InRows(n, items')
      /\ head' \in TreeHeads /\ head'.leaves = Leaves(items')
      /\ signed' \in TreeHeads /\ heads' \in Nat
      /\ Persist(key) => signed' \in {NoHead, head'}
  BY PublishFact
<1>3. LogInv'
  BY <1>1 DEF LogInv
<1>4. NoHead \in TreeHeads
  BY DEF NoHead, TreeHeads
<1>5. CASE Persist(key)
  <2>1. /\ file' = [exists |-> TRUE, items |-> items', head |-> head', signed |-> signed']
        /\ used
    BY <1>1, <1>5 DEF Persist, FileInv
  <2>2. /\ file'.exists = TRUE /\ file'.items = items' /\ file'.head = head' /\ file'.signed = signed'
        /\ file' \in [exists : BOOLEAN, items : Seq(ChainRows), head : TreeHeads, signed : TreeHeads]
    BY <1>2, <1>4, <2>1
  <2>3. TypeInv'
    BY <1>1, <1>2, <2>2 DEF TypeInv
  <2>4. FileInv'
    BY <1>1, <1>2, <1>5, <2>1, <2>2 DEF FileInv, MemoryInv
  <2>5. HeadInv'
    BY <2>2 DEF HeadInv
  <2>6. AckedInv'
    BY <1>1, <1>2, <2>2 DEF AckedInv
  <2> QED
    BY <1>2, <1>3, <2>3, <2>4, <2>5, <2>6
<1>6. CASE PersistError(key)
  <2>1. UNCHANGED <<file, replaced>>
    BY <1>6 DEF PersistError, disk
  <2>2. TypeInv' /\ FileInv'
    BY <1>1, <1>2, <2>1 DEF TypeInv, FileInv
  <2>3. HeadInv'
    <3>1. file.head # NoHead =>
            \/ head' = file.head /\ (file.signed # NoHead => signed' = file.signed)
            \/ Extends(head', file.head)
      BY HeadGoesOn
    <3> QED
      BY <2>1, <3>1 DEF HeadInv
  <2>4. AckedInv'
    BY <1>1, <1>2, <2>1 DEF AckedInv, InLog
  <2> QED
    BY <1>2, <1>3, <2>2, <2>3, <2>4
<1> QED
  BY <1>5, <1>6

\* The log is removed only when the file holds its rows.
LEMMA UnlinkInv == LedgerInv /\ PersistUnlink => LedgerInv'
<1> SUFFICES ASSUME LedgerInv, PersistUnlink PROVE LedgerInv'
  OBVIOUS
<1> USE DEF LedgerInv
<1>1. /\ UNCHANGED <<open, items, stale, head, signed, file, used, rows, heads, acked>>
      /\ wal' = <<>> /\ tail' = "clean" /\ replaced' = FALSE /\ replaced
  BY DEF PersistUnlink
<1>2. file.exists
  BY <1>1 DEF FileInv
<1>3. wal' \in Seq(Digests) /\ replaced' \in BOOLEAN
  <2>1. wal' = <<>> /\ replaced' = FALSE
    BY <1>1
  <2>2. wal' \in Seq(Digests)
    BY <2>1
  <2> QED
    BY <2>1, <2>2
<1>4. TypeInv'
  BY <1>1, <1>3 DEF TypeInv
<1>5. MemoryInv' /\ FileInv' /\ HeadInv'
  BY <1>1 DEF MemoryInv, FileInv, HeadInv
<1>6. LogInv'
  BY <1>1 DEF LogInv
<1>7. AckedInv'
  BY <1>1, <1>2 DEF AckedInv
<1> QED
  BY <1>4, <1>5, <1>6, <1>7

\* The process dies, perhaps in the middle of an append.
LEMMA CrashInv == LedgerInv /\ (Crash \/ CrashInAppend) => LedgerInv'
<1> SUFFICES ASSUME LedgerInv, Crash \/ CrashInAppend PROVE LedgerInv'
  OBVIOUS
<1> USE DEF LedgerInv
<1>1. /\ UNCHANGED <<file, used, heads, acked>> /\ open
      /\ open' = FALSE /\ items' = <<>> /\ stale' = FALSE /\ head' = NoHead
      /\ signed' = NoHead /\ replaced' = FALSE
      /\ rows' \in Nat
  BY DEF Crash, CrashInAppend, Closed, disk, Writable, TypeInv
<1>2. NoHead \in TreeHeads /\ NoHead.leaves = <<>> /\ items' \in Seq(ChainRows)
  BY <1>1 DEF NoHead, TreeHeads
<1>3. /\ wal' \in Seq(Digests) /\ tail' \in {"clean", "cut", "whole"} /\ LogInv'
      /\ \A n : InLog(n) => InLog(n)'
  <2>1. CASE Crash
    BY <2>1, LogSame DEF Crash, disk, TypeInv
  <2>2. CASE CrashInAppend
    BY <2>2, TornFact DEF CrashInAppend
  <2> QED
    BY <2>1, <2>2
<1>4. TypeInv'
  <2>1. open' \in BOOLEAN /\ stale' \in BOOLEAN /\ replaced' \in BOOLEAN
    BY <1>1
  <2> QED
    BY <1>1, <1>2, <1>3, <2>1 DEF TypeInv
<1>5. MemoryInv'
  <2>1. items' = Sealed(items') /\ Covers(head'.leaves, items')
    BY <1>1, <1>2 DEF Sealed, Covers
  <2> QED
    BY <1>1, <2>1 DEF MemoryInv
<1>6. FileInv' /\ HeadInv'
  BY <1>1 DEF FileInv, HeadInv
<1>7. AckedInv'
  BY <1>1, <1>3 DEF AckedInv
<1> QED
  BY <1>3, <1>4, <1>5, <1>6, <1>7

-----------------------------------------------------------------------------
(* What the ledger promises                                                 *)

\* Every step keeps the invariant.
LEMMA LedgerNext == LedgerInv /\ [Next]_vars => LedgerInv'
<1> SUFFICES ASSUME LedgerInv, [Next]_vars PROVE LedgerInv'
  OBVIOUS
<1>1. CASE UNCHANGED vars
  BY <1>1 DEF vars, memory, disk, LedgerInv, TypeInv, MemoryInv, FileInv, HeadInv, LogInv, AckedInv, InLog
<1>2. CASE Next
  <2>1. ASSUME NEW key \in BOOLEAN, Persist(key) \/ PersistError(key) PROVE LedgerInv'
    BY <2>1, PersistInv
  <2>2. ASSUME NEW i \in 1..MaxRows, Annotate(i) PROVE LedgerInv'
    BY <2>2, AnnotateInv
  <2> QED
    BY <1>2, <2>1, <2>2, CreateInv, LoadInv, RecordInv, SealInv, UnlinkInv, CrashInv DEF Next
<1> QED
  BY <1>1, <1>2

\* The inductive invariant holds of every reachable state.
THEOREM LedgerInvCorrect == Spec => []LedgerInv
<1> QED
  BY LedgerInit, LedgerNext, PTL DEF Spec

\* load() never refuses what persist() wrote, and no row under a published head is
\* ever rewritten, whatever is recorded, annotated, sealed and persisted.
THEOREM PublishedIsSoundCorrect == Spec => []PublishedIsSound
<1>1. LedgerInv => PublishedIsSound
  <2> SUFFICES ASSUME LedgerInv PROVE PublishedIsSound
    OBVIOUS
  <2> USE DEF LedgerInv
  <2>1. LoadAccepts
    <3>1. ChainHolds(file.items)
      BY ChainFact DEF TypeInv, FileInv
    <3> QED
      BY <3>1 DEF LoadAccepts, Accepted, FileInv
  <2>2. CommittedPrefixHolds
    <3>1. /\ Len(head.leaves) \in Nat /\ Len(head.leaves) <= Len(items) /\ Len(items) \in Nat
          /\ \A i \in 1..Len(head.leaves) : head.leaves[i] = SubSeq(Contents(items), 1, i)
      BY DEF TypeInv, TreeHeads, MemoryInv, Covers
    <3>2. \A i \in 1..Len(items) : Current[i].hash = SubSeq(Contents(items), 1, i)
      BY CurrentFact
    <3> QED
      BY <3>1, <3>2 DEF CommittedPrefixHolds
  <2> QED
    BY <2>1, <2>2 DEF PublishedIsSound
<1> QED
  BY <1>1, LedgerInvCorrect, PTL

\* A row whose record() returned, to a whole log and before any file, is in whatever
\* load() returns: "Evidence must survive a crash mid-run" (ledger.py:229).
THEOREM RecordedSurvivesCorrect == Spec => []RecordedSurvives
<1>1. LedgerInv => RecordedSurvives
  <2> SUFFICES ASSUME LedgerInv PROVE RecordedSurvives
    OBVIOUS
  <2>1. Loaded \in Seq(ChainRows) /\ \A n \in acked : InRows(n, Loaded)
    BY LoadedFact DEF LedgerInv
  <2> QED
    BY <2>1 DEF RecordedSurvives, InRows
<1> QED
  BY <1>1, LedgerInvCorrect, PTL

\* A published head is kept, signature and all, or extended by more rows.
THEOREM PublishedHeadCorrect == Spec => PublishedHeadStands
<1> DEFINE Stands == file.head # NoHead =>
         \/ file'.head = file.head /\ (file.signed # NoHead => file'.signed = file.signed)
         \/ /\ Len(file'.head.leaves) > Len(file.head.leaves)
            /\ SubSeq(file'.head.leaves, 1, Len(file.head.leaves)) = file.head.leaves
<1>1. LedgerInv /\ [Next]_vars => [Stands]_vars
  <2> SUFFICES ASSUME LedgerInv, Next, file.head # NoHead, file' # file PROVE Stands
    OBVIOUS
  <2>1. PICK key \in BOOLEAN : Persist(key)
    BY DEF Next, Create, Load, Record, RecordError, Annotate, Seal, PersistUnlink, PersistError,
           Crash, CrashInAppend, disk
  <2>2. file'.head = head' /\ file'.signed = signed'
    BY <2>1 DEF Persist
  <2>3. \/ head' = file.head /\ (file.signed # NoHead => signed' = file.signed)
        \/ Extends(head', file.head)
    BY <2>1, HeadGoesOn
  <2> QED
    BY <2>2, <2>3 DEF Extends
<1> QED
  BY <1>1, LedgerInvCorrect, PTL DEF Spec, PublishedHeadStands

-----------------------------------------------------------------------------
(* The research of one requirement: its inductive invariant                 *)

PageRows == [try : Nat, page : Nat, at : Origins, says : Answers]
Claims == [try : Nat, status : {"none", "supported", "contradicted", "not_found"}, refs : SUBSET PageRows]

ResearchTypes ==
    /\ payload \in Payloads
    /\ item \in [status : {"queued", "running", "failed", "completed"}, attempts : Nat, claim : Claims]
    /\ handler \in [pc : {"off", "fetch", "return", "raised", "commit", "fail"},
                    rows : Seq(PageRows), claim : Claims]
    /\ log \in [Tries -> Seq(PageRows)] /\ onDisk \in [Tries -> SUBSET PageRows]
    /\ seen \subseteq PageRows /\ reserved \in Nat /\ writeErrors \in Nat

\* An attempt is under way just when the item says so, and it is one of the tries.
AttemptInv ==
    /\ item.attempts <= MaxTries
    /\ handler.pc = "off" <=> item.status # "running"
    /\ handler.pc = "off" => handler = Resting
    /\ handler.pc # "off" => item.attempts \in Tries

\* The rows of an attempt are the pages it retrieved, in order; every one was returned
\* unless the attempt has failed.
RowsInv ==
    handler.pc # "off" =>
        /\ Len(handler.rows) <= Len(payload.pages)
        /\ \A i \in 1..Len(handler.rows) :
             /\ handler.rows[i].try = item.attempts /\ handler.rows[i].page = i
             /\ handler.rows[i].at \in payload.approved
             /\ handler.pc \in {"fetch", "return", "commit"} => handler.rows[i] \in seen

\* Until it persists they are its log, or all of its log is among them if it has
\* failed, and nothing was written under its name.
LogOfAttemptInv ==
    /\ handler.pc \in {"fetch", "return"} => log[item.attempts] = handler.rows
    /\ handler.pc = "raised" => Stored(log[item.attempts]) \subseteq Stored(handler.rows)
    /\ handler.pc \in {"fetch", "return", "raised"} => onDisk[item.attempts] = {}
    /\ handler.pc = "commit" => onDisk[item.attempts] = Stored(handler.rows)
    /\ \A a \in Tries : a > item.attempts => log[a] = <<>> /\ onDisk[a] = {}

\* An attempt that returns a claim has every page.
ReturnInv ==
    handler.pc \in {"return", "commit"} =>
        Len(handler.rows) = Len(payload.pages) /\ handler.claim = Assessment(handler.rows)

ResearchInv ==
    /\ ResearchTypes /\ AttemptInv /\ RowsInv /\ LogOfAttemptInv /\ ReturnInv
    /\ PartialEvidenceSurvives /\ ClaimIsWhole

\* What an assessment says of the rows it is of.
LEMMA AssessmentFact ==
    ASSUME NEW s \in Seq(PageRows), item.attempts \in Nat
    PROVE  /\ Assessment(s) \in Claims
           /\ Assessment(s).try = item.attempts /\ Assessment(s).refs = Telling(s)
           /\ Assessment(s).status = "supported" => \A r \in Telling(s) : r.says = "yes"
<1> DEFINE signs == {r.says : r \in Telling(s)}
           verdict == CASE signs = {"yes"} -> "supported" [] signs = {"no"} -> "contradicted"
                        [] OTHER -> "not_found"
<1>1. Telling(s) \subseteq PageRows
  BY DEF Telling, Stored
<1>2. /\ verdict \in {"supported", "contradicted", "not_found"}
      /\ verdict = "supported" => signs = {"yes"}
  OBVIOUS
<1>3. Assessment(s) = [try |-> item.attempts, refs |-> Telling(s), status |-> verdict]
  BY DEF Assessment
<1>4. signs = {"yes"} => \A r \in Telling(s) : r.says = "yes"
  OBVIOUS
<1> HIDE DEF verdict
<1> QED
  BY <1>1, <1>2, <1>3, <1>4 DEF Claims

\* The pages of a payload.
LEMMA PayloadFact ==
    ASSUME payload \in Payloads
    PROVE  DOMAIN payload.pages = 1..Len(payload.pages) /\ Len(payload.pages) \in Nat
<1>1. PICK n \in 1..PageCount : payload.pages \in [1..n -> Origins]
  BY DEF Payloads
<1> QED
  BY <1>1, ResearchAssumption

\* Research begins with an item in the queue and no evidence.
LEMMA ResearchInitInv == ResearchInit => ResearchInv
<1> SUFFICES ASSUME ResearchInit PROVE ResearchInv
  OBVIOUS
<1> USE ResearchAssumption
<1>1. /\ payload \in Payloads /\ handler = Resting /\ seen = {} /\ reserved = 0 /\ writeErrors = 0
      /\ item = [status |-> "queued", attempts |-> 0, claim |-> NoClaim]
      /\ log = [a \in Tries |-> <<>>] /\ onDisk = [a \in Tries |-> {}]
  BY DEF ResearchInit
<1>2. NoClaim \in Claims
  BY DEF NoClaim, Claims
<1>3. item.status = "queued" /\ item.attempts = 0 /\ handler.pc = "off" /\ handler.rows = <<>>
  BY <1>1 DEF Resting
<1>4. ResearchTypes
  <2>1. <<>> \in Seq(PageRows)
    OBVIOUS
  <2> QED
    BY <1>1, <1>2, <2>1 DEF ResearchTypes, Resting
<1>5. AttemptInv /\ RowsInv /\ ReturnInv
  BY <1>1, <1>3 DEF AttemptInv, RowsInv, ReturnInv
<1>6. LogOfAttemptInv
  BY <1>1, <1>3 DEF LogOfAttemptInv
<1>7. PartialEvidenceSurvives /\ ClaimIsWhole
  BY <1>1, <1>3 DEF PartialEvidenceSurvives, ClaimIsWhole
<1> QED
  BY <1>4, <1>5, <1>6, <1>7 DEF ResearchInv

\* A queued item is claimed, for a try that has no ledger yet.
LEMMA BeginInv == ResearchInv /\ Begin => ResearchInv'
<1> SUFFICES ASSUME ResearchInv, Begin PROVE ResearchInv'
  OBVIOUS
<1> USE ResearchAssumption DEF ResearchInv
<1>1. /\ UNCHANGED <<payload, log, onDisk, reserved, seen, writeErrors>>
      /\ item.status = "queued" /\ item.attempts < MaxTries
      /\ item' = [item EXCEPT !.status = "running", !.attempts = item.attempts + 1]
      /\ handler' = [Resting EXCEPT !.pc = "fetch"]
  BY DEF Begin
<1>2. /\ item'.status = "running" /\ item'.attempts = item.attempts + 1 /\ item.attempts \in Nat
      /\ item' \in [status : {"queued", "running", "failed", "completed"}, attempts : Nat, claim : Claims]
  <2>1. item \in [status : {"queued", "running", "failed", "completed"}, attempts : Nat, claim : Claims]
    BY DEF ResearchTypes
  <2> DEFINE n == item.attempts + 1
  <2>2. n \in Nat /\ item' = [item EXCEPT !.status = "running", !.attempts = n]
    BY <1>1, <2>1
  <2> HIDE DEF n
  <2>3. /\ item'.status = "running" /\ item'.attempts = n
        /\ item' \in [status : {"queued", "running", "failed", "completed"}, attempts : Nat, claim : Claims]
    BY <2>1, <2>2
  <2> QED
    BY <2>1, <2>3 DEF n
<1>3. /\ handler'.pc = "fetch" /\ handler'.rows = <<>>
      /\ handler' \in [pc : {"off", "fetch", "return", "raised", "commit", "fail"},
                       rows : Seq(PageRows), claim : Claims]
  <2>1. handler' = [pc |-> "fetch", rows |-> <<>>, claim |-> NoClaim]
    BY <1>1 DEF Resting
  <2>2. NoClaim \in Claims /\ <<>> \in Seq(PageRows)
    BY DEF NoClaim, Claims
  <2> QED
    BY <2>1, <2>2
<1>4. ResearchTypes'
  BY <1>1, <1>2, <1>3 DEF ResearchTypes
<1>5. item'.attempts \in Tries /\ item'.attempts > item.attempts
  BY <1>1, <1>2 DEF Tries
<1>6. AttemptInv'
  BY <1>1, <1>2, <1>3, <1>5 DEF AttemptInv
<1>7. RowsInv'
  BY <1>1, <1>3, PayloadFact DEF RowsInv, ResearchTypes
<1>8. LogOfAttemptInv'
  <2>1. log[item'.attempts] = <<>> /\ onDisk[item'.attempts] = {}
    BY <1>5 DEF LogOfAttemptInv
  <2>2. \A a \in Tries : a > item'.attempts => a > item.attempts
    BY <1>2 DEF Tries
  <2> QED
    BY <1>1, <1>3, <2>1, <2>2 DEF LogOfAttemptInv
<1>9. ReturnInv' /\ ClaimIsWhole'
  BY <1>2, <1>3 DEF ReturnInv, ClaimIsWhole
<1>10. PartialEvidenceSurvives'
  BY <1>1 DEF PartialEvidenceSurvives
<1> QED
  BY <1>4, <1>6, <1>7, <1>8, <1>9, <1>10

\* One page: it is in the log of its attempt when it is seen, or the attempt is lost.
LEMMA FetchPageInv == ResearchInv /\ FetchPage => ResearchInv'
<1> SUFFICES ASSUME ResearchInv, FetchPage PROVE ResearchInv'
  OBVIOUS
<1> USE ResearchAssumption DEF ResearchInv
<1> DEFINE Handlers == [pc : {"off", "fetch", "return", "raised", "commit", "fail"},
                        rows : Seq(PageRows), claim : Claims]
<1>1. /\ UNCHANGED <<payload, item, onDisk, writeErrors>>
      /\ handler.pc = "fetch" /\ Len(handler.rows) + 1 <= Len(payload.pages)
      /\ handler \in Handlers /\ item.attempts \in Tries /\ item.status = "running"
      /\ reserved' \in Nat
  <2>1. /\ UNCHANGED <<payload, item, onDisk, writeErrors>>
        /\ handler.pc = "fetch" /\ Len(handler.rows) + 1 <= Len(payload.pages)
        /\ reserved' \in {reserved, reserved + 1}
    BY DEF FetchPage, NextPage, Unretrieved
  <2>2. handler \in Handlers /\ reserved \in Nat
    BY DEF ResearchTypes
  <2>3. item.attempts \in Tries /\ item.status = "running"
    BY <2>1 DEF AttemptInv, ResearchTypes
  <2> QED
    BY <2>1, <2>2, <2>3
<1>2. /\ Len(payload.pages) \in Nat /\ Len(handler.rows) \in Nat
      /\ Len(handler.rows) <= Len(payload.pages)
  BY <1>1, PayloadFact DEF ResearchTypes, RowsInv
<1>3. ClaimIsWhole'
  BY <1>1 DEF ClaimIsWhole
<1>4. CASE Raises /\ UNCHANGED <<log, seen>>
  <2>1. /\ handler' \in Handlers /\ handler'.pc = "raised" /\ handler'.rows = handler.rows
    BY <1>1, <1>4 DEF Raises
  <2>2. ResearchTypes'
    BY <1>1, <1>4, <2>1 DEF ResearchTypes
  <2>3. AttemptInv' /\ ReturnInv'
    BY <1>1, <2>1 DEF AttemptInv, ReturnInv
  <2>4. RowsInv' /\ LogOfAttemptInv' /\ PartialEvidenceSurvives'
    BY <1>1, <1>4, <2>1 DEF RowsInv, LogOfAttemptInv, PartialEvidenceSurvives
  <2> QED
    BY <1>3, <2>2, <2>3, <2>4
<1>5. ASSUME NEW at \in Origins, NEW says \in Answers, ~Strayed(at),
             handler' = [handler EXCEPT !.rows = Append(handler.rows, Row(NextPage, at, says))],
             log' = [log EXCEPT ![Mine] = Append(log[Mine], Row(NextPage, at, says))],
             seen' = seen \cup {Row(NextPage, at, says)}
      PROVE  ResearchInv'
  <2> DEFINE row == Row(NextPage, at, says)
             before == handler.rows
             after == Append(before, row)
  <2>1. /\ row \in PageRows /\ row.try = item.attempts /\ row.page = Len(before) + 1
        /\ row.at \in payload.approved
    BY <1>1, <1>2, <1>5 DEF Row, NextPage, PageRows, Tries, Strayed
  <2> HIDE DEF row
  <2>2. /\ before \in Seq(PageRows) /\ after \in Seq(PageRows) /\ Len(after) = Len(before) + 1
        /\ after[Len(before) + 1] = row /\ \A i \in 1..Len(before) : after[i] = before[i]
    BY <1>1, <2>1
  <2>3. log[item.attempts] = before /\ onDisk[item.attempts] = {}
    BY <1>1 DEF LogOfAttemptInv
  <2>4. handler' = [handler EXCEPT !.rows = after] /\ log' = [log EXCEPT ![item.attempts] = after]
        /\ seen' = seen \cup {row}
    BY <1>5, <2>3 DEF row, Mine, Name
  <2> HIDE DEF before, after
  <2>5. /\ handler' \in Handlers /\ handler'.pc = "fetch" /\ handler'.rows = after
    BY <1>1, <2>2, <2>4
  <2>6. /\ log' \in [Tries -> Seq(PageRows)] /\ log'[item.attempts] = after
        /\ \A a \in Tries \ {item.attempts} : log'[a] = log[a]
    BY <1>1, <2>2, <2>4 DEF ResearchTypes
  <2>7. ResearchTypes'
    BY <1>1, <2>1, <2>4, <2>5, <2>6 DEF ResearchTypes
  <2>8. AttemptInv' /\ ReturnInv'
    BY <1>1, <2>5 DEF AttemptInv, ReturnInv
  <2>9. RowsInv'
    <3>1. Len(after) <= Len(payload.pages)
      BY <1>1, <2>2 DEF before
    <3>2. ASSUME NEW i \in 1..Len(after)
          PROVE  after[i].try = item.attempts /\ after[i].page = i
                 /\ after[i].at \in payload.approved /\ after[i] \in seen'
      <4>1. CASE i = Len(before) + 1
        BY <2>1, <2>2, <2>4, <4>1
      <4>2. CASE i # Len(before) + 1
        <5>1. i \in 1..Len(before)
          BY <2>2, <4>2
        <5> QED
          BY <1>1, <2>2, <2>4, <5>1 DEF RowsInv, before
      <4> QED
        BY <4>1, <4>2
    <3> QED
      BY <1>1, <2>5, <3>1, <3>2 DEF RowsInv
  <2>10. LogOfAttemptInv'
    <3>1. \A a \in Tries : a > item.attempts => log'[a] = log[a]
      BY <1>1, <2>6 DEF Tries
    <3> QED
      BY <1>1, <2>3, <2>5, <2>6, <3>1 DEF LogOfAttemptInv
  <2>11. PartialEvidenceSurvives'
    <3>1. \A a \in Tries : Stored(log[a]) \subseteq Stored(log'[a])
      <4>1. Stored(before) \subseteq Stored(after)
        BY <2>2 DEF Stored
      <4> QED
        BY <1>1, <2>3, <2>6, <4>1
    <3>2. row \in Stored(log'[item.attempts])
      BY <2>2, <2>6 DEF Stored
    <3>3. ASSUME NEW r \in seen'
          PROVE  \E a \in Tries : r \in Stored(log'[a]) \cup onDisk[a]
      <4>1. CASE r = row
        BY <1>1, <3>2, <4>1
      <4>2. CASE r \in seen
        BY <3>1, <4>2 DEF PartialEvidenceSurvives
      <4> QED
        BY <2>4, <3>3, <4>1, <4>2
    <3> QED
      BY <1>1, <3>3 DEF PartialEvidenceSurvives
  <2> QED
    BY <1>3, <2>7, <2>8, <2>9, <2>10, <2>11
<1>6. \/ Raises /\ UNCHANGED <<log, seen>>
      \/ \E at \in Origins, says \in Answers :
           /\ ~Strayed(at)
           /\ handler' = [handler EXCEPT !.rows = Append(handler.rows, Row(NextPage, at, says))]
           /\ log' = [log EXCEPT ![Mine] = Append(log[Mine], Row(NextPage, at, says))]
           /\ seen' = seen \cup {Row(NextPage, at, says)}
  BY DEF FetchPage, Unretrieved
<1> QED
  BY <1>4, <1>5, <1>6

\* A row that could not be written is among the rows of a failed attempt only.
LEMMA FetchPageUnwrittenInv == ResearchInv /\ FetchPageUnwritten => ResearchInv'
<1> SUFFICES ASSUME ResearchInv, FetchPageUnwritten PROVE ResearchInv'
  OBVIOUS
<1> USE ResearchAssumption DEF ResearchInv
<1> DEFINE Handlers == [pc : {"off", "fetch", "return", "raised", "commit", "fail"},
                        rows : Seq(PageRows), claim : Claims]
<1>1. PICK at \in Origins, says \in Answers :
        /\ ~Strayed(at)
        /\ handler' = [handler EXCEPT !.pc = "raised",
                                      !.rows = Append(handler.rows, Row(NextPage, at, says))]
        /\ \/ log' = [log EXCEPT ![Mine] = Append(log[Mine], Row(NextPage, at, says))]
           \/ UNCHANGED log
  BY DEF FetchPageUnwritten
<1>2. /\ UNCHANGED <<payload, item, onDisk, seen>> /\ writeErrors' = writeErrors + 1
      /\ handler.pc = "fetch" /\ Len(handler.rows) + 1 <= Len(payload.pages)
      /\ reserved' = reserved + 1
  BY DEF FetchPageUnwritten, NextPage
<1>3. /\ handler \in Handlers /\ item.attempts \in Tries /\ item.status = "running"
      /\ reserved' \in Nat /\ writeErrors' \in Nat
  BY <1>2 DEF ResearchTypes, AttemptInv
<1> DEFINE row == Row(NextPage, at, says)
           before == handler.rows
           after == Append(before, row)
<1>4. Len(payload.pages) \in Nat /\ Len(before) \in Nat
  BY <1>3, PayloadFact DEF ResearchTypes
<1>5. /\ row \in PageRows /\ row.try = item.attempts /\ row.page = Len(before) + 1
      /\ row.at \in payload.approved
  BY <1>1, <1>2, <1>3, <1>4 DEF Row, NextPage, PageRows, Tries, Strayed
<1>6. log[item.attempts] = before /\ onDisk[item.attempts] = {}
  BY <1>2 DEF LogOfAttemptInv
<1>7. /\ handler' = [handler EXCEPT !.pc = "raised", !.rows = after]
      /\ log' = [log EXCEPT ![item.attempts] = after] \/ log' = log
  BY <1>1, <1>6 DEF Mine, Name
<1> HIDE DEF row
<1>8. /\ before \in Seq(PageRows) /\ after \in Seq(PageRows) /\ Len(after) = Len(before) + 1
      /\ after[Len(before) + 1] = row /\ \A i \in 1..Len(before) : after[i] = before[i]
  BY <1>3, <1>5
<1> HIDE DEF before, after
<1>9. handler' \in Handlers /\ handler'.pc = "raised" /\ handler'.rows = after
  BY <1>3, <1>7, <1>8
<1>10. Stored(before) \subseteq Stored(after)
  BY <1>8 DEF Stored
<1>11. /\ log' \in [Tries -> Seq(PageRows)] /\ log'[item.attempts] \in {before, after}
       /\ \A a \in Tries \ {item.attempts} : log'[a] = log[a]
  BY <1>3, <1>6, <1>7, <1>8 DEF ResearchTypes
<1>12. ResearchTypes'
  BY <1>2, <1>3, <1>9, <1>11 DEF ResearchTypes
<1>13. AttemptInv' /\ ReturnInv' /\ ClaimIsWhole'
  BY <1>2, <1>3, <1>9 DEF AttemptInv, ReturnInv, ClaimIsWhole
<1>14. RowsInv'
  <2>1. Len(after) <= Len(payload.pages)
    BY <1>2, <1>8 DEF before
  <2>2. ASSUME NEW i \in 1..Len(after)
        PROVE  /\ after[i].try = item.attempts /\ after[i].page = i
               /\ after[i].at \in payload.approved
    <3>1. CASE i = Len(before) + 1
      BY <1>5, <1>8, <3>1
    <3>2. CASE i # Len(before) + 1
      <4>1. i \in 1..Len(before)
        BY <1>4, <1>8, <3>2
      <4> QED
        BY <1>2, <1>8, <4>1 DEF RowsInv, before
    <3> QED
      BY <3>1, <3>2
  <2> QED
    BY <1>2, <1>9, <2>1, <2>2 DEF RowsInv
<1>15. LogOfAttemptInv'
  <2>1. \A a \in Tries : a > item.attempts => log'[a] = log[a]
    BY <1>3, <1>11 DEF Tries
  <2>2. Stored(log'[item.attempts]) \subseteq Stored(after)
    BY <1>10, <1>11
  <2> QED
    BY <1>2, <1>6, <1>9, <2>1, <2>2 DEF LogOfAttemptInv
<1>16. PartialEvidenceSurvives'
  <2>1. \A a \in Tries : Stored(log[a]) \subseteq Stored(log'[a])
    BY <1>6, <1>10, <1>11
  <2> QED
    BY <1>2, <2>1 DEF PartialEvidenceSurvives
<1> QED
  BY <1>12, <1>13, <1>14, <1>15, <1>16

\* Every page is there: they are assessed.
LEMMA AssessInv == ResearchInv /\ Assess => ResearchInv'
<1> SUFFICES ASSUME ResearchInv, Assess PROVE ResearchInv'
  OBVIOUS
<1> USE ResearchAssumption DEF ResearchInv
<1> DEFINE claim == Assessment(handler.rows)
<1>1. /\ UNCHANGED <<payload, item, log, onDisk, reserved, seen, writeErrors>>
      /\ handler.pc = "fetch" /\ Len(handler.rows) + 1 > Len(payload.pages)
      /\ handler' = [handler EXCEPT !.pc = "return", !.claim = claim]
      /\ item.status = "running"
  BY DEF Assess, NextPage, AttemptInv
<1>2. /\ handler \in [pc : {"off", "fetch", "return", "raised", "commit", "fail"},
                      rows : Seq(PageRows), claim : Claims]
      /\ Len(handler.rows) = Len(payload.pages)
  BY <1>1, PayloadFact DEF ResearchTypes, RowsInv
<1>3. claim \in Claims
  BY <1>2, AssessmentFact DEF ResearchTypes
<1>4. claim = Assessment(handler.rows) /\ item' = item
  BY <1>1
<1> HIDE DEF claim
<1>5. /\ handler'.pc = "return" /\ handler'.rows = handler.rows /\ handler'.claim = claim
      /\ handler' \in [pc : {"off", "fetch", "return", "raised", "commit", "fail"},
                       rows : Seq(PageRows), claim : Claims]
  BY <1>1, <1>2, <1>3
<1>6. ResearchTypes'
  BY <1>1, <1>5 DEF ResearchTypes
<1>7. AttemptInv' /\ RowsInv' /\ LogOfAttemptInv' /\ PartialEvidenceSurvives'
  BY <1>1, <1>5 DEF AttemptInv, RowsInv, LogOfAttemptInv, PartialEvidenceSurvives
<1>8. ReturnInv'
  <2>1. Assessment(handler.rows)' = claim
    BY <1>4, <1>5 DEF Assessment
  <2> QED
    BY <1>1, <1>2, <1>5, <2>1 DEF ReturnInv
<1>9. ClaimIsWhole'
  BY <1>1 DEF ClaimIsWhole
<1> QED
  BY <1>6, <1>7, <1>8, <1>9

\* persist() puts in the file what was in the log.
LEMMA PersistLedgerInv == ResearchInv /\ PersistLedger => ResearchInv'
<1> SUFFICES ASSUME ResearchInv, PersistLedger PROVE ResearchInv'
  OBVIOUS
<1> USE ResearchAssumption DEF ResearchInv
<1> DEFINE Handlers == [pc : {"off", "fetch", "return", "raised", "commit", "fail"},
                        rows : Seq(PageRows), claim : Claims]
<1>1. /\ UNCHANGED <<payload, item, reserved, seen>> /\ handler.pc \in {"return", "raised"}
      /\ handler \in Handlers /\ item.status = "running" /\ item.attempts \in Tries
      /\ writeErrors' \in Nat
  BY DEF PersistLedger, AttemptInv, ResearchTypes
<1>2. Stored(log[item.attempts]) \subseteq Stored(handler.rows) /\ onDisk[item.attempts] = {}
  BY <1>1 DEF LogOfAttemptInv
<1>3. ClaimIsWhole'
  BY <1>1 DEF ClaimIsWhole
<1>4. ASSUME NEW s \in {"commit", "fail"}, handler' = [handler EXCEPT !.pc = s],
             s = "commit" => handler.pc = "return" /\ onDisk'[item.attempts] = Stored(handler.rows),
             log' \in [Tries -> Seq(PageRows)], onDisk' \in [Tries -> SUBSET PageRows],
             \A a \in Tries : a > item.attempts => log'[a] = log[a] /\ onDisk'[a] = onDisk[a]
      PROVE  ResearchTypes' /\ AttemptInv' /\ RowsInv' /\ LogOfAttemptInv' /\ ReturnInv'
  <2>1. /\ handler' \in Handlers /\ handler'.pc = s /\ handler'.rows = handler.rows
        /\ handler'.claim = handler.claim
    BY <1>1, <1>4
  <2>2. ResearchTypes'
    BY <1>1, <1>4, <2>1 DEF ResearchTypes
  <2>3. AttemptInv' /\ RowsInv'
    BY <1>1, <1>4, <2>1 DEF AttemptInv, RowsInv
  <2>4. LogOfAttemptInv'
    <3>1. \A a \in Tries : a > item.attempts => log'[a] = <<>> /\ onDisk'[a] = {}
      BY <1>4 DEF LogOfAttemptInv
    <3> QED
      BY <1>1, <1>4, <2>1, <3>1 DEF LogOfAttemptInv
  <2>5. ReturnInv'
    <3>1. Assessment(handler.rows)' = Assessment(handler.rows)
      BY <1>1, <2>1 DEF Assessment
    <3> QED
      BY <1>1, <1>4, <2>1, <3>1 DEF ReturnInv
  <2> QED
    BY <2>2, <2>3, <2>4, <2>5
<1>5. CASE /\ handler' = [handler EXCEPT !.pc = IF handler.pc = "return" THEN "commit" ELSE "fail"]
           /\ onDisk' = [onDisk EXCEPT ![Mine] = Stored(handler.rows)]
           /\ log' = [log EXCEPT ![Mine] = <<>>]
  <2>1. PICK s \in {"commit", "fail"} : /\ handler' = [handler EXCEPT !.pc = s]
                                        /\ s = "commit" => handler.pc = "return"
    BY <1>5
  <2>2. Stored(handler.rows) \subseteq PageRows
    BY <1>1 DEF Stored
  <2>3. /\ log' \in [Tries -> Seq(PageRows)] /\ onDisk' \in [Tries -> SUBSET PageRows]
        /\ onDisk'[item.attempts] = Stored(handler.rows)
        /\ \A a \in Tries \ {item.attempts} : log'[a] = log[a] /\ onDisk'[a] = onDisk[a]
    <3>1. <<>> \in Seq(PageRows)
      OBVIOUS
    <3>2. /\ onDisk' = [onDisk EXCEPT ![item.attempts] = Stored(handler.rows)]
          /\ log' = [log EXCEPT ![item.attempts] = <<>>]
      BY <1>5 DEF Mine, Name
    <3> QED
      BY <1>1, <2>2, <3>1, <3>2 DEF ResearchTypes
  <2>4. ResearchTypes' /\ AttemptInv' /\ RowsInv' /\ LogOfAttemptInv' /\ ReturnInv'
    <3>1. \A a \in Tries : a > item.attempts => log'[a] = log[a] /\ onDisk'[a] = onDisk[a]
      <4>1. \A a \in Tries : a > item.attempts => a \in Tries \ {item.attempts}
        BY <1>1 DEF Tries
      <4> QED
        BY <2>3, <4>1
    <3> QED
      BY <1>4, <2>1, <2>3, <3>1
  <2>5. PartialEvidenceSurvives'
    <3>1. \A a \in Tries : Stored(log[a]) \cup onDisk[a] \subseteq Stored(log'[a]) \cup onDisk'[a]
      BY <1>2, <2>3
    <3> QED
      BY <1>1, <3>1 DEF PartialEvidenceSurvives
  <2> QED
    BY <1>3, <2>4, <2>5
<1>6. CASE handler' = [handler EXCEPT !.pc = "fail"] /\ UNCHANGED <<onDisk, log>>
  <2>1. ResearchTypes' /\ AttemptInv' /\ RowsInv' /\ LogOfAttemptInv' /\ ReturnInv'
    BY <1>4, <1>6 DEF ResearchTypes
  <2>2. PartialEvidenceSurvives'
    BY <1>1, <1>6 DEF PartialEvidenceSurvives
  <2> QED
    BY <1>3, <2>1, <2>2
<1> QED
  BY <1>5, <1>6 DEF PersistLedger

\* The item is completed with the claim of this attempt, or failed.
LEMMA SettleInv == ResearchInv /\ Settle => ResearchInv'
<1> SUFFICES ASSUME ResearchInv, Settle PROVE ResearchInv'
  OBVIOUS
<1> USE ResearchAssumption DEF ResearchInv
<1>1. /\ UNCHANGED <<payload, log, onDisk, reserved, seen, writeErrors>>
      /\ handler.pc \in {"commit", "fail"} /\ handler' = Resting /\ handler'.pc = "off"
      /\ item' = IF handler.pc = "commit"
                   THEN [item EXCEPT !.status = "completed", !.claim = handler.claim]
                   ELSE [item EXCEPT !.status = "failed"]
  BY DEF Settle, Resting
<1>2. /\ item'.attempts = item.attempts /\ item'.status \in {"completed", "failed"}
      /\ item'.status = "completed" => handler.pc = "commit" /\ item'.claim = handler.claim
      /\ item' \in [status : {"queued", "running", "failed", "completed"}, attempts : Nat, claim : Claims]
  BY <1>1 DEF ResearchTypes
<1>3. ResearchTypes'
  <2>1. handler' \in [pc : {"off", "fetch", "return", "raised", "commit", "fail"},
                      rows : Seq(PageRows), claim : Claims]
    <3>1. <<>> \in Seq(PageRows) /\ NoClaim \in Claims
      BY DEF NoClaim, Claims
    <3> QED
      BY <1>1, <3>1 DEF Resting
  <2> QED
    BY <1>1, <1>2, <2>1 DEF ResearchTypes
<1>4. AttemptInv' /\ RowsInv' /\ ReturnInv' /\ LogOfAttemptInv' /\ PartialEvidenceSurvives'
  BY <1>1, <1>2 DEF AttemptInv, RowsInv, ReturnInv, LogOfAttemptInv, PartialEvidenceSurvives
<1>5. ClaimIsWhole'
  <2> SUFFICES ASSUME item'.status = "completed" PROVE ClaimIsWhole'
    BY DEF ClaimIsWhole
  <2> DEFINE s == handler.rows
             t == item.attempts
             found == {r \in onDisk[t] : r.try = t}
  <2>1. /\ handler.pc = "commit" /\ item'.claim = Assessment(s)
        /\ Len(s) = Len(payload.pages) /\ onDisk[t] = Stored(s)
    BY <1>2 DEF ReturnInv, LogOfAttemptInv
  <2>2. /\ s \in Seq(PageRows) /\ DOMAIN s = 1..Len(payload.pages)
        /\ DOMAIN payload.pages = 1..Len(payload.pages)
        /\ \A i \in 1..Len(payload.pages) :
             s[i].try = t /\ s[i].page = i /\ s[i].at \in payload.approved /\ s[i] \in seen
    BY <2>1, PayloadFact DEF ResearchTypes, RowsInv
  <2>3. found = Stored(s)
    BY <2>1, <2>2 DEF Stored
  <2>4. /\ Assessment(s).try = t /\ Assessment(s).refs = Telling(s)
        /\ Assessment(s).status = "supported" => \A r \in Telling(s) : r.says = "yes"
    BY <2>2, AssessmentFact DEF ResearchTypes
  <2> HIDE DEF s, t
  <2>5. {r.page : r \in found} = DOMAIN payload.pages
    BY <2>2, <2>3 DEF Stored
  <2>6. \A r \in found : r \in seen /\ r.at \in payload.approved
    BY <2>2, <2>3 DEF Stored
  <2>7. Telling(s) = {r \in found : r.at = Site /\ r.says # "silent"}
    BY <2>3 DEF Telling
  <2>8. item'.claim.try = t /\ item'.claim.refs = Telling(s)
        /\ (item'.claim.status = "supported" => \A r \in Telling(s) : r.says = "yes")
    BY <2>1, <2>4
  <2>9. {r \in onDisk'[Name(item'.claim.try)] : r.try = item'.claim.try} = found
    BY <1>1, <2>8 DEF Name
  <2> HIDE DEF found
  <2> QED
    BY <1>1, <2>5, <2>6, <2>7, <2>8, <2>9 DEF ClaimIsWhole
<1> QED
  BY <1>3, <1>4, <1>5

\* A failed item is queued again, or an attempt dies and is recovered.
LEMMA AgainInv == ResearchInv /\ (RetryFailed \/ DieAndRecover) => ResearchInv'
<1> SUFFICES ASSUME ResearchInv, RetryFailed \/ DieAndRecover PROVE ResearchInv'
  OBVIOUS
<1> USE ResearchAssumption DEF ResearchInv
<1>1. /\ UNCHANGED <<payload, log, onDisk, reserved, seen, writeErrors>>
      /\ handler' = Resting /\ handler'.pc = "off"
  BY DEF RetryFailed, DieAndRecover, AttemptInv, Resting
<1>2. /\ item'.attempts = item.attempts /\ item'.status \in {"queued", "failed"}
      /\ item' \in [status : {"queued", "running", "failed", "completed"}, attempts : Nat, claim : Claims]
  <2>1. PICK s \in {"queued", "failed"} : item' = [item EXCEPT !.status = s]
    BY DEF RetryFailed, DieAndRecover
  <2> QED
    BY <2>1 DEF ResearchTypes
<1>3. ResearchTypes'
  <2>1. handler' \in [pc : {"off", "fetch", "return", "raised", "commit", "fail"},
                      rows : Seq(PageRows), claim : Claims]
    <3>1. <<>> \in Seq(PageRows) /\ NoClaim \in Claims
      BY DEF NoClaim, Claims
    <3> QED
      BY <1>1, <3>1 DEF Resting
  <2> QED
    BY <1>1, <1>2, <2>1 DEF ResearchTypes
<1>4. AttemptInv' /\ RowsInv' /\ ReturnInv' /\ LogOfAttemptInv' /\ PartialEvidenceSurvives' /\ ClaimIsWhole'
  BY <1>1, <1>2
     DEF AttemptInv, RowsInv, ReturnInv, LogOfAttemptInv, PartialEvidenceSurvives, ClaimIsWhole
<1> QED
  BY <1>3, <1>4

\* Every step of the research keeps its invariant.
LEMMA ResearchNextInv == ResearchInv /\ [ResearchNext]_qvars => ResearchInv'
<1> SUFFICES ASSUME ResearchInv, [ResearchNext]_qvars PROVE ResearchInv'
  OBVIOUS
<1>1. CASE UNCHANGED qvars
  BY <1>1 DEF qvars, ResearchInv, ResearchTypes, AttemptInv, RowsInv, LogOfAttemptInv, ReturnInv,
              Assessment, PartialEvidenceSurvives, ClaimIsWhole
<1>2. CASE ResearchNext
  BY <1>2, BeginInv, FetchPageInv, FetchPageUnwrittenInv, AssessInv, PersistLedgerInv, SettleInv,
     AgainInv
     DEF ResearchNext
<1> QED
  BY <1>1, <1>2

\* The inductive invariant of the research holds of every reachable state.
THEOREM ResearchInvCorrect == ResearchSpec => []ResearchInv
<1> QED
  BY ResearchInitInv, ResearchNextInv, PTL DEF ResearchSpec

\* Through failures, retries and crashes a recorded page is on disk, and a completed
\* claim rests on every page of one attempt and on nothing else.
THEOREM ClaimsBackedCorrect == ResearchSpec => []ClaimsBacked
<1>1. ResearchInv => ClaimsBacked
  BY DEF ResearchInv, ClaimsBacked
<1> QED
  BY <1>1, ResearchInvCorrect, PTL

-----------------------------------------------------------------------------
(* The transparency log: naturals.                                           *)

\* Every nonempty set of naturals has a least element
LEMMA LeastNat ==
    ASSUME NEW T, T \subseteq Nat, T # {}
    PROVE  \E x \in T : \A y \in T : x <= y
<1> DEFINE R == {ss \in Nat \X Nat : ss[1] < ss[2]}
<1>1. IsWellFoundedOn(R, Nat)
  BY NatLessThanWellFounded DEF OpToRel
<1>2. \E x \in T : \A y \in T : ~ (<<y, x>> \in R)
  <2> HIDE DEF R
  <2> QED BY <1>1, WFMin
<1>3. \A x, y \in Nat : y < x => <<y,x>> \in R
  OBVIOUS
<1>4. PICK x \in T : \A y \in T : ~ (<<y, x>> \in R)
  BY <1>2
<1>5. \A y \in T : ~ (y < x)
  BY <1>3, <1>4
<1> QED BY <1>5

\* Induction over the naturals, from all the smaller ones, with a set for the predicate.
LEMMA NatStrongInduction ==
    ASSUME NEW P, \A n \in Nat : (\A i \in 0..(n - 1) : i \in P) => n \in P
    PROVE  Nat \subseteq P
<1> SUFFICES ASSUME Nat \ P # {} PROVE FALSE
    OBVIOUS
<1>1. PICK m \in Nat \ P : \A n \in Nat \ P : m <= n
  <2>1. Nat \ P \subseteq Nat
      OBVIOUS
  <2> QED BY <2>1, LeastNat
<1>2. \A i \in 0..(m - 1) : i \in P
    BY <1>1
<1> QED BY <1>1, <1>2

\* Half of a number.
LEMMA Halves ==
    ASSUME NEW n \in Nat
    PROVE  /\ n \div 2 \in Nat
           /\ Odd(n) => n = 2 * (n \div 2) + 1
           /\ ~Odd(n) => n = 2 * (n \div 2)
<1>1. n \div 2 \in Nat /\ (n % 2) \in 0..1
    OBVIOUS
<1>2. n = 2 * (n \div 2) + (n % 2)
    OBVIOUS
<1>3. PICK h, r : h = n \div 2 /\ r = n % 2
    OBVIOUS
<1>4. h \in Nat /\ r \in 0..1 /\ n = 2 * h + r
    BY <1>1, <1>2, <1>3
<1>5. Odd(n) <=> r = 1
    BY <1>3 DEF Odd
<1> QED BY <1>3, <1>4, <1>5

\* One step of the definition of Ascended, from the solution k.
AscendedStep(k, n) == IF ~Odd(n) /\ n # 0 THEN k[n \div 2] ELSE n

\* A step of the definition of Ascended reads it at smaller numbers only.
LEMMA AscendedLocal ==
    ASSUME NEW n \in Nat, NEW k, NEW l, \A i \in 0..(n - 1) : k[i] = l[i]
    PROVE  AscendedStep(k, n) = AscendedStep(l, n)
<1>1. n # 0 => n \div 2 \in 0..(n - 1)
    BY Halves
<1> QED BY <1>1 DEF AscendedStep

\* k solves the recursive definition of Ascended on the numbers up to m.
IsAscendedUpTo(k, m) == k = [n \in 0..m |-> AscendedStep(k, n)]

\* There is one up to every number, from those up to the numbers below.
LEMMA AscendedUpToExists == ASSUME NEW m \in Nat PROVE \E k : IsAscendedUpTo(k, m)
<1> DEFINE P == {j \in Nat : \E k : IsAscendedUpTo(k, j)}
<1>1. \A j \in Nat : (\A i \in 0..(j - 1) : i \in P) => j \in P
  <2> SUFFICES ASSUME NEW j \in Nat, \A i \in 0..(j - 1) : i \in P PROVE \E k : IsAscendedUpTo(k, j)
      OBVIOUS
  <2>1. \E old : \A n \in 0..(j - 1) : old[n] = AscendedStep(old, n)
    <3>1. CASE j = 0
        BY <3>1
    <3>2. CASE j # 0
      <4>1. j - 1 \in P
          BY <3>2
      <4>2. PICK old : old = [n \in 0..(j - 1) |-> AscendedStep(old, n)]
          BY <4>1 DEF IsAscendedUpTo
      <4> QED BY <4>2
    <3> QED BY <3>1, <3>2
  <2>2. PICK old : \A n \in 0..(j - 1) : old[n] = AscendedStep(old, n)
      BY <2>1
  <2>3. PICK k : k = [n \in 0..j |-> AscendedStep(old, n)]
      OBVIOUS
  <2>4. \A n \in 0..(j - 1) : k[n] = old[n]
      BY <2>2, <2>3
  <2>5. \A n \in 0..j : AscendedStep(k, n) = AscendedStep(old, n)
    <3> SUFFICES ASSUME NEW n \in 0..j PROVE AscendedStep(k, n) = AscendedStep(old, n)
        OBVIOUS
    <3>1. n \in Nat /\ \A i \in 0..(n - 1) : k[i] = old[i]
        BY <2>4
    <3> QED BY <3>1, AscendedLocal
  <2>6. k = [n \in 0..j |-> AscendedStep(k, n)]
      BY <2>3, <2>5
  <2> QED BY <2>6 DEF IsAscendedUpTo
<1>2. Nat \subseteq P
  <2> HIDE DEF P
  <2> QED BY <1>1, NatStrongInduction
<1> QED BY <1>2

\* Such solutions agree.
LEMMA AscendedUpToAgree ==
    ASSUME NEW k, NEW l, NEW m \in Nat, NEW h \in Nat, IsAscendedUpTo(k, m), IsAscendedUpTo(l, h),
           NEW n \in Nat, n <= m, n <= h
    PROVE  k[n] = l[n]
<1> DEFINE P == {j \in Nat : j <= m /\ j <= h => k[j] = l[j]}
<1>1. \A j \in Nat : (\A i \in 0..(j - 1) : i \in P) => j \in P
  <2> SUFFICES ASSUME NEW j \in Nat, \A i \in 0..(j - 1) : i \in P, j <= m, j <= h PROVE k[j] = l[j]
      OBVIOUS
  <2>1. \A i \in 0..(j - 1) : k[i] = l[i]
      OBVIOUS
  <2>2. AscendedStep(k, j) = AscendedStep(l, j)
      BY <2>1, AscendedLocal
  <2>3. j \in 0..m /\ j \in 0..h
      OBVIOUS
  <2>4. k[j] = AscendedStep(k, j)
      BY <2>3 DEF IsAscendedUpTo
  <2>5. l[j] = AscendedStep(l, j)
      BY <2>3 DEF IsAscendedUpTo
  <2> QED BY <2>2, <2>4, <2>5
<1>2. Nat \subseteq P
  <2> HIDE DEF P
  <2> QED BY <1>1, NatStrongInduction
<1> QED BY <1>2

\* So it has one on all of them.
LEMMA AscendedExists == \E f : f = [n \in Nat |-> AscendedStep(f, n)]
<1> DEFINE up(n) == CHOOSE k : IsAscendedUpTo(k, n)
<1>1. \A n \in Nat : IsAscendedUpTo(up(n), n)
    BY AscendedUpToExists
<1> HIDE DEF up
<1>2. PICK f : f = [n \in Nat |-> up(n)[n]]
    OBVIOUS
<1>3. ASSUME NEW n \in Nat PROVE up(n)[n] = AscendedStep(f, n)
  <2>1. up(n)[n] = AscendedStep(up(n), n)
    <3>1. n \in 0..n /\ IsAscendedUpTo(up(n), n)
        BY <1>1
    <3> QED BY <3>1 DEF IsAscendedUpTo
  <2>2. \A i \in 0..(n - 1) : up(n)[i] = f[i]
    <3> SUFFICES ASSUME NEW i \in 0..(n - 1) PROVE up(n)[i] = f[i]
        OBVIOUS
    <3>1. i \in Nat /\ i <= i /\ i <= n /\ f[i] = up(i)[i]
        BY <1>2
    <3>2. IsAscendedUpTo(up(n), n) /\ IsAscendedUpTo(up(i), i)
        BY <1>1, <3>1
    <3>3. up(n)[i] = up(i)[i]
        BY <3>1, <3>2, AscendedUpToAgree
    <3> QED BY <3>1, <3>3
  <2>3. AscendedStep(up(n), n) = AscendedStep(f, n)
      BY <2>2, AscendedLocal
  <2> QED BY <2>1, <2>3
<1>4. f = [n \in Nat |-> AscendedStep(f, n)]
    BY <1>2, <1>3
<1> QED BY <1>4

\* Ascended, by its recursion.
LEMMA AscendedUnfold ==
    \A n \in Nat : Ascended[n] = IF ~Odd(n) /\ n # 0 THEN Ascended[n \div 2] ELSE n
<1>1. Ascended = [n \in Nat |-> AscendedStep(Ascended, n)]
    BY AscendedExists DEF Ascended, AscendedStep
<1> QED BY <1>1 DEF AscendedStep

-----------------------------------------------------------------------------
(* Powers of two.                                                            *)

\* What is left of a number halved while it is even.
LEMMA AscendedFacts ==
    /\ \A n \in Nat : Ascended[n] \in Nat /\ (n # 0 => Ascended[n] # 0)
    /\ \A n \in Nat : Odd(n) => Ascended[n] = n
    /\ \A n \in Nat : n # 0 => Ascended[2 * n] = Ascended[n]
    /\ Ascended[1] = 1
<1> DEFINE P == {n \in Nat : Ascended[n] \in Nat /\ (n # 0 => Ascended[n] # 0)}
<1>1. \A n \in Nat : (\A i \in 0..(n - 1) : i \in P) => n \in P
  <2> SUFFICES ASSUME NEW n \in Nat, \A i \in 0..(n - 1) : i \in P
               PROVE  Ascended[n] \in Nat /\ (n # 0 => Ascended[n] # 0)
      OBVIOUS
  <2>1. CASE Odd(n) \/ n = 0
      BY <2>1, AscendedUnfold
  <2>2. CASE ~Odd(n) /\ n # 0
    <3>1. PICK h : h = n \div 2
        OBVIOUS
    <3>2. h \in 0..(n - 1) /\ h # 0
        BY <2>2, <3>1, Halves
    <3>3. Ascended[n] = Ascended[h]
        BY <2>2, <3>1, AscendedUnfold
    <3>4. Ascended[h] \in Nat /\ Ascended[h] # 0
        BY <3>2
    <3> QED BY <3>3, <3>4
  <2> QED BY <2>1, <2>2
<1>2. Nat \subseteq P
  <2> HIDE DEF P
  <2> QED BY <1>1, NatStrongInduction
<1>3. \A n \in Nat : Odd(n) => Ascended[n] = n
    BY AscendedUnfold
<1>4. ASSUME NEW n \in Nat, n # 0 PROVE Ascended[2 * n] = Ascended[n]
  <2>1. PICK m : m = 2 * n
      OBVIOUS
  <2>2. m \in Nat /\ m # 0
      BY <1>4, <2>1
  <2>3. ~Odd(m) /\ m \div 2 = n
      BY <2>1, <2>2, Halves
  <2>4. Ascended[m] = Ascended[n]
      BY <2>2, <2>3, AscendedUnfold
  <2> QED BY <2>1, <2>4
<1>5. Odd(1)
    BY DEF Odd
<1> QED BY <1>2, <1>3, <1>4, <1>5

\* One is a power of two, the double of one is one, and half of any other.
LEMMA PowerFacts ==
    /\ IsPower(1)
    /\ \A k \in Nat : k # 0 /\ IsPower(k) => IsPower(2 * k)
    /\ \A k \in Nat : k >= 2 /\ IsPower(k) =>
         \E h \in Nat : h # 0 /\ k = 2 * h /\ IsPower(h)
<1>1. IsPower(1)
    BY AscendedFacts DEF IsPower
<1>2. \A k \in Nat : k # 0 /\ IsPower(k) => IsPower(2 * k)
    BY AscendedFacts DEF IsPower
<1>3. ASSUME NEW k \in Nat, k >= 2, IsPower(k) PROVE \E h \in Nat : h # 0 /\ k = 2 * h /\ IsPower(h)
  <2>1. ~Odd(k)
      BY <1>3, AscendedFacts DEF IsPower
  <2>2. PICK h : h = k \div 2
      OBVIOUS
  <2>3. h \in Nat /\ k = 2 * h /\ h # 0
      BY <1>3, <2>1, <2>2, Halves
  <2>4. IsPower(h)
      BY <1>3, <2>3, AscendedFacts DEF IsPower
  <2> QED BY <2>3, <2>4
<1> QED BY <1>1, <1>2, <1>3

\* A power of two is at least twice the one before.
LEMMA PowersApart ==
    ASSUME NEW j \in Nat, j # 0, IsPower(j), NEW k \in Nat, IsPower(k), j < k
    PROVE  2 * j <= k
<1> DEFINE P == {n \in Nat : n # 0 /\ IsPower(n) => \A m \in Nat : IsPower(m) /\ n < m => 2 * n <= m}
<1>1. \A n \in Nat : (\A i \in 0..(n - 1) : i \in P) => n \in P
  <2> SUFFICES ASSUME NEW n \in Nat, \A i \in 0..(n - 1) : i \in P, n # 0, IsPower(n),
                      NEW m \in Nat, IsPower(m), n < m
               PROVE  2 * n <= m
      OBVIOUS
  <2>1. CASE n = 1
      BY <2>1
  <2>2. CASE n >= 2
    <3>1. PICK h \in Nat : h # 0 /\ n = 2 * h /\ IsPower(h)
        BY <2>2, PowerFacts
    <3>2. PICK g \in Nat : g # 0 /\ m = 2 * g /\ IsPower(g)
        BY <2>2, PowerFacts
    <3>3. h \in 0..(n - 1) /\ h < g
        BY <3>1, <3>2
    <3>4. 2 * h <= g
        BY <3>1, <3>2, <3>3
    <3> QED BY <3>1, <3>2, <3>4
  <2> QED BY <2>1, <2>2
<1>2. Nat \subseteq P
  <2> HIDE DEF P
  <2> QED BY <1>1, NatStrongInduction
<1> QED BY <1>2

\* The split of a tree of two leaves or more.
IsSplit(k, n) == k \in 1..(n - 1) /\ IsPower(k) /\ n <= 2 * k

\* A tree of two leaves or more splits at a power of two that is half of it or more.
LEMMA SplitExists == ASSUME NEW n \in Nat, n >= 2 PROVE \E k : IsSplit(k, n)
<1> DEFINE P == {m \in Nat : m >= 2 => \E k : IsSplit(k, m)}
<1>1. \A m \in Nat : (\A i \in 0..(m - 1) : i \in P) => m \in P
  <2> SUFFICES ASSUME NEW m \in Nat, \A i \in 0..(m - 1) : i \in P, m >= 2 PROVE \E k : IsSplit(k, m)
      OBVIOUS
  <2>1. CASE m = 2
    <3>1. IsSplit(1, 2)
        BY PowerFacts DEF IsSplit
    <3> QED BY <2>1, <3>1
  <2>2. CASE m > 2
    <3>1. m - 1 \in 0..(m - 1) /\ m - 1 >= 2
        BY <2>2
    <3>2. PICK k : IsSplit(k, m - 1)
        BY <3>1
    <3>3. k \in 1..(m - 2) /\ IsPower(k) /\ m - 1 <= 2 * k
        BY <3>2 DEF IsSplit
    <3>4. CASE m <= 2 * k
      <4>1. IsSplit(k, m)
          BY <2>2, <3>3, <3>4 DEF IsSplit
      <4> QED BY <4>1
    <3>5. CASE m > 2 * k
      <4>1. IsPower(2 * k)
          BY <3>3, PowerFacts
      <4>2. IsSplit(2 * k, m)
          BY <2>2, <3>3, <3>5, <4>1 DEF IsSplit
      <4> QED BY <4>2
    <3> QED BY <3>3, <3>4, <3>5
  <2> QED BY <2>1, <2>2
<1>2. Nat \subseteq P
  <2> HIDE DEF P
  <2> QED BY <1>1, NatStrongInduction
<1> QED BY <1>2

\* It splits there at one number only.
LEMMA SplitUnique ==
    ASSUME NEW n \in Nat, NEW k, NEW j, IsSplit(k, n), IsSplit(j, n)
    PROVE  j = k
<1>1. /\ k \in Nat /\ k # 0 /\ IsPower(k) /\ k < n /\ n <= 2 * k
      /\ j \in Nat /\ j # 0 /\ IsPower(j) /\ j < n /\ n <= 2 * j
    BY DEF IsSplit
<1>2. ~(j < k)
    BY <1>1, PowersApart
<1>3. ~(k < j)
    BY <1>1, PowersApart
<1> QED BY <1>1, <1>2, <1>3

\* _largest_power_of_two_below is that number.
LEMMA SplitFact == ASSUME NEW n \in Nat, n >= 2 PROVE IsSplit(LargestPowerBelow(n), n)
<1>1. PICK k : IsSplit(k, n)
    BY SplitExists
<1>2. \E j \in 1..(n - 1) : IsPower(j) /\ n <= 2 * j
    BY <1>1 DEF IsSplit
<1> QED BY <1>2 DEF LargestPowerBelow, IsSplit

\* A number and its sum with a power of two above it ascend together.
LEMMA AscendedShift ==
    ASSUME NEW k \in Nat, IsPower(k), NEW a \in 1..(k - 1)
    PROVE  \E h \in Nat : /\ IsPower(h) /\ h >= 2 /\ Ascended[a] < h
                          /\ Ascended[a + k] = Ascended[a] + h
<1> DEFINE Goal(b, j) == \E h \in Nat : /\ IsPower(h) /\ h >= 2 /\ Ascended[b] < h
                                        /\ Ascended[b + j] = Ascended[b] + h
           P == {b \in Nat : \A j \in Nat : IsPower(j) /\ b # 0 /\ b < j => Goal(b, j)}
<1>1. \A b \in Nat : (\A i \in 0..(b - 1) : i \in P) => b \in P
  <2> HIDE DEF Goal
  <2> SUFFICES ASSUME NEW b \in Nat, \A i \in 0..(b - 1) : i \in P,
                      NEW j \in Nat, IsPower(j), b # 0, b < j
               PROVE  Goal(b, j)
      OBVIOUS
  <2>1. PICK c \in Nat : c # 0 /\ j = 2 * c /\ IsPower(c)
      BY PowerFacts
  <2>2. CASE Odd(b)
    <3>1. PICK g : g = b \div 2
        OBVIOUS
    <3>2. g \in Nat /\ b = 2 * g + 1
        BY <2>2, <3>1, Halves
    <3>3. PICK s : s = b + j
        OBVIOUS
    <3>4. s \in Nat /\ s = 2 * (g + c) + 1
        BY <2>1, <3>2, <3>3
    <3>5. Odd(s)
      <4>1. PICK t : t = s \div 2
          OBVIOUS
      <4>2. t \in Nat /\ (~Odd(s) => s = 2 * t)
          BY <3>4, <4>1, Halves
      <4> QED BY <2>1, <3>2, <3>4, <4>2
    <3>6. Ascended[b] = b /\ Ascended[s] = s
        BY <2>2, <3>4, <3>5, AscendedFacts
    <3>7. IsPower(j) /\ j >= 2 /\ Ascended[b] < j /\ Ascended[b + j] = Ascended[b] + j
        BY <2>1, <3>3, <3>6
    <3> QED BY <3>7 DEF Goal
  <2>3. CASE ~Odd(b)
    <3>1. PICK g : g = b \div 2
        OBVIOUS
    <3>2. g \in Nat /\ b = 2 * g /\ g # 0 /\ g < c /\ g \in 0..(b - 1)
        BY <2>1, <2>3, <3>1, Halves
    <3>3. Goal(g, c)
        BY <2>1, <3>2
    <3>4. Ascended[b] = Ascended[g]
        BY <3>2, AscendedFacts
    <3>5. PICK s : s = g + c
        OBVIOUS
    <3>6. s \in Nat /\ s # 0 /\ b + j = 2 * s
        BY <2>1, <3>2, <3>5
    <3>7. Ascended[b + j] = Ascended[g + c]
        BY <3>5, <3>6, AscendedFacts
    <3> QED BY <3>3, <3>4, <3>7 DEF Goal
  <2> QED BY <2>2, <2>3
<1>2. Nat \subseteq P
  <2> HIDE DEF P
  <2> QED BY <1>1, NatStrongInduction
<1>3. Goal(a, k)
  <2> HIDE DEF Goal
  <2> QED BY <1>2
<1> QED BY <1>3

\* A power of two ascends to one.
LEMMA PowerAscends == ASSUME NEW k \in Nat, IsPower(k) PROVE Ascended[k] = 1
BY DEF IsPower

-----------------------------------------------------------------------------
(* The recursive functions of the tree.                                      *)

\* LargestPowerBelow splits a tree in two parts.
LEMMA SplitRange ==
    ASSUME NEW n \in Nat, n >= 2
    PROVE  /\ LargestPowerBelow(n) \in 1..(n - 1) /\ LargestPowerBelow(n) \in 0..(n - 1)
           /\ n - LargestPowerBelow(n) \in 0..(n - 1) /\ n - LargestPowerBelow(n) # 0
<1>1. PICK k : k = LargestPowerBelow(n)
    OBVIOUS
<1>2. k \in 1..(n - 1)
    BY <1>1, SplitFact DEF IsSplit
<1> QED BY <1>1, <1>2

\* The n leaves from index i end before index to.
Spans(i, n, to) == i \in Nat /\ n \in Nat /\ n # 0 /\ to \in Nat /\ to = i + n

\* Those two or more leaves are the k before index j and the r from there.
Splits(i, n, to, k, j, r) ==
    /\ Spans(i, n, to) /\ Spans(i, k, j) /\ Spans(j, r, to)
    /\ n >= 2 /\ n = k + r /\ k = LargestPowerBelow(n) /\ k \in 1..(n - 1)

\* A part of the tree of two leaves or more has a left and a right part of its own.
LEMMA SplitAt ==
    ASSUME NEW i, NEW n, NEW to, Spans(i, n, to), n # 1
    PROVE  \E k, j, r : Splits(i, n, to, k, j, r)
<1>1. PICK k, j, r : k = LargestPowerBelow(n) /\ j = i + k /\ r = n - k
    OBVIOUS
<1>2. i \in Nat /\ n \in Nat /\ n >= 2 /\ to = i + n
    BY DEF Spans
<1>3. k \in 1..(n - 1)
    BY <1>1, <1>2, SplitRange
<1>4. Spans(i, k, j) /\ Spans(j, r, to) /\ n = k + r
    BY <1>1, <1>2, <1>3 DEF Spans
<1> QED BY <1>1, <1>2, <1>3, <1>4 DEF Splits

\* Both parts are smaller and the left one is a power of two, as large as the right or larger.
LEMMA SplitParts ==
    ASSUME NEW i, NEW n, NEW to, NEW k, NEW j, NEW r, Splits(i, n, to, k, j, r)
    PROVE  /\ i \in Nat /\ n \in Nat /\ to \in Nat /\ k \in Nat /\ j \in Nat /\ r \in Nat
           /\ n >= 2 /\ to = i + n /\ j = i + k /\ n = k + r /\ to = j + r
           /\ k # 0 /\ r # 0 /\ k \in 0..(n - 1) /\ r \in 0..(n - 1)
           /\ k = LargestPowerBelow(n) /\ IsPower(k) /\ r <= k
           /\ Spans(i, n, to) /\ Spans(i, k, j) /\ Spans(j, r, to)
<1>1. /\ i \in Nat /\ n \in Nat /\ to \in Nat /\ k \in Nat /\ j \in Nat /\ r \in Nat
      /\ n >= 2 /\ to = i + n /\ j = i + k /\ n = k + r /\ to = j + r /\ k # 0 /\ r # 0
      /\ k = LargestPowerBelow(n)
      /\ Spans(i, n, to) /\ Spans(i, k, j) /\ Spans(j, r, to)
    BY DEF Splits, Spans
<1>2. IsSplit(k, n)
    BY <1>1, SplitFact
<1>3. IsPower(k) /\ n <= 2 * k
    BY <1>2 DEF IsSplit
<1>4. k \in 0..(n - 1) /\ r \in 0..(n - 1) /\ r <= k
    BY <1>1, <1>3
<1> QED BY <1>1, <1>3, <1>4

\* The root of the n leaves from i, from the solution f at smaller parts.
MthAt(tlog, f, n, i) ==
    LET k == LargestPowerBelow(n) IN
    CASE n = 0 -> Empty
      [] n = 1 -> LeafHash(tlog[i + 1])
      [] OTHER -> Node(f[k][i], f[n - k][i + k])

MthStep(tlog, f, n) == [i \in Nat |-> MthAt(tlog, f, n, i)]

\* A step of the definition of _mth reads it at smaller parts only.
LEMMA MthLocal ==
    ASSUME NEW tlog, NEW n \in Nat, NEW k, NEW l, \A i \in 0..(n - 1) : k[i] = l[i]
    PROVE  MthStep(tlog, k, n) = MthStep(tlog, l, n)
<1>1. CASE n = 0 \/ n = 1
    BY <1>1 DEF MthStep, MthAt
<1>2. CASE n >= 2
  <2>1. PICK s : s = LargestPowerBelow(n)
      OBVIOUS
  <2>2. k[s] = l[s] /\ k[n - s] = l[n - s]
      BY <1>2, <2>1, SplitRange
  <2> QED BY <1>2, <2>1, <2>2 DEF MthStep, MthAt
<1> QED BY <1>1, <1>2

\* k solves the recursive definition of Mth on the numbers up to m.
IsMthUpTo(tlog, k, m) == k = [n \in 0..m |-> MthStep(tlog, k, n)]

\* There is one up to every number, from those up to the numbers below.
LEMMA MthUpToExists == ASSUME NEW tlog, NEW m \in Nat PROVE \E k : IsMthUpTo(tlog, k, m)
<1> DEFINE P == {j \in Nat : \E k : IsMthUpTo(tlog, k, j)}
<1>1. \A j \in Nat : (\A i \in 0..(j - 1) : i \in P) => j \in P
  <2> SUFFICES ASSUME NEW j \in Nat, \A i \in 0..(j - 1) : i \in P PROVE \E k : IsMthUpTo(tlog, k, j)
      OBVIOUS
  <2>1. \E old : \A n \in 0..(j - 1) : old[n] = MthStep(tlog, old, n)
    <3>1. CASE j = 0
        BY <3>1
    <3>2. CASE j # 0
      <4>1. j - 1 \in P
          BY <3>2
      <4>2. PICK old : old = [n \in 0..(j - 1) |-> MthStep(tlog, old, n)]
          BY <4>1 DEF IsMthUpTo
      <4> QED BY <4>2
    <3> QED BY <3>1, <3>2
  <2>2. PICK old : \A n \in 0..(j - 1) : old[n] = MthStep(tlog, old, n)
      BY <2>1
  <2>3. PICK k : k = [n \in 0..j |-> MthStep(tlog, old, n)]
      OBVIOUS
  <2>4. \A n \in 0..(j - 1) : k[n] = old[n]
      BY <2>2, <2>3
  <2>5. \A n \in 0..j : MthStep(tlog, k, n) = MthStep(tlog, old, n)
    <3> SUFFICES ASSUME NEW n \in 0..j PROVE MthStep(tlog, k, n) = MthStep(tlog, old, n)
        OBVIOUS
    <3>1. n \in Nat /\ \A i \in 0..(n - 1) : k[i] = old[i]
        BY <2>4
    <3> QED BY <3>1, MthLocal
  <2>6. k = [n \in 0..j |-> MthStep(tlog, k, n)]
      BY <2>3, <2>5
  <2> QED BY <2>6 DEF IsMthUpTo
<1>2. Nat \subseteq P
  <2> HIDE DEF P
  <2> QED BY <1>1, NatStrongInduction
<1> QED BY <1>2

\* Such solutions agree.
LEMMA MthUpToAgree ==
    ASSUME NEW tlog, NEW k, NEW l, NEW m \in Nat, NEW h \in Nat, IsMthUpTo(tlog, k, m), IsMthUpTo(tlog, l, h),
           NEW n \in Nat, n <= m, n <= h
    PROVE  k[n] = l[n]
<1> DEFINE P == {j \in Nat : j <= m /\ j <= h => k[j] = l[j]}
<1>1. \A j \in Nat : (\A i \in 0..(j - 1) : i \in P) => j \in P
  <2> SUFFICES ASSUME NEW j \in Nat, \A i \in 0..(j - 1) : i \in P, j <= m, j <= h PROVE k[j] = l[j]
      OBVIOUS
  <2>1. \A i \in 0..(j - 1) : k[i] = l[i]
      OBVIOUS
  <2>2. MthStep(tlog, k, j) = MthStep(tlog, l, j)
      BY <2>1, MthLocal
  <2>3. j \in 0..m /\ j \in 0..h
      OBVIOUS
  <2>4. k[j] = MthStep(tlog, k, j)
      BY <2>3 DEF IsMthUpTo
  <2>5. l[j] = MthStep(tlog, l, j)
      BY <2>3 DEF IsMthUpTo
  <2> QED BY <2>2, <2>4, <2>5
<1>2. Nat \subseteq P
  <2> HIDE DEF P
  <2> QED BY <1>1, NatStrongInduction
<1> QED BY <1>2

\* So it has one on all of them.
LEMMA MthExists == ASSUME NEW tlog PROVE \E f : f = [n \in Nat |-> MthStep(tlog, f, n)]
<1> DEFINE up(n) == CHOOSE k : IsMthUpTo(tlog, k, n)
<1>1. \A n \in Nat : IsMthUpTo(tlog, up(n), n)
    BY MthUpToExists
<1> HIDE DEF up
<1>2. PICK f : f = [n \in Nat |-> up(n)[n]]
    OBVIOUS
<1>3. ASSUME NEW n \in Nat PROVE up(n)[n] = MthStep(tlog, f, n)
  <2>1. up(n)[n] = MthStep(tlog, up(n), n)
    <3>1. n \in 0..n /\ IsMthUpTo(tlog, up(n), n)
        BY <1>1
    <3> QED BY <3>1 DEF IsMthUpTo
  <2>2. \A i \in 0..(n - 1) : up(n)[i] = f[i]
    <3> SUFFICES ASSUME NEW i \in 0..(n - 1) PROVE up(n)[i] = f[i]
        OBVIOUS
    <3>1. i \in Nat /\ i <= i /\ i <= n /\ f[i] = up(i)[i]
        BY <1>2
    <3>2. IsMthUpTo(tlog, up(n), n) /\ IsMthUpTo(tlog, up(i), i)
        BY <1>1, <3>1
    <3>3. up(n)[i] = up(i)[i]
        BY <3>1, <3>2, MthUpToAgree
    <3> QED BY <3>1, <3>3
  <2>3. MthStep(tlog, up(n), n) = MthStep(tlog, f, n)
      BY <2>2, MthLocal
  <2> QED BY <2>1, <2>3
<1>4. f = [n \in Nat |-> MthStep(tlog, f, n)]
    BY <1>2, <1>3
<1> QED BY <1>4

\* Mth is computed by the function f.
MthBy(tlog, f) ==
    /\ \A n \in Nat : f[n] = MthStep(tlog, f, n)
    /\ \A i, n \in Nat : Mth(tlog, i, i + n) = f[n][i]

\* _mth is computed by its recursive definition.
LEMMA MthUnfold == ASSUME NEW tlog PROVE \E f : MthBy(tlog, f)
<1> DEFINE f == CHOOSE f : f = [n \in Nat |-> MthStep(tlog, f, n)]
<1>1. f = [n \in Nat |-> MthStep(tlog, f, n)]
    BY MthExists
<1>2. \A i, j : Mth(tlog, i, j) = f[j - i][i]
    BY DEF Mth, MthStep, MthAt
<1> HIDE DEF f
<1>3. \A i, n \in Nat : (i + n) - i = n
    OBVIOUS
<1>4. \A i, n \in Nat : Mth(tlog, i, i + n) = f[n][i]
    BY <1>2, <1>3
<1>5. \A n \in Nat : f[n] = MthStep(tlog, f, n)
    BY <1>1
<1>6. MthBy(tlog, f)
    BY <1>4, <1>5 DEF MthBy
<1> QED BY <1>6

\* The root of n leaves from log[i] is made of those of its two parts.
LEMMA MthIs ==
    ASSUME NEW tlog, NEW i \in Nat, NEW n \in Nat
    PROVE  /\ n = 0 => Mth(tlog, i, i + n) = Empty
           /\ n = 1 => Mth(tlog, i, i + n) = LeafHash(tlog[i + 1])
           /\ n >= 2 => Mth(tlog, i, i + n) =
                          Node(Mth(tlog, i, i + LargestPowerBelow(n)), Mth(tlog, i + LargestPowerBelow(n), i + n))
<1>1. PICK f : MthBy(tlog, f)
    BY MthUnfold
<1>2. /\ f[n][i] = MthStep(tlog, f, n)[i]
      /\ \A j, m \in Nat : Mth(tlog, j, j + m) = f[m][j]
    BY <1>1 DEF MthBy
<1>3. CASE n = 0 \/ n = 1
    BY <1>2, <1>3 DEF MthStep, MthAt
<1>4. CASE n >= 2
  <2>1. PICK k : k = LargestPowerBelow(n)
      OBVIOUS
  <2>2. k \in 1..(n - 1)
      BY <1>4, <2>1, SplitRange
  <2>3. f[n][i] = Node(f[k][i], f[n - k][i + k])
      BY <1>2, <1>4, <2>1 DEF MthStep, MthAt
  <2>4. k \in Nat /\ n - k \in Nat /\ i + k \in Nat /\ (i + k) + (n - k) = i + n
      BY <2>2
  <2>5. Mth(tlog, i, i + k) = f[k][i] /\ Mth(tlog, i + k, (i + k) + (n - k)) = f[n - k][i + k]
      BY <1>2, <2>4
  <2>6. Mth(tlog, i + k, i + n) = f[n - k][i + k]
      BY <2>4, <2>5
  <2>7. Mth(tlog, i, i + n) = Node(Mth(tlog, i, i + k), Mth(tlog, i + k, i + n))
      BY <1>2, <2>3, <2>5, <2>6
  <2> QED BY <1>4, <2>1, <2>7
<1> QED BY <1>3, <1>4

\* The root of two leaves or more is made of those of the two parts.
LEMMA MthParts ==
    ASSUME NEW tlog, NEW i, NEW n, NEW to, NEW k, NEW j, NEW r, Splits(i, n, to, k, j, r)
    PROVE  Mth(tlog, i, to) = Node(Mth(tlog, i, j), Mth(tlog, j, to))
<1>1. i \in Nat /\ n \in Nat /\ n >= 2 /\ k = LargestPowerBelow(n) /\ j = i + k /\ to = i + n
    BY SplitParts
<1>2. Mth(tlog, i, i + n) =
        Node(Mth(tlog, i, i + LargestPowerBelow(n)), Mth(tlog, i + LargestPowerBelow(n), i + n))
    BY <1>1, MthIs
<1> QED BY <1>1, <1>2, Zenon

\* The audit path of leaf `at` of the n from i, from the solution f at smaller parts.
PathAt(tlog, f, n, at, i) ==
    LET k == LargestPowerBelow(n) IN
    CASE n <= 1          -> <<>>
      [] n > 1 /\ at < k -> Append(f[k][at][i], Mth(tlog, i + k, i + n))
      [] OTHER            -> Append(f[n - k][at - k][i + k], Mth(tlog, i, i + k))

PathStep(tlog, f, n) == [at \in 0..(n - 1) |-> [i \in Nat |-> PathAt(tlog, f, n, at, i)]]

\* A step of the definition of _path reads it at smaller parts only.
LEMMA PathLocal ==
    ASSUME NEW tlog, NEW n \in Nat, NEW k, NEW l, \A i \in 0..(n - 1) : k[i] = l[i]
    PROVE  PathStep(tlog, k, n) = PathStep(tlog, l, n)
<1>1. ASSUME NEW at \in 0..(n - 1), NEW i \in Nat
      PROVE  PathAt(tlog, k, n, at, i) = PathAt(tlog, l, n, at, i)
  <2>1. CASE n <= 1
      BY <2>1 DEF PathAt
  <2>2. CASE n > 1
    <3>1. PICK s : s = LargestPowerBelow(n)
        OBVIOUS
    <3>2. k[s] = l[s] /\ k[n - s] = l[n - s]
        BY <2>2, <3>1, SplitRange
    <3> QED BY <2>2, <3>1, <3>2 DEF PathAt
  <2> QED BY <2>1, <2>2
<1> QED BY <1>1 DEF PathStep

\* k solves the recursive definition of Path on the numbers up to m.
IsPathUpTo(tlog, k, m) == k = [n \in 0..m |-> PathStep(tlog, k, n)]

\* There is one up to every number, from those up to the numbers below.
LEMMA PathUpToExists == ASSUME NEW tlog, NEW m \in Nat PROVE \E k : IsPathUpTo(tlog, k, m)
<1> DEFINE P == {j \in Nat : \E k : IsPathUpTo(tlog, k, j)}
<1>1. \A j \in Nat : (\A i \in 0..(j - 1) : i \in P) => j \in P
  <2> SUFFICES ASSUME NEW j \in Nat, \A i \in 0..(j - 1) : i \in P PROVE \E k : IsPathUpTo(tlog, k, j)
      OBVIOUS
  <2>1. \E old : \A n \in 0..(j - 1) : old[n] = PathStep(tlog, old, n)
    <3>1. CASE j = 0
        BY <3>1
    <3>2. CASE j # 0
      <4>1. j - 1 \in P
          BY <3>2
      <4>2. PICK old : old = [n \in 0..(j - 1) |-> PathStep(tlog, old, n)]
          BY <4>1 DEF IsPathUpTo
      <4> QED BY <4>2
    <3> QED BY <3>1, <3>2
  <2>2. PICK old : \A n \in 0..(j - 1) : old[n] = PathStep(tlog, old, n)
      BY <2>1
  <2>3. PICK k : k = [n \in 0..j |-> PathStep(tlog, old, n)]
      OBVIOUS
  <2>4. \A n \in 0..(j - 1) : k[n] = old[n]
      BY <2>2, <2>3
  <2>5. \A n \in 0..j : PathStep(tlog, k, n) = PathStep(tlog, old, n)
    <3> SUFFICES ASSUME NEW n \in 0..j PROVE PathStep(tlog, k, n) = PathStep(tlog, old, n)
        OBVIOUS
    <3>1. n \in Nat /\ \A i \in 0..(n - 1) : k[i] = old[i]
        BY <2>4
    <3> QED BY <3>1, PathLocal
  <2>6. k = [n \in 0..j |-> PathStep(tlog, k, n)]
      BY <2>3, <2>5
  <2> QED BY <2>6 DEF IsPathUpTo
<1>2. Nat \subseteq P
  <2> HIDE DEF P
  <2> QED BY <1>1, NatStrongInduction
<1> QED BY <1>2

\* Such solutions agree.
LEMMA PathUpToAgree ==
    ASSUME NEW tlog, NEW k, NEW l, NEW m \in Nat, NEW h \in Nat, IsPathUpTo(tlog, k, m), IsPathUpTo(tlog, l, h),
           NEW n \in Nat, n <= m, n <= h
    PROVE  k[n] = l[n]
<1> DEFINE P == {j \in Nat : j <= m /\ j <= h => k[j] = l[j]}
<1>1. \A j \in Nat : (\A i \in 0..(j - 1) : i \in P) => j \in P
  <2> SUFFICES ASSUME NEW j \in Nat, \A i \in 0..(j - 1) : i \in P, j <= m, j <= h PROVE k[j] = l[j]
      OBVIOUS
  <2>1. \A i \in 0..(j - 1) : k[i] = l[i]
      OBVIOUS
  <2>2. PathStep(tlog, k, j) = PathStep(tlog, l, j)
      BY <2>1, PathLocal
  <2>3. j \in 0..m /\ j \in 0..h
      OBVIOUS
  <2>4. k[j] = PathStep(tlog, k, j)
      BY <2>3 DEF IsPathUpTo
  <2>5. l[j] = PathStep(tlog, l, j)
      BY <2>3 DEF IsPathUpTo
  <2> QED BY <2>2, <2>4, <2>5
<1>2. Nat \subseteq P
  <2> HIDE DEF P
  <2> QED BY <1>1, NatStrongInduction
<1> QED BY <1>2

\* So it has one on all of them.
LEMMA PathExists == ASSUME NEW tlog PROVE \E f : f = [n \in Nat |-> PathStep(tlog, f, n)]
<1> DEFINE up(n) == CHOOSE k : IsPathUpTo(tlog, k, n)
<1>1. \A n \in Nat : IsPathUpTo(tlog, up(n), n)
    BY PathUpToExists
<1> HIDE DEF up
<1>2. PICK f : f = [n \in Nat |-> up(n)[n]]
    OBVIOUS
<1>3. ASSUME NEW n \in Nat PROVE up(n)[n] = PathStep(tlog, f, n)
  <2>1. up(n)[n] = PathStep(tlog, up(n), n)
    <3>1. n \in 0..n /\ IsPathUpTo(tlog, up(n), n)
        BY <1>1
    <3> QED BY <3>1 DEF IsPathUpTo
  <2>2. \A i \in 0..(n - 1) : up(n)[i] = f[i]
    <3> SUFFICES ASSUME NEW i \in 0..(n - 1) PROVE up(n)[i] = f[i]
        OBVIOUS
    <3>1. i \in Nat /\ i <= i /\ i <= n /\ f[i] = up(i)[i]
        BY <1>2
    <3>2. IsPathUpTo(tlog, up(n), n) /\ IsPathUpTo(tlog, up(i), i)
        BY <1>1, <3>1
    <3>3. up(n)[i] = up(i)[i]
        BY <3>1, <3>2, PathUpToAgree
    <3> QED BY <3>1, <3>3
  <2>3. PathStep(tlog, up(n), n) = PathStep(tlog, f, n)
      BY <2>2, PathLocal
  <2> QED BY <2>1, <2>3
<1>4. f = [n \in Nat |-> PathStep(tlog, f, n)]
    BY <1>2, <1>3
<1> QED BY <1>4

\* Path is computed by the function f.
PathBy(tlog, f) ==
    /\ \A n \in Nat : \A m \in 0..(n - 1), i \in Nat : f[n][m][i] = PathAt(tlog, f, n, m, i)
    /\ \A m, i, n, to \in Nat : to = i + n => Path(tlog, m, i, to) = f[n][m][i]

\* _path is computed by its recursive definition.
LEMMA PathUnfold == ASSUME NEW tlog PROVE \E f : PathBy(tlog, f)
<1> DEFINE f == CHOOSE f : f = [n \in Nat |-> PathStep(tlog, f, n)]
<1>1. f = [n \in Nat |-> PathStep(tlog, f, n)]
    BY PathExists
<1>2. \A m, i, j : Path(tlog, m, i, j) = f[j - i][m][i]
    BY DEF Path, PathStep, PathAt
<1> HIDE DEF f
<1>3. \A i, n, to \in Nat : to = i + n => to - i = n
    OBVIOUS
<1>4. \A m, i, n, to \in Nat : to = i + n => Path(tlog, m, i, to) = f[n][m][i]
    BY <1>2, <1>3
<1>5. \A n \in Nat : f[n] = PathStep(tlog, f, n)
    BY <1>1
<1>6. ASSUME NEW n \in Nat, NEW m \in 0..(n - 1), NEW i \in Nat PROVE f[n][m][i] = PathAt(tlog, f, n, m, i)
  <2>1. PathStep(tlog, f, n)[m] = [j \in Nat |-> PathAt(tlog, f, n, m, j)]
      BY DEF PathStep
  <2>2. f[n][m] = [j \in Nat |-> PathAt(tlog, f, n, m, j)]
      BY <1>5, <2>1
  <2> QED BY <2>2
<1>7. PathBy(tlog, f)
    BY <1>4, <1>6 DEF PathBy
<1> QED BY <1>7

\* The audit path of a tree of one leaf.
LEMMA PathOne ==
    ASSUME NEW tlog, NEW i \in Nat, NEW to, to = i + 1
    PROVE  Path(tlog, 0, i, to) = <<>>
<1>1. PICK f : PathBy(tlog, f)
    BY PathUnfold
<1>2. Path(tlog, 0, i, i + 1) = f[1][0][i]
    BY <1>1 DEF PathBy
<1>3. f[1][0][i] = PathAt(tlog, f, 1, 0, i)
    BY <1>1 DEF PathBy
<1>4. 1 <= 1 /\ ~(1 > 1 /\ 0 < LargestPowerBelow(1))
    OBVIOUS
<1>5. PathAt(tlog, f, 1, 0, i) = <<>>
    BY <1>4, Zenon DEF PathAt
<1> QED BY <1>2, <1>3, <1>5

\* The audit path of a leaf in the left part.
LEMMA PathLeft ==
    ASSUME NEW tlog, NEW i, NEW n, NEW to, NEW k, NEW j, NEW r, Splits(i, n, to, k, j, r),
           NEW m \in 0..(k - 1)
    PROVE  Path(tlog, m, i, to) = Append(Path(tlog, m, i, j), Mth(tlog, j, to))
<1>1. PICK f : PathBy(tlog, f)
    BY PathUnfold
<1>2. /\ i \in Nat /\ n \in Nat /\ to \in Nat /\ k \in Nat /\ j \in Nat
      /\ n >= 2 /\ to = i + n /\ j = i + k /\ k = LargestPowerBelow(n) /\ k \in 0..(n - 1)
    BY SplitParts
<1>3. m \in 0..(n - 1) /\ m \in Nat /\ ~(n <= 1) /\ n > 1 /\ m < k
    BY <1>2
<1>4. Path(tlog, m, i, to) = f[n][m][i]
    BY <1>1, <1>2, <1>3 DEF PathBy
<1>5. Path(tlog, m, i, j) = f[k][m][i]
    BY <1>1, <1>2, <1>3 DEF PathBy
<1>6. f[n][m][i] = PathAt(tlog, f, n, m, i)
    BY <1>1, <1>2, <1>3 DEF PathBy
<1>7. PathAt(tlog, f, n, m, i) = Append(f[k][m][i], Mth(tlog, i + k, i + n))
    BY <1>2, <1>3, Zenon DEF PathAt
<1> QED BY <1>2, <1>4, <1>5, <1>6, <1>7, Zenon

\* Leaf m is leaf a of those from leaf k.
Beyond(m, a, k, r) == m \in Nat /\ a \in 0..(r - 1) /\ m = a + k

\* The audit path of a leaf in the right part.
LEMMA PathRight ==
    ASSUME NEW tlog, NEW i, NEW n, NEW to, NEW k, NEW j, NEW r, Splits(i, n, to, k, j, r),
           NEW m, NEW a, Beyond(m, a, k, r)
    PROVE  Path(tlog, m, i, to) = Append(Path(tlog, a, j, to), Mth(tlog, i, j))
<1>1. PICK f : PathBy(tlog, f)
    BY PathUnfold
<1>2. /\ i \in Nat /\ n \in Nat /\ to \in Nat /\ k \in Nat /\ j \in Nat /\ r \in Nat
      /\ n >= 2 /\ to = i + n /\ j = i + k /\ to = j + r /\ n = k + r /\ k = LargestPowerBelow(n)
    BY SplitParts
<1>3. m \in Nat /\ a \in Nat /\ a < r /\ m = a + k
    BY <1>2 DEF Beyond
<1>4. m \in 0..(n - 1) /\ ~(n <= 1) /\ ~(n > 1 /\ m < k) /\ n - k = r /\ m - k = a
    BY <1>2, <1>3
<1>5. Path(tlog, m, i, to) = f[n][m][i]
    BY <1>1, <1>2, <1>3 DEF PathBy
<1>6. Path(tlog, a, j, to) = f[r][a][j]
    BY <1>1, <1>2, <1>3 DEF PathBy
<1>7. f[n][m][i] = PathAt(tlog, f, n, m, i)
    BY <1>1, <1>2, <1>4 DEF PathBy
<1>8. PathAt(tlog, f, n, m, i) = Append(f[n - k][m - k][i + k], Mth(tlog, i, i + k))
    BY <1>2, <1>4, Zenon DEF PathAt
<1> QED BY <1>2, <1>4, <1>5, <1>6, <1>7, <1>8, Zenon

\* The proof for the first `at` of the n leaves from i, from the solution f.
SubproofAt(tlog, f, n, at, i, whole) ==
    LET k == LargestPowerBelow(n) IN
    CASE at = n            -> IF whole THEN <<>> ELSE <<Mth(tlog, i, i + n)>>
      [] at < n /\ at <= k -> Append(f[k][at][i][whole], Mth(tlog, i + k, i + n))
      [] OTHER             ->
            Append(f[n - k][at - k][i + k][FALSE], Mth(tlog, i, i + k))

SubproofStep(tlog, f, n) ==
    [at \in 1..n |-> [i \in Nat |-> [whole \in BOOLEAN |-> SubproofAt(tlog, f, n, at, i, whole)]]]

\* A step of the definition of _subproof reads it at smaller parts only.
LEMMA SubproofLocal ==
    ASSUME NEW tlog, NEW n \in Nat, NEW k, NEW l, \A i \in 0..(n - 1) : k[i] = l[i]
    PROVE  SubproofStep(tlog, k, n) = SubproofStep(tlog, l, n)
<1>1. ASSUME NEW at \in 1..n, NEW i \in Nat, NEW whole \in BOOLEAN
      PROVE  SubproofAt(tlog, k, n, at, i, whole) = SubproofAt(tlog, l, n, at, i, whole)
  <2>1. CASE at = n
    <3>0. ~(at < n /\ at <= LargestPowerBelow(n))
        BY <2>1
    <3>1. /\ SubproofAt(tlog, k, n, at, i, whole) = IF whole THEN <<>> ELSE <<Mth(tlog, i, i + n)>>
          /\ SubproofAt(tlog, l, n, at, i, whole) = IF whole THEN <<>> ELSE <<Mth(tlog, i, i + n)>>
        BY <2>1, <3>0, Zenon DEF SubproofAt
    <3> QED BY <3>1
  <2>2. CASE at < n
    <3>1. PICK s : s = LargestPowerBelow(n)
        OBVIOUS
    <3>2. k[s] = l[s] /\ k[n - s] = l[n - s]
        BY <2>2, <3>1, SplitRange
    <3> QED BY <2>2, <3>1, <3>2 DEF SubproofAt
  <2> QED BY <2>1, <2>2
<1> QED BY <1>1 DEF SubproofStep

\* k solves the recursive definition of Subproof on the numbers up to m.
IsSubproofUpTo(tlog, k, m) == k = [n \in 0..m |-> SubproofStep(tlog, k, n)]

\* There is one up to every number, from those up to the numbers below.
LEMMA SubproofUpToExists == ASSUME NEW tlog, NEW m \in Nat PROVE \E k : IsSubproofUpTo(tlog, k, m)
<1> DEFINE P == {j \in Nat : \E k : IsSubproofUpTo(tlog, k, j)}
<1>1. \A j \in Nat : (\A i \in 0..(j - 1) : i \in P) => j \in P
  <2> SUFFICES ASSUME NEW j \in Nat, \A i \in 0..(j - 1) : i \in P PROVE \E k : IsSubproofUpTo(tlog, k, j)
      OBVIOUS
  <2>1. \E old : \A n \in 0..(j - 1) : old[n] = SubproofStep(tlog, old, n)
    <3>1. CASE j = 0
        BY <3>1
    <3>2. CASE j # 0
      <4>1. j - 1 \in P
          BY <3>2
      <4>2. PICK old : old = [n \in 0..(j - 1) |-> SubproofStep(tlog, old, n)]
          BY <4>1 DEF IsSubproofUpTo
      <4> QED BY <4>2
    <3> QED BY <3>1, <3>2
  <2>2. PICK old : \A n \in 0..(j - 1) : old[n] = SubproofStep(tlog, old, n)
      BY <2>1
  <2>3. PICK k : k = [n \in 0..j |-> SubproofStep(tlog, old, n)]
      OBVIOUS
  <2>4. \A n \in 0..(j - 1) : k[n] = old[n]
      BY <2>2, <2>3
  <2>5. \A n \in 0..j : SubproofStep(tlog, k, n) = SubproofStep(tlog, old, n)
    <3> SUFFICES ASSUME NEW n \in 0..j PROVE SubproofStep(tlog, k, n) = SubproofStep(tlog, old, n)
        OBVIOUS
    <3>1. n \in Nat /\ \A i \in 0..(n - 1) : k[i] = old[i]
        BY <2>4
    <3> QED BY <3>1, SubproofLocal
  <2>6. k = [n \in 0..j |-> SubproofStep(tlog, k, n)]
      BY <2>3, <2>5
  <2> QED BY <2>6 DEF IsSubproofUpTo
<1>2. Nat \subseteq P
  <2> HIDE DEF P
  <2> QED BY <1>1, NatStrongInduction
<1> QED BY <1>2

\* Such solutions agree.
LEMMA SubproofUpToAgree ==
    ASSUME NEW tlog, NEW k, NEW l, NEW m \in Nat, NEW h \in Nat, IsSubproofUpTo(tlog, k, m), IsSubproofUpTo(tlog, l, h),
           NEW n \in Nat, n <= m, n <= h
    PROVE  k[n] = l[n]
<1> DEFINE P == {j \in Nat : j <= m /\ j <= h => k[j] = l[j]}
<1>1. \A j \in Nat : (\A i \in 0..(j - 1) : i \in P) => j \in P
  <2> SUFFICES ASSUME NEW j \in Nat, \A i \in 0..(j - 1) : i \in P, j <= m, j <= h PROVE k[j] = l[j]
      OBVIOUS
  <2>1. \A i \in 0..(j - 1) : k[i] = l[i]
      OBVIOUS
  <2>2. SubproofStep(tlog, k, j) = SubproofStep(tlog, l, j)
      BY <2>1, SubproofLocal
  <2>3. j \in 0..m /\ j \in 0..h
      OBVIOUS
  <2>4. k[j] = SubproofStep(tlog, k, j)
      BY <2>3 DEF IsSubproofUpTo
  <2>5. l[j] = SubproofStep(tlog, l, j)
      BY <2>3 DEF IsSubproofUpTo
  <2> QED BY <2>2, <2>4, <2>5
<1>2. Nat \subseteq P
  <2> HIDE DEF P
  <2> QED BY <1>1, NatStrongInduction
<1> QED BY <1>2

\* So it has one on all of them.
LEMMA SubproofExists == ASSUME NEW tlog PROVE \E f : f = [n \in Nat |-> SubproofStep(tlog, f, n)]
<1> DEFINE up(n) == CHOOSE k : IsSubproofUpTo(tlog, k, n)
<1>1. \A n \in Nat : IsSubproofUpTo(tlog, up(n), n)
    BY SubproofUpToExists
<1> HIDE DEF up
<1>2. PICK f : f = [n \in Nat |-> up(n)[n]]
    OBVIOUS
<1>3. ASSUME NEW n \in Nat PROVE up(n)[n] = SubproofStep(tlog, f, n)
  <2>1. up(n)[n] = SubproofStep(tlog, up(n), n)
    <3>1. n \in 0..n /\ IsSubproofUpTo(tlog, up(n), n)
        BY <1>1
    <3> QED BY <3>1 DEF IsSubproofUpTo
  <2>2. \A i \in 0..(n - 1) : up(n)[i] = f[i]
    <3> SUFFICES ASSUME NEW i \in 0..(n - 1) PROVE up(n)[i] = f[i]
        OBVIOUS
    <3>1. i \in Nat /\ i <= i /\ i <= n /\ f[i] = up(i)[i]
        BY <1>2
    <3>2. IsSubproofUpTo(tlog, up(n), n) /\ IsSubproofUpTo(tlog, up(i), i)
        BY <1>1, <3>1
    <3>3. up(n)[i] = up(i)[i]
        BY <3>1, <3>2, SubproofUpToAgree
    <3> QED BY <3>1, <3>3
  <2>3. SubproofStep(tlog, up(n), n) = SubproofStep(tlog, f, n)
      BY <2>2, SubproofLocal
  <2> QED BY <2>1, <2>3
<1>4. f = [n \in Nat |-> SubproofStep(tlog, f, n)]
    BY <1>2, <1>3
<1> QED BY <1>4

\* The solution f has _subproof of the n leaves from i to `to`.
IsSubproof(tlog, f, m, i, n, to, w) == to = i + n => Subproof(tlog, m, i, to, w) = f[n][m][i][w]

\* Subproof is computed by the function f.
SubproofBy(tlog, f) ==
    /\ \A n \in Nat : \A m \in 1..n, i \in Nat, w \in BOOLEAN : f[n][m][i][w] = SubproofAt(tlog, f, n, m, i, w)
    /\ \A m, i, n, to \in Nat : \A w \in BOOLEAN : IsSubproof(tlog, f, m, i, n, to, w)

\* _subproof is computed by its recursive definition.
LEMMA SubproofUnfold == ASSUME NEW tlog PROVE \E f : SubproofBy(tlog, f)
<1> DEFINE f == CHOOSE f : f = [n \in Nat |-> SubproofStep(tlog, f, n)]
<1>1. f = [n \in Nat |-> SubproofStep(tlog, f, n)]
    BY SubproofExists
<1>2. \A m, i, j, w : Subproof(tlog, m, i, j, w) = f[j - i][m][i][w]
    BY DEF Subproof, SubproofStep, SubproofAt
<1> HIDE DEF f
<1>3. \A i, n, to \in Nat : to = i + n => to - i = n
    OBVIOUS
<1>4. \A m, i, n, to \in Nat : \A w \in BOOLEAN : IsSubproof(tlog, f, m, i, n, to, w)
    BY <1>2, <1>3 DEF IsSubproof
<1>5. \A n \in Nat : f[n] = SubproofStep(tlog, f, n)
    BY <1>1
<1>6. ASSUME NEW n \in Nat, NEW m \in 1..n, NEW i \in Nat, NEW w \in BOOLEAN
      PROVE  f[n][m][i][w] = SubproofAt(tlog, f, n, m, i, w)
  <2>1. SubproofStep(tlog, f, n)[m] = [j \in Nat |-> [v \in BOOLEAN |-> SubproofAt(tlog, f, n, m, j, v)]]
      BY DEF SubproofStep
  <2>2. f[n][m] = [j \in Nat |-> [v \in BOOLEAN |-> SubproofAt(tlog, f, n, m, j, v)]]
      BY <1>5, <2>1
  <2>3. f[n][m][i] = [v \in BOOLEAN |-> SubproofAt(tlog, f, n, m, i, v)]
      BY <2>2
  <2> QED BY <2>3
<1>7. SubproofBy(tlog, f)
    BY <1>4, <1>6 DEF SubproofBy
<1> QED BY <1>7

\* The consistency proof of a whole part.
LEMMA SubproofWhole ==
    ASSUME NEW tlog, NEW i \in Nat, NEW n \in Nat, n # 0, NEW whole \in BOOLEAN, NEW to, to = i + n
    PROVE  Subproof(tlog, n, i, to, whole) = IF whole THEN <<>> ELSE <<Mth(tlog, i, to)>>
<1>1. PICK f : SubproofBy(tlog, f)
    BY SubproofUnfold
<1>2. n \in 1..n /\ ~(n < n /\ n <= LargestPowerBelow(n))
    OBVIOUS
<1>3. Subproof(tlog, n, i, i + n, whole) = f[n][n][i][whole]
  <2>1. IsSubproof(tlog, f, n, i, n, i + n, whole)
      BY <1>1 DEF SubproofBy
  <2> QED BY <2>1 DEF IsSubproof
<1>4. f[n][n][i][whole] = SubproofAt(tlog, f, n, n, i, whole)
    BY <1>1, <1>2 DEF SubproofBy
<1>5. SubproofAt(tlog, f, n, n, i, whole) = IF whole THEN <<>> ELSE <<Mth(tlog, i, i + n)>>
    BY <1>2, Zenon DEF SubproofAt
<1> QED BY <1>3, <1>4, <1>5, Zenon

\* That of leaves that end in the left part.
LEMMA SubproofLeft ==
    ASSUME NEW tlog, NEW i, NEW n, NEW to, NEW k, NEW j, NEW r, Splits(i, n, to, k, j, r),
           NEW m \in 1..k, NEW whole \in BOOLEAN
    PROVE  Subproof(tlog, m, i, to, whole) = Append(Subproof(tlog, m, i, j, whole), Mth(tlog, j, to))
<1>1. PICK f : SubproofBy(tlog, f)
    BY SubproofUnfold
<1>2. /\ i \in Nat /\ n \in Nat /\ to \in Nat /\ k \in Nat /\ j \in Nat
      /\ n >= 2 /\ to = i + n /\ j = i + k /\ k = LargestPowerBelow(n) /\ k \in 0..(n - 1)
    BY SplitParts
<1>3. m \in 1..n /\ m \in Nat /\ m < n /\ m <= k /\ m # n
    BY <1>2
<1>4. Subproof(tlog, m, i, to, whole) = f[n][m][i][whole]
  <2>1. IsSubproof(tlog, f, m, i, n, to, whole)
      BY <1>1, <1>2, <1>3 DEF SubproofBy
  <2> QED BY <1>2, <2>1 DEF IsSubproof
<1>5. Subproof(tlog, m, i, j, whole) = f[k][m][i][whole]
  <2>1. IsSubproof(tlog, f, m, i, k, j, whole)
      BY <1>1, <1>2, <1>3 DEF SubproofBy
  <2> QED BY <1>2, <2>1 DEF IsSubproof
<1>6. f[n][m][i][whole] = SubproofAt(tlog, f, n, m, i, whole)
    BY <1>1, <1>2, <1>3 DEF SubproofBy
<1>7. SubproofAt(tlog, f, n, m, i, whole) = Append(f[k][m][i][whole], Mth(tlog, i + k, i + n))
    BY <1>2, <1>3, Zenon DEF SubproofAt
<1> QED BY <1>2, <1>4, <1>5, <1>6, <1>7, Zenon

\* The first m leaves are the k of the left part and a more, but not all.
Partly(m, a, k, r) == Beyond(m, a, k, r) /\ a # 0

\* The proof in a part that does not begin with the whole log.
PartSubproof(tlog, m, i, to) == Subproof(tlog, m, i, to, FALSE)

\* That of leaves that end in the right part: the first m are the k of the left and a more.
LEMMA SubproofRight ==
    ASSUME NEW tlog, NEW i, NEW n, NEW to, NEW k, NEW j, NEW r, Splits(i, n, to, k, j, r),
           NEW m, NEW a, Partly(m, a, k, r), NEW whole \in BOOLEAN
    PROVE  Subproof(tlog, m, i, to, whole) = Append(PartSubproof(tlog, a, j, to), Mth(tlog, i, j))
<1>1. PICK f : SubproofBy(tlog, f)
    BY SubproofUnfold
<1>2. /\ i \in Nat /\ n \in Nat /\ to \in Nat /\ k \in Nat /\ j \in Nat /\ r \in Nat
      /\ n >= 2 /\ to = i + n /\ j = i + k /\ to = j + r /\ n = k + r /\ k = LargestPowerBelow(n)
    BY SplitParts
<1>3. m \in Nat /\ a \in Nat /\ a < r /\ m = a + k /\ a # 0
    BY <1>2 DEF Partly, Beyond
<1>4. m \in 1..n /\ m # n /\ ~(m < n /\ m <= k) /\ n - k = r /\ m - k = a
    BY <1>2, <1>3
<1>5. Subproof(tlog, m, i, to, whole) = f[n][m][i][whole]
  <2>1. IsSubproof(tlog, f, m, i, n, to, whole)
      BY <1>1, <1>2, <1>3 DEF SubproofBy
  <2> QED BY <1>2, <2>1 DEF IsSubproof
<1>6. Subproof(tlog, a, j, to, FALSE) = f[r][a][j][FALSE]
  <2>1. IsSubproof(tlog, f, a, j, r, to, FALSE)
      BY <1>1, <1>2, <1>3 DEF SubproofBy
  <2> QED BY <1>2, <2>1 DEF IsSubproof
<1>7. f[n][m][i][whole] = SubproofAt(tlog, f, n, m, i, whole)
  <2>1. n \in Nat /\ m \in 1..n /\ i \in Nat
      BY <1>2, <1>4
  <2> QED BY <1>1, <2>1 DEF SubproofBy
<1>8. SubproofAt(tlog, f, n, m, i, whole) = Append(f[n - k][m - k][i + k][FALSE], Mth(tlog, i, i + k))
    BY <1>2, <1>4, Zenon DEF SubproofAt
<1> QED BY <1>2, <1>4, <1>5, <1>6, <1>7, <1>8, Zenon DEF PartSubproof

-----------------------------------------------------------------------------
(* Hashes and lists of hashes.                                               *)

\* A hash is the term it was computed from.
LEMMA Hashes ==
    /\ \A a, b, c, d : Node(a, b) = Node(c, d) <=> a = c /\ b = d
    /\ \A a, b : LeafHash(a) = LeafHash(b) <=> a = b
    /\ \A a, b, c : Node(a, b) # LeafHash(c)
    /\ \A a, b : Node(a, b) # NoRoot
    /\ \A a : LeafHash(a) # NoRoot
<1>1. \A a, b : Node(a, b)[1] = "node" /\ Node(a, b)[2] = a /\ Node(a, b)[3] = b
    BY DEF Node
<1>2. \A a : LeafHash(a)[1] = "leaf" /\ LeafHash(a)[2] = a
    BY DEF LeafHash
<1>3. NoRoot[1] = "none"
    BY DEF NoRoot
<1>4. ASSUME NEW a, NEW b, NEW c, NEW d PROVE Node(a, b) = Node(c, d) <=> a = c /\ b = d
    BY <1>1
<1>5. ASSUME NEW a, NEW b PROVE LeafHash(a) = LeafHash(b) <=> a = b
    BY <1>2
<1>6. ASSUME NEW a, NEW b, NEW c PROVE Node(a, b) # LeafHash(c)
    BY <1>1, <1>2
<1>7. ASSUME NEW a, NEW b PROVE Node(a, b) # NoRoot
    BY <1>1, <1>3
<1>8. ASSUME NEW a PROVE LeafHash(a) # NoRoot
    BY <1>2, <1>3
<1> QED BY <1>4, <1>5, <1>6, <1>7, <1>8

\* A list of hashes is a sequence over some set.
IsList(p) == \E S : p \in Seq(S)

\* A list with one hash more.
LEMMA Lengthened ==
    ASSUME NEW p, IsList(p), NEW h
    PROVE  /\ IsList(Append(p, h)) /\ Len(p) \in Nat /\ Len(Append(p, h)) = Len(p) + 1
           /\ \A t \in 1..Len(p) : Append(p, h)[t] = p[t]
           /\ Append(p, h)[Len(p) + 1] = h
           /\ Append(p, h) # <<>>
<1>1. PICK S : p \in Seq(S)
    BY DEF IsList
<1>2. PICK T : T = S \cup {h}
    OBVIOUS
<1>3. p \in Seq(T) /\ h \in T
    BY <1>1, <1>2
<1>4. Append(p, h) \in Seq(T)
    BY <1>3
<1>5. IsList(Append(p, h))
    BY <1>4 DEF IsList
<1> QED BY <1>3, <1>5

\* Two such are equal if they are in both parts.
LEMMA LengthenedEqual ==
    ASSUME NEW p, IsList(p), NEW q, IsList(q), NEW g, NEW h
    PROVE  Append(p, g) = Append(q, h) <=> p = q /\ g = h
<1>1. PICK S : p \in Seq(S)
    BY DEF IsList
<1>2. PICK T : q \in Seq(T)
    BY DEF IsList
<1>3. PICK U : U = S \cup T \cup {g, h}
    OBVIOUS
<1>4. p \in Seq(U) /\ q \in Seq(U) /\ g \in U /\ h \in U
    BY <1>1, <1>2, <1>3
<1>5. ASSUME Append(p, g) = Append(q, h) PROVE p = q /\ g = h
  <2>1. Len(Append(p, g)) = Len(p) + 1 /\ Len(Append(q, h)) = Len(q) + 1 /\ Len(p) \in Nat /\ Len(q) \in Nat
      BY <1>4
  <2>2. Len(p) = Len(q)
      BY <1>5, <2>1
  <2>3. Append(p, g)[Len(p) + 1] = g /\ Append(q, h)[Len(q) + 1] = h
      BY <1>4
  <2>4. g = h
      BY <1>5, <2>2, <2>3
  <2>5. \A t \in 1..Len(p) : Append(p, g)[t] = p[t] /\ Append(q, h)[t] = q[t]
      BY <1>4, <2>2
  <2>6. \A t \in 1..Len(p) : p[t] = q[t]
      BY <1>5, <2>5
  <2>7. p = q
      BY <1>4, <2>2, <2>6
  <2> QED BY <2>4, <2>7
<1> QED BY <1>5

\* A list is empty or one with a hash more.
LEMMA LastOff ==
    ASSUME NEW p, IsList(p), p # <<>>
    PROVE  \E q, h : IsList(q) /\ p = Append(q, h) /\ Len(q) = Len(p) - 1
<1>1. PICK S : p \in Seq(S)
    BY DEF IsList
<1>2. Len(p) \in Nat /\ Len(p) # 0
    BY <1>1
<1>3. PICK q, h : q = SubSeq(p, 1, Len(p) - 1) /\ h = p[Len(p)]
    OBVIOUS
<1>4. q \in Seq(S) /\ Len(q) = Len(p) - 1 /\ h \in S
  <2>1. PICK n : n = Len(p)
      OBVIOUS
  <2>2. n \in Nat /\ n # 0 /\ n - 1 \in 0..n
      BY <1>2, <2>1
  <2>3. SubSeq(p, 1, n - 1) \in Seq(S) /\ Len(SubSeq(p, 1, n - 1)) = n - 1
      BY <1>1, <2>1, <2>2
  <2>4. n \in 1..Len(p) /\ p[n] \in S
      BY <1>1, <2>1, <2>2
  <2> QED BY <1>3, <2>1, <2>3, <2>4
<1>5. Append(q, h) \in Seq(S) /\ Len(Append(q, h)) = Len(p)
    BY <1>2, <1>4
<1>6. \A t \in 1..Len(p) : Append(q, h)[t] = p[t]
    BY <1>1, <1>2, <1>3, <1>4
<1>7. Append(q, h) = p
    BY <1>1, <1>5, <1>6
<1>8. IsList(q)
    BY <1>4 DEF IsList
<1> QED BY <1>4, <1>7, <1>8

\* The empty list and one of one hash.
LEMMA ShortLists == IsList(<<>>) /\ \A h : IsList(<<h>>) /\ <<h>> # <<>>
<1>1. <<>> \in Seq({})
    OBVIOUS
<1>2. \A h : <<h>> \in Seq({h})
    OBVIOUS
<1> QED BY <1>1, <1>2 DEF IsList

\* A list with a hash before it.
LEMMA Preceded ==
    ASSUME NEW p, IsList(p), NEW r, NEW h
    PROVE  /\ <<r>> \o p # <<>> /\ Head(<<r>> \o p) = r /\ Tail(<<r>> \o p) = p
           /\ IsList(<<r>> \o p)
           /\ Append(<<r>> \o p, h) = <<r>> \o Append(p, h)
           /\ <<r>> \o <<>> = <<r>>
<1>1. PICK S : p \in Seq(S)
    BY DEF IsList
<1>2. PICK T : T = S \cup {r, h}
    OBVIOUS
<1>3. p \in Seq(T) /\ r \in T /\ h \in T
    BY <1>1, <1>2
<1>4. PICK c : c = <<r>> \o p
    OBVIOUS
<1>5. c \in Seq(T) /\ Len(c) = Len(p) + 1 /\ c[1] = r /\ (\A t \in 1..Len(p) : c[t + 1] = p[t]) /\ Len(p) \in Nat
    BY <1>3, <1>4
<1>6. Tail(c) = p
  <2>1. Tail(c) \in Seq(T) /\ Len(Tail(c)) = Len(p)
      BY <1>5
  <2>2. \A t \in 1..Len(p) : Tail(c)[t] = c[t + 1]
      BY <1>5
  <2>3. \A t \in 1..Len(p) : Tail(c)[t] = p[t]
      BY <1>5, <2>2
  <2> QED BY <1>3, <2>1, <2>3
<1>7. c # <<>> /\ Head(c) = r
    BY <1>5
<1>8. IsList(c)
    BY <1>5 DEF IsList
<1>9. Append(c, h) = <<r>> \o Append(p, h)
    BY <1>3, <1>4
<1> QED BY <1>4, <1>6, <1>7, <1>8, <1>9

-----------------------------------------------------------------------------
(* The recursive functions of the verifiers.                                 *)

\* One step of the definition of Rightmost, from the solution f.
RightmostStep(f, n) ==
    [sn \in Nat |-> IF Odd(n) THEN f[n \div 2][sn \div 2] ELSE <<n, sn>>]

\* A step of the definition of Rightmost reads it at smaller indices only.
LEMMA RightmostLocal ==
    ASSUME NEW n \in Nat, NEW k, NEW l, \A i \in 0..(n - 1) : k[i] = l[i]
    PROVE  RightmostStep(k, n) = RightmostStep(l, n)
<1>1. CASE Odd(n)
  <2>1. n \div 2 \in 0..(n - 1)
      BY <1>1, Halves
  <2>2. k[n \div 2] = l[n \div 2]
      BY <2>1
  <2> QED BY <2>2 DEF RightmostStep
<1>2. CASE ~Odd(n)
    BY <1>2 DEF RightmostStep
<1> QED BY <1>1, <1>2

\* k solves the recursive definition of Rightmost on the numbers up to m.
IsRightmostUpTo(k, m) == k = [n \in 0..m |-> RightmostStep(k, n)]

\* There is one up to every number, from those up to the numbers below.
LEMMA RightmostUpToExists == ASSUME NEW m \in Nat PROVE \E k : IsRightmostUpTo(k, m)
<1> DEFINE P == {j \in Nat : \E k : IsRightmostUpTo(k, j)}
<1>1. \A j \in Nat : (\A i \in 0..(j - 1) : i \in P) => j \in P
  <2> SUFFICES ASSUME NEW j \in Nat, \A i \in 0..(j - 1) : i \in P PROVE \E k : IsRightmostUpTo(k, j)
      OBVIOUS
  <2>1. \E old : \A n \in 0..(j - 1) : old[n] = RightmostStep(old, n)
    <3>1. CASE j = 0
        BY <3>1
    <3>2. CASE j # 0
      <4>1. j - 1 \in P
          BY <3>2
      <4>2. PICK old : old = [n \in 0..(j - 1) |-> RightmostStep(old, n)]
          BY <4>1 DEF IsRightmostUpTo
      <4> QED BY <4>2
    <3> QED BY <3>1, <3>2
  <2>2. PICK old : \A n \in 0..(j - 1) : old[n] = RightmostStep(old, n)
      BY <2>1
  <2>3. PICK k : k = [n \in 0..j |-> RightmostStep(old, n)]
      OBVIOUS
  <2>4. \A n \in 0..(j - 1) : k[n] = old[n]
      BY <2>2, <2>3
  <2>5. \A n \in 0..j : RightmostStep(k, n) = RightmostStep(old, n)
    <3> SUFFICES ASSUME NEW n \in 0..j PROVE RightmostStep(k, n) = RightmostStep(old, n)
        OBVIOUS
    <3>1. n \in Nat /\ \A i \in 0..(n - 1) : k[i] = old[i]
        BY <2>4
    <3> QED BY <3>1, RightmostLocal
  <2>6. k = [n \in 0..j |-> RightmostStep(k, n)]
      BY <2>3, <2>5
  <2> QED BY <2>6 DEF IsRightmostUpTo
<1>2. Nat \subseteq P
  <2> HIDE DEF P
  <2> QED BY <1>1, NatStrongInduction
<1> QED BY <1>2

\* Such solutions agree.
LEMMA RightmostUpToAgree ==
    ASSUME NEW k, NEW l, NEW m \in Nat, NEW h \in Nat, IsRightmostUpTo(k, m), IsRightmostUpTo(l, h),
           NEW n \in Nat, n <= m, n <= h
    PROVE  k[n] = l[n]
<1> DEFINE P == {j \in Nat : j <= m /\ j <= h => k[j] = l[j]}
<1>1. \A j \in Nat : (\A i \in 0..(j - 1) : i \in P) => j \in P
  <2> SUFFICES ASSUME NEW j \in Nat, \A i \in 0..(j - 1) : i \in P, j <= m, j <= h PROVE k[j] = l[j]
      OBVIOUS
  <2>1. \A i \in 0..(j - 1) : k[i] = l[i]
      OBVIOUS
  <2>2. RightmostStep(k, j) = RightmostStep(l, j)
      BY <2>1, RightmostLocal
  <2>3. j \in 0..m /\ j \in 0..h
      OBVIOUS
  <2>4. k[j] = RightmostStep(k, j)
      BY <2>3 DEF IsRightmostUpTo
  <2>5. l[j] = RightmostStep(l, j)
      BY <2>3 DEF IsRightmostUpTo
  <2> QED BY <2>2, <2>4, <2>5
<1>2. Nat \subseteq P
  <2> HIDE DEF P
  <2> QED BY <1>1, NatStrongInduction
<1> QED BY <1>2

\* So it has one on all of them.
LEMMA RightmostExists == \E f : f = [n \in Nat |-> RightmostStep(f, n)]
<1> DEFINE up(n) == CHOOSE k : IsRightmostUpTo(k, n)
<1>1. \A n \in Nat : IsRightmostUpTo(up(n), n)
    BY RightmostUpToExists
<1> HIDE DEF up
<1>2. PICK f : f = [n \in Nat |-> up(n)[n]]
    OBVIOUS
<1>3. ASSUME NEW n \in Nat PROVE up(n)[n] = RightmostStep(f, n)
  <2>1. up(n)[n] = RightmostStep(up(n), n)
    <3>1. n \in 0..n /\ IsRightmostUpTo(up(n), n)
        BY <1>1
    <3> QED BY <3>1 DEF IsRightmostUpTo
  <2>2. \A i \in 0..(n - 1) : up(n)[i] = f[i]
    <3> SUFFICES ASSUME NEW i \in 0..(n - 1) PROVE up(n)[i] = f[i]
        OBVIOUS
    <3>1. i \in Nat /\ i <= i /\ i <= n /\ f[i] = up(i)[i]
        BY <1>2
    <3>2. IsRightmostUpTo(up(n), n) /\ IsRightmostUpTo(up(i), i)
        BY <1>1, <3>1
    <3>3. up(n)[i] = up(i)[i]
        BY <3>1, <3>2, RightmostUpToAgree
    <3> QED BY <3>1, <3>3
  <2>3. RightmostStep(up(n), n) = RightmostStep(f, n)
      BY <2>2, RightmostLocal
  <2> QED BY <2>1, <2>3
<1>4. f = [n \in Nat |-> RightmostStep(f, n)]
    BY <1>2, <1>3
<1> QED BY <1>4

\* Rightmost, by its recursion.
LEMMA RightmostUnfold ==
    ASSUME NEW fn \in Nat, NEW sn \in Nat
    PROVE  Rightmost[fn][sn] = IF Odd(fn) THEN Rightmost[fn \div 2][sn \div 2] ELSE <<fn, sn>>
<1>1. Rightmost = [n \in Nat |-> RightmostStep(Rightmost, n)]
    BY RightmostExists DEF Rightmost, RightmostStep
<1>2. Rightmost[fn] = RightmostStep(Rightmost, fn)
    BY <1>1
<1> QED BY <1>2 DEF RightmostStep

\* One step of the loop over the path, from the solution f.
ReachedStep(start, path, f, t) == IF t = 0 THEN start ELSE Climbed(f[t - 1], path[t])

\* A step of the loop over a path reads the step before it only.
LEMMA ReachedLocal ==
    ASSUME NEW start, NEW path, NEW n \in Nat, NEW k, NEW l, \A i \in 0..(n - 1) : k[i] = l[i]
    PROVE  ReachedStep(start, path, k, n) = ReachedStep(start, path, l, n)
<1>1. CASE n = 0
    BY <1>1 DEF ReachedStep
<1>2. CASE n # 0
  <2>1. k[n - 1] = l[n - 1]
      BY <1>2
  <2> QED BY <2>1 DEF ReachedStep
<1> QED BY <1>1, <1>2

\* k solves the recursive definition of Reached on the numbers up to m.
IsReachedUpTo(start, path, k, m) == k = [n \in 0..m |-> ReachedStep(start, path, k, n)]

\* There is one up to every number, from those up to the numbers below.
LEMMA ReachedUpToExists == ASSUME NEW start, NEW path, NEW m \in Nat PROVE \E k : IsReachedUpTo(start, path, k, m)
<1> DEFINE P == {j \in Nat : \E k : IsReachedUpTo(start, path, k, j)}
<1>1. \A j \in Nat : (\A i \in 0..(j - 1) : i \in P) => j \in P
  <2> SUFFICES ASSUME NEW j \in Nat, \A i \in 0..(j - 1) : i \in P PROVE \E k : IsReachedUpTo(start, path, k, j)
      OBVIOUS
  <2>1. \E old : \A n \in 0..(j - 1) : old[n] = ReachedStep(start, path, old, n)
    <3>1. CASE j = 0
        BY <3>1
    <3>2. CASE j # 0
      <4>1. j - 1 \in P
          BY <3>2
      <4>2. PICK old : old = [n \in 0..(j - 1) |-> ReachedStep(start, path, old, n)]
          BY <4>1 DEF IsReachedUpTo
      <4> QED BY <4>2
    <3> QED BY <3>1, <3>2
  <2>2. PICK old : \A n \in 0..(j - 1) : old[n] = ReachedStep(start, path, old, n)
      BY <2>1
  <2>3. PICK k : k = [n \in 0..j |-> ReachedStep(start, path, old, n)]
      OBVIOUS
  <2>4. \A n \in 0..(j - 1) : k[n] = old[n]
      BY <2>2, <2>3
  <2>5. \A n \in 0..j : ReachedStep(start, path, k, n) = ReachedStep(start, path, old, n)
    <3> SUFFICES ASSUME NEW n \in 0..j PROVE ReachedStep(start, path, k, n) = ReachedStep(start, path, old, n)
        OBVIOUS
    <3>1. n \in Nat /\ \A i \in 0..(n - 1) : k[i] = old[i]
        BY <2>4
    <3> QED BY <3>1, ReachedLocal
  <2>6. k = [n \in 0..j |-> ReachedStep(start, path, k, n)]
      BY <2>3, <2>5
  <2> QED BY <2>6 DEF IsReachedUpTo
<1>2. Nat \subseteq P
  <2> HIDE DEF P
  <2> QED BY <1>1, NatStrongInduction
<1> QED BY <1>2

\* Such solutions agree.
LEMMA ReachedUpToAgree ==
    ASSUME NEW start, NEW path, NEW k, NEW l, NEW m \in Nat, NEW h \in Nat, IsReachedUpTo(start, path, k, m), IsReachedUpTo(start, path, l, h),
           NEW n \in Nat, n <= m, n <= h
    PROVE  k[n] = l[n]
<1> DEFINE P == {j \in Nat : j <= m /\ j <= h => k[j] = l[j]}
<1>1. \A j \in Nat : (\A i \in 0..(j - 1) : i \in P) => j \in P
  <2> SUFFICES ASSUME NEW j \in Nat, \A i \in 0..(j - 1) : i \in P, j <= m, j <= h PROVE k[j] = l[j]
      OBVIOUS
  <2>1. \A i \in 0..(j - 1) : k[i] = l[i]
      OBVIOUS
  <2>2. ReachedStep(start, path, k, j) = ReachedStep(start, path, l, j)
      BY <2>1, ReachedLocal
  <2>3. j \in 0..m /\ j \in 0..h
      OBVIOUS
  <2>4. k[j] = ReachedStep(start, path, k, j)
      BY <2>3 DEF IsReachedUpTo
  <2>5. l[j] = ReachedStep(start, path, l, j)
      BY <2>3 DEF IsReachedUpTo
  <2> QED BY <2>2, <2>4, <2>5
<1>2. Nat \subseteq P
  <2> HIDE DEF P
  <2> QED BY <1>1, NatStrongInduction
<1> QED BY <1>2

\* So it has one on all of them.
LEMMA ReachedExists == ASSUME NEW start, NEW path PROVE \E f : f = [n \in Nat |-> ReachedStep(start, path, f, n)]
<1> DEFINE up(n) == CHOOSE k : IsReachedUpTo(start, path, k, n)
<1>1. \A n \in Nat : IsReachedUpTo(start, path, up(n), n)
    BY ReachedUpToExists
<1> HIDE DEF up
<1>2. PICK f : f = [n \in Nat |-> up(n)[n]]
    OBVIOUS
<1>3. ASSUME NEW n \in Nat PROVE up(n)[n] = ReachedStep(start, path, f, n)
  <2>1. up(n)[n] = ReachedStep(start, path, up(n), n)
    <3>1. n \in 0..n /\ IsReachedUpTo(start, path, up(n), n)
        BY <1>1
    <3> QED BY <3>1 DEF IsReachedUpTo
  <2>2. \A i \in 0..(n - 1) : up(n)[i] = f[i]
    <3> SUFFICES ASSUME NEW i \in 0..(n - 1) PROVE up(n)[i] = f[i]
        OBVIOUS
    <3>1. i \in Nat /\ i <= i /\ i <= n /\ f[i] = up(i)[i]
        BY <1>2
    <3>2. IsReachedUpTo(start, path, up(n), n) /\ IsReachedUpTo(start, path, up(i), i)
        BY <1>1, <3>1
    <3>3. up(n)[i] = up(i)[i]
        BY <3>1, <3>2, ReachedUpToAgree
    <3> QED BY <3>1, <3>3
  <2>3. ReachedStep(start, path, up(n), n) = ReachedStep(start, path, f, n)
      BY <2>2, ReachedLocal
  <2> QED BY <2>1, <2>3
<1>4. f = [n \in Nat |-> ReachedStep(start, path, f, n)]
    BY <1>2, <1>3
<1> QED BY <1>4

\* Reached is computed by the function f.
ReachedBy(start, path, f) ==
    /\ f[0] = start
    /\ \A t \in Nat : f[t + 1] = Climbed(f[t], path[t + 1])
    /\ Reached(start, path) = f[Len(path)]

\* Reached is computed by its recursive definition.
LEMMA ReachedUnfold == ASSUME NEW start, NEW path PROVE \E f : ReachedBy(start, path, f)
<1> DEFINE f == CHOOSE f : f = [n \in Nat |-> ReachedStep(start, path, f, n)]
<1>1. f = [n \in Nat |-> ReachedStep(start, path, f, n)]
    BY ReachedExists
<1>2. Reached(start, path) = f[Len(path)]
    BY DEF Reached, ReachedStep
<1> HIDE DEF f
<1>3. \A n \in Nat : f[n] = ReachedStep(start, path, f, n)
    BY <1>1
<1>4. f[0] = start
    BY <1>3 DEF ReachedStep
<1>5. ASSUME NEW t \in Nat PROVE f[t + 1] = Climbed(f[t], path[t + 1])
  <2>1. PICK s : s = t + 1
      OBVIOUS
  <2>2. s \in Nat /\ s # 0 /\ s - 1 = t
      BY <2>1
  <2>3. f[s] = Climbed(f[s - 1], path[s])
      BY <1>3, <2>2 DEF ReachedStep
  <2> QED BY <2>1, <2>2, <2>3
<1>6. ReachedBy(start, path, f)
    BY <1>2, <1>4, <1>5 DEF ReachedBy
<1> QED BY <1>6

\* Without a path it is where the climb starts.
LEMMA ReachedNone == ASSUME NEW start PROVE Reached(start, <<>>) = start
<1>1. PICK f : ReachedBy(start, <<>>, f)
    BY ReachedUnfold
<1>2. Len(<<>>) = 0
    OBVIOUS
<1> QED BY <1>1, <1>2 DEF ReachedBy

\* A path with one hash more leads one step further.
LEMMA ReachedMore ==
    ASSUME NEW start, NEW p, IsList(p), NEW h
    PROVE  Reached(start, Append(p, h)) = Climbed(Reached(start, p), h)
<1>1. PICK f : ReachedBy(start, p, f)
    BY ReachedUnfold
<1>2. PICK g : ReachedBy(start, Append(p, h), g)
    BY ReachedUnfold
<1>3. PICK n : n = Len(p)
    OBVIOUS
<1>4. /\ n \in Nat /\ Len(Append(p, h)) = n + 1 /\ Append(p, h)[n + 1] = h
      /\ \A t \in 1..n : Append(p, h)[t] = p[t]
    BY <1>3, Lengthened
<1> DEFINE P == {t \in Nat : t <= n => g[t] = f[t]}
<1>5. \A t \in Nat : (\A i \in 0..(t - 1) : i \in P) => t \in P
  <2> SUFFICES ASSUME NEW t \in Nat, \A i \in 0..(t - 1) : i \in P, t <= n PROVE g[t] = f[t]
      OBVIOUS
  <2>1. CASE t = 0
      BY <1>1, <1>2, <2>1 DEF ReachedBy
  <2>2. CASE t # 0
    <3>1. PICK s : s = t - 1
        OBVIOUS
    <3>2. s \in Nat /\ t = s + 1 /\ s \in 0..(t - 1) /\ s <= n /\ t \in 1..n
        BY <1>4, <2>2, <3>1
    <3>3. g[s] = f[s]
        BY <3>2
    <3>4. g[s + 1] = Climbed(g[s], Append(p, h)[s + 1])
        BY <1>2, <3>2 DEF ReachedBy
    <3>5. f[s + 1] = Climbed(f[s], p[s + 1])
        BY <1>1, <3>2 DEF ReachedBy
    <3>6. Append(p, h)[s + 1] = p[s + 1]
        BY <1>4, <3>2
    <3> QED BY <3>2, <3>3, <3>4, <3>5, <3>6
  <2> QED BY <2>1, <2>2
<1>6. Nat \subseteq P
  <2> HIDE DEF P
  <2> QED BY <1>5, NatStrongInduction
<1>7. g[n] = f[n]
    BY <1>4, <1>6
<1>8. g[n + 1] = Climbed(g[n], Append(p, h)[n + 1])
    BY <1>2, <1>4 DEF ReachedBy
<1>9. Reached(start, Append(p, h)) = g[n + 1] /\ Reached(start, p) = f[n]
    BY <1>1, <1>2, <1>3, <1>4 DEF ReachedBy
<1> QED BY <1>4, <1>7, <1>8, <1>9

-----------------------------------------------------------------------------
(* A climb in a tree and the climb in the part it starts in.                   *)

\* A number that is twice another, or one more.
LEMMA HalfOf ==
    ASSUME NEW n \in Nat, NEW h \in Nat
    PROVE  /\ n = 2 * h => n \div 2 = h /\ ~Odd(n)
           /\ n = 2 * h + 1 => n \div 2 = h /\ Odd(n)
<1>1. PICK g, odd : g = n \div 2 /\ odd = Odd(n)
    OBVIOUS
<1>2. g \in Nat /\ (odd => n = 2 * g + 1) /\ (~odd => n = 2 * g) /\ odd \in BOOLEAN
    BY <1>1, Halves DEF Odd
<1>3. n = 2 * h => g = h /\ ~odd
    BY <1>2
<1>4. n = 2 * h + 1 => g = h /\ odd
    BY <1>2
<1> QED BY <1>1, <1>3, <1>4

\* The node above.
LEMMA AboveIs ==
    ASSUME NEW fn, NEW sn
    PROVE  /\ fn = sn => Above(fn, sn) = <<Ascended[fn] \div 2, Ascended[sn] \div 2>>
           /\ fn # sn => Above(fn, sn) = <<fn \div 2, sn \div 2>>
    BY DEF Above

\* One hash of the path.
LEMMA ClimbedIs ==
    ASSUME NEW at, NEW h
    PROVE  /\ at.sn = 0 => Climbed(at, h) = [fr |-> NoRoot, sr |-> NoRoot, fn |-> at.fn, sn |-> at.sn]
           /\ at.sn # 0 /\ IsRight(at.fn, at.sn) =>
                Climbed(at, h) = [fr |-> Node(h, at.fr), sr |-> Node(h, at.sr),
                                  fn |-> Above(at.fn, at.sn)[1], sn |-> Above(at.fn, at.sn)[2]]
           /\ at.sn # 0 /\ ~IsRight(at.fn, at.sn) =>
                Climbed(at, h) = [fr |-> at.fr, sr |-> Node(at.sr, h),
                                  fn |-> Above(at.fn, at.sn)[1], sn |-> Above(at.fn, at.sn)[2]]
<1>1. CASE at.sn = 0
  <2>1. Climbed(at, h) = [fr |-> NoRoot, sr |-> NoRoot, fn |-> at.fn, sn |-> at.sn]
      BY <1>1, Zenon DEF Climbed
  <2> QED BY <1>1, <2>1
<1>2. CASE at.sn # 0 /\ IsRight(at.fn, at.sn)
  <2>1. Climbed(at, h) = [fr |-> Node(h, at.fr), sr |-> Node(h, at.sr),
                          fn |-> Above(at.fn, at.sn)[1], sn |-> Above(at.fn, at.sn)[2]]
      BY <1>2, Zenon DEF Climbed
  <2> QED BY <1>2, <2>1
<1>3. CASE at.sn # 0 /\ ~IsRight(at.fn, at.sn)
  <2>1. Climbed(at, h) = [fr |-> at.fr, sr |-> Node(at.sr, h),
                          fn |-> Above(at.fn, at.sn)[1], sn |-> Above(at.fn, at.sn)[2]]
      BY <1>3, Zenon DEF Climbed
  <2> QED BY <1>3, <2>1
<1> QED BY <1>1, <1>2, <1>3

\* The position in a tree is that in its left part, which is full.
InLeft(part, tree) ==
    \E k \in Nat :
        /\ k # 0 /\ IsPower(k)
        /\ part.sn = k - 1 /\ part.fn \in 0..(k - 1)
        /\ tree.fn = part.fn /\ tree.sn \in k..(2 * k - 1)
        /\ tree.fr = part.fr /\ tree.sr = part.sr
        /\ part.fr # NoRoot /\ part.sr # NoRoot

\* The position in a tree is that in its right part, shifted by the leaves of the left.
InRight(part, tree) ==
    \E k \in Nat :
        /\ k # 0 /\ IsPower(k)
        /\ part.sn \in 0..(k - 1) /\ part.fn \in 0..part.sn
        /\ tree.fn = part.fn + k /\ tree.sn = part.sn + k
        /\ tree.fr = part.fr /\ tree.sr = part.sr
        /\ part.fr # NoRoot /\ part.sr # NoRoot

\* The climb has left the part by its root.
Over(part, tree) == part.sn = 0 /\ tree.sn = 0 /\ part.fr = NoRoot /\ part.sr = NoRoot

\* Once past the root of the part the two climbs stay without a root.
LEMMA OverStep ==
    ASSUME NEW part, NEW tree, Over(part, tree), NEW h
    PROVE  /\ Over(Climbed(part, h), Climbed(tree, h))
           /\ Climbed(tree, h).fr = NoRoot /\ Climbed(tree, h).sr = NoRoot
<1>1. part.sn = 0 /\ tree.sn = 0
    BY DEF Over
<1>2. Climbed(part, h) = [fr |-> NoRoot, sr |-> NoRoot, fn |-> part.fn, sn |-> part.sn]
    BY <1>1, ClimbedIs
<1>3. Climbed(tree, h) = [fr |-> NoRoot, sr |-> NoRoot, fn |-> tree.fn, sn |-> tree.sn]
    BY <1>1, ClimbedIs
<1> QED BY <1>1, <1>2, <1>3 DEF Over

\* One hash further in the left part, below its root.
LEMMA LeftBelow ==
    ASSUME NEW part, NEW tree, InLeft(part, tree), part.sn # 0, NEW h
    PROVE  InLeft(Climbed(part, h), Climbed(tree, h)) /\ tree.sn # 0
<1>1. PICK k \in Nat :
        /\ k # 0 /\ IsPower(k)
        /\ part.sn = k - 1 /\ part.fn \in 0..(k - 1)
        /\ tree.fn = part.fn /\ tree.sn \in k..(2 * k - 1)
        /\ tree.fr = part.fr /\ tree.sr = part.sr
        /\ part.fr # NoRoot /\ part.sr # NoRoot
    BY DEF InLeft
<1>2. PICK fn, sn, tn : fn = part.fn /\ sn = part.sn /\ tn = tree.sn
    OBVIOUS
<1>3. /\ fn \in Nat /\ sn \in Nat /\ tn \in Nat /\ sn = k - 1 /\ fn <= sn /\ k <= tn /\ tn <= 2 * k - 1
      /\ sn # 0 /\ tn # 0 /\ fn # tn /\ k >= 2
    BY <1>1, <1>2
<1>4. PICK c \in Nat : c # 0 /\ k = 2 * c /\ IsPower(c)
    BY <1>1, <1>3, PowerFacts
<1>5. Odd(sn) /\ sn \div 2 = c - 1
  <2>1. c - 1 \in Nat /\ sn = 2 * (c - 1) + 1
      BY <1>3, <1>4
  <2> QED BY <1>3, <2>1, HalfOf
<1>6. PICK a, t : a = fn \div 2 /\ t = tn \div 2
    OBVIOUS
<1>7. a \in Nat /\ a <= c - 1 /\ t \in Nat /\ c <= t /\ t <= 2 * c - 1
  <2>1. a \in Nat /\ (fn = 2 * a \/ fn = 2 * a + 1)
      BY <1>3, <1>6, Halves
  <2>2. t \in Nat /\ (tn = 2 * t \/ tn = 2 * t + 1)
      BY <1>3, <1>6, Halves
  <2> QED BY <1>3, <1>4, <2>1, <2>2
<1>8. Above(fn, sn) = <<a, c - 1>>
  <2>1. CASE fn = sn
    <3>1. Ascended[fn] = fn /\ Ascended[sn] = sn
        BY <1>3, <1>5, <2>1, AscendedFacts
    <3> QED BY <1>5, <1>6, <2>1, <3>1, AboveIs
  <2>2. CASE fn # sn
      BY <1>5, <1>6, <2>2, AboveIs
  <2> QED BY <2>1, <2>2
<1>9. Above(fn, tn) = <<a, t>>
    BY <1>3, <1>6, AboveIs
<1>10. IsRight(fn, sn) <=> IsRight(fn, tn)
    BY <1>3, <1>5 DEF IsRight
<1>11. PICK p, q : p = Climbed(part, h) /\ q = Climbed(tree, h)
    OBVIOUS
<1>12. /\ p.fn = a /\ p.sn = c - 1 /\ q.fn = a /\ q.sn = t
       /\ p.fr = q.fr /\ p.sr = q.sr /\ p.fr # NoRoot /\ p.sr # NoRoot
  <2>1. CASE IsRight(fn, sn)
    <3>1. p = [fr |-> Node(h, part.fr), sr |-> Node(h, part.sr), fn |-> a, sn |-> c - 1]
      <4>1. part.sn # 0 /\ Above(part.fn, part.sn)[1] = a /\ Above(part.fn, part.sn)[2] = c - 1
          BY <1>2, <1>3, <1>8
      <4>2. IsRight(part.fn, part.sn)
          BY <1>2, <2>1
      <4> QED BY <1>11, <4>1, <4>2, ClimbedIs
    <3>2. q = [fr |-> Node(h, part.fr), sr |-> Node(h, part.sr), fn |-> a, sn |-> t]
        BY <1>1, <1>2, <1>3, <1>9, <1>10, <1>11, <2>1, ClimbedIs
    <3> QED BY <3>1, <3>2, Hashes
  <2>2. CASE ~IsRight(fn, sn)
    <3>1. p = [fr |-> part.fr, sr |-> Node(part.sr, h), fn |-> a, sn |-> c - 1]
      <4>1. part.sn # 0 /\ Above(part.fn, part.sn)[1] = a /\ Above(part.fn, part.sn)[2] = c - 1
          BY <1>2, <1>3, <1>8
      <4>2. ~IsRight(part.fn, part.sn)
          BY <1>2, <2>2
      <4> QED BY <1>11, <4>1, <4>2, ClimbedIs
    <3>2. q = [fr |-> part.fr, sr |-> Node(part.sr, h), fn |-> a, sn |-> t]
        BY <1>1, <1>2, <1>3, <1>9, <1>10, <1>11, <2>2, ClimbedIs
    <3> QED BY <1>1, <3>1, <3>2, Hashes
  <2> QED BY <2>1, <2>2
<1>13. a \in 0..(c - 1) /\ t \in c..(2 * c - 1)
    BY <1>4, <1>7
<1>14. InLeft(p, q)
    BY <1>4, <1>12, <1>13 DEF InLeft
<1> QED BY <1>2, <1>3, <1>11, <1>14

\* The hash at the root of the left part is the right part's.
LEMMA LeftAtRoot ==
    ASSUME NEW part, NEW tree, InLeft(part, tree), part.sn = 0, NEW h
    PROVE  /\ Over(Climbed(part, h), Climbed(tree, h))
           /\ Climbed(tree, h).sn = 0
           /\ Climbed(tree, h).fr = part.fr /\ Climbed(tree, h).sr = Node(part.sr, h)
<1>1. /\ part.fn = 0 /\ tree.fn = 0 /\ tree.sn = 1 /\ tree.fr = part.fr /\ tree.sr = part.sr
  <2>1. PICK k \in Nat :
        /\ k # 0 /\ part.sn = k - 1 /\ part.fn \in 0..(k - 1)
        /\ tree.fn = part.fn /\ tree.sn \in k..(2 * k - 1)
        /\ tree.fr = part.fr /\ tree.sr = part.sr
      BY DEF InLeft
  <2>2. k = 1
      BY <2>1
  <2> QED BY <2>1, <2>2
<1>2. 1 \div 2 = 0 /\ 0 \div 2 = 0 /\ ~Odd(0)
  <2>1. 1 = 2 * 0 + 1 /\ 0 = 2 * 0
      OBVIOUS
  <2> QED BY <2>1, HalfOf
<1>3. Above(0, 1) = <<0, 0>> /\ ~IsRight(0, 1)
    BY <1>2, AboveIs DEF IsRight
<1>4. Climbed(tree, h) = [fr |-> tree.fr, sr |-> Node(tree.sr, h), fn |-> 0, sn |-> 0]
    BY <1>1, <1>3, ClimbedIs
<1>5. Climbed(part, h) = [fr |-> NoRoot, sr |-> NoRoot, fn |-> part.fn, sn |-> part.sn]
    BY ClimbedIs
<1> QED BY <1>1, <1>4, <1>5 DEF Over

\* One hash further in the right part, below its root.
LEMMA RightBelow ==
    ASSUME NEW part, NEW tree, InRight(part, tree), part.sn # 0, NEW h
    PROVE  InRight(Climbed(part, h), Climbed(tree, h)) /\ tree.sn # 0
<1>1. PICK k \in Nat :
        /\ k # 0 /\ IsPower(k)
        /\ part.sn \in 0..(k - 1) /\ part.fn \in 0..part.sn
        /\ tree.fn = part.fn + k /\ tree.sn = part.sn + k
        /\ tree.fr = part.fr /\ tree.sr = part.sr
        /\ part.fr # NoRoot /\ part.sr # NoRoot
    BY DEF InRight
<1>2. PICK fn, sn, gn, tn : fn = part.fn /\ sn = part.sn /\ gn = tree.fn /\ tn = tree.sn
    OBVIOUS
<1>3. /\ fn \in Nat /\ sn \in Nat /\ gn \in Nat /\ tn \in Nat /\ fn <= sn /\ sn < k
      /\ gn = fn + k /\ tn = sn + k /\ sn # 0 /\ tn # 0 /\ k >= 2
    BY <1>1, <1>2
<1>4. PICK c \in Nat : c # 0 /\ k = 2 * c /\ IsPower(c)
    BY <1>1, <1>3, PowerFacts
<1>5. Odd(fn) <=> Odd(gn)
  <2>1. PICK a : a = fn \div 2
      OBVIOUS
  <2>2. a \in Nat /\ (Odd(fn) => fn = 2 * a + 1) /\ (~Odd(fn) => fn = 2 * a)
      BY <1>3, <2>1, Halves
  <2>3. PICK b : b = a + c
      OBVIOUS
  <2>4. b \in Nat /\ (Odd(fn) => gn = 2 * b + 1) /\ (~Odd(fn) => gn = 2 * b)
      BY <1>3, <1>4, <2>2, <2>3
  <2> QED BY <1>3, <2>4, HalfOf
<1>6. IsRight(fn, sn) <=> IsRight(gn, tn)
    BY <1>3, <1>5 DEF IsRight
<1>7. \E j \in Nat : \E a, t \in Nat :
        /\ j # 0 /\ IsPower(j) /\ a <= t /\ t < j
        /\ Above(fn, sn) = <<a, t>> /\ Above(gn, tn) = <<a + j, t + j>>
  <2>1. CASE fn = sn
    <3>1. PICK d : d = Ascended[fn]
        OBVIOUS
    <3>2. fn \in 1..(k - 1) /\ d \in Nat
        BY <1>3, <2>1, <3>1, AscendedFacts
    <3>3. PICK e \in Nat : IsPower(e) /\ e >= 2 /\ d < e /\ Ascended[fn + k] = d + e
        BY <1>1, <3>1, <3>2, AscendedShift
    <3>4. PICK j \in Nat : j # 0 /\ e = 2 * j /\ IsPower(j)
        BY <3>3, PowerFacts
    <3>5. PICK a : a = d \div 2
        OBVIOUS
    <3>6. a \in Nat /\ (d = 2 * a \/ d = 2 * a + 1)
        BY <3>2, <3>5, Halves
    <3>7. PICK de : de = d + e
        OBVIOUS
    <3>8. de \in Nat /\ a + j \in Nat /\ (de = 2 * (a + j) \/ de = 2 * (a + j) + 1) /\ a < j
        BY <3>2, <3>3, <3>4, <3>6, <3>7
    <3>9. de \div 2 = a + j
        BY <3>8, HalfOf
    <3>10. Above(fn, sn) = <<a, a>> /\ Above(gn, tn) = <<a + j, a + j>>
        BY <1>3, <2>1, <3>1, <3>3, <3>5, <3>7, <3>9, AboveIs
    <3> QED BY <3>4, <3>6, <3>8, <3>10
  <2>2. CASE fn # sn
    <3>1. PICK a, t : a = fn \div 2 /\ t = sn \div 2
        OBVIOUS
    <3>2. a \in Nat /\ (fn = 2 * a \/ fn = 2 * a + 1)
        BY <1>3, <3>1, Halves
    <3>3. t \in Nat /\ (sn = 2 * t \/ sn = 2 * t + 1)
        BY <1>3, <3>1, Halves
    <3>4. a + c \in Nat /\ (gn = 2 * (a + c) \/ gn = 2 * (a + c) + 1)
        BY <1>3, <1>4, <3>2
    <3>5. t + c \in Nat /\ (tn = 2 * (t + c) \/ tn = 2 * (t + c) + 1)
        BY <1>3, <1>4, <3>3
    <3>6. gn \div 2 = a + c /\ tn \div 2 = t + c
        BY <1>3, <3>4, <3>5, HalfOf
    <3>7. a <= t /\ t < c /\ gn # tn
        BY <1>3, <1>4, <2>2, <3>2, <3>3
    <3>8. Above(fn, sn) = <<a, t>> /\ Above(gn, tn) = <<a + c, t + c>>
        BY <2>2, <3>1, <3>6, <3>7, AboveIs
    <3> QED BY <1>4, <3>2, <3>3, <3>7, <3>8
  <2> QED BY <2>1, <2>2
<1>8. PICK j \in Nat, a \in Nat, t \in Nat :
        /\ j # 0 /\ IsPower(j) /\ a <= t /\ t < j
        /\ Above(fn, sn) = <<a, t>> /\ Above(gn, tn) = <<a + j, t + j>>
    BY <1>7
<1>9. PICK p, q : p = Climbed(part, h) /\ q = Climbed(tree, h)
    OBVIOUS
<1>10. /\ p.fn = a /\ p.sn = t /\ q.fn = a + j /\ q.sn = t + j
       /\ p.fr = q.fr /\ p.sr = q.sr /\ p.fr # NoRoot /\ p.sr # NoRoot
  <2>1. CASE IsRight(fn, sn)
    <3>1. p = [fr |-> Node(h, part.fr), sr |-> Node(h, part.sr), fn |-> a, sn |-> t]
        BY <1>2, <1>3, <1>8, <1>9, <2>1, ClimbedIs
    <3>2. q = [fr |-> Node(h, part.fr), sr |-> Node(h, part.sr), fn |-> a + j, sn |-> t + j]
        BY <1>1, <1>2, <1>3, <1>6, <1>8, <1>9, <2>1, ClimbedIs
    <3> QED BY <3>1, <3>2, Hashes
  <2>2. CASE ~IsRight(fn, sn)
    <3>1. p = [fr |-> part.fr, sr |-> Node(part.sr, h), fn |-> a, sn |-> t]
        BY <1>2, <1>3, <1>8, <1>9, <2>2, ClimbedIs
    <3>2. q = [fr |-> part.fr, sr |-> Node(part.sr, h), fn |-> a + j, sn |-> t + j]
        BY <1>1, <1>2, <1>3, <1>6, <1>8, <1>9, <2>2, ClimbedIs
    <3> QED BY <1>1, <3>1, <3>2, Hashes
  <2> QED BY <2>1, <2>2
<1>11. t \in 0..(j - 1) /\ a \in 0..t
    BY <1>8
<1>12. InRight(p, q)
    BY <1>8, <1>10, <1>11 DEF InRight
<1> QED BY <1>2, <1>3, <1>9, <1>12

\* The hash at the root of the right part is the left part's.
LEMMA RightAtRoot ==
    ASSUME NEW part, NEW tree, InRight(part, tree), part.sn = 0, NEW h
    PROVE  /\ Over(Climbed(part, h), Climbed(tree, h))
           /\ Climbed(tree, h).sn = 0
           /\ Climbed(tree, h).fr = Node(h, part.fr) /\ Climbed(tree, h).sr = Node(h, part.sr)
<1>1. PICK k \in Nat :
        /\ k # 0 /\ IsPower(k) /\ part.fn = 0 /\ tree.fn = k /\ tree.sn = k
        /\ tree.fr = part.fr /\ tree.sr = part.sr
    BY DEF InRight
<1>2. 1 \div 2 = 0
  <2>1. 1 = 2 * 0 + 1
      OBVIOUS
  <2> QED BY <2>1, HalfOf
<1>3. Above(k, k) = <<0, 0>> /\ IsRight(k, k)
    BY <1>1, <1>2, AboveIs DEF IsRight, IsPower
<1>4. Climbed(tree, h) = [fr |-> Node(h, tree.fr), sr |-> Node(h, tree.sr), fn |-> 0, sn |-> 0]
    BY <1>1, <1>3, ClimbedIs
<1>5. Climbed(part, h) = [fr |-> NoRoot, sr |-> NoRoot, fn |-> part.fn, sn |-> part.sn]
    BY ClimbedIs
<1> QED BY <1>1, <1>4, <1>5 DEF Over

-----------------------------------------------------------------------------
(* Whole climbs.                                                             *)

\* The roots a climb ends with.
RootsOf(end) == IF end.sn = 0 THEN <<end.fr, end.sr>> ELSE <<NoRoot, NoRoot>>

\* Where a climb from the node fn with hash r starts.
Start(r, fn, sn) == [fr |-> r, sr |-> r, fn |-> fn, sn |-> sn]

\* ClimbBoth gives the roots its climb ends with.
LEMMA ClimbBothIs ==
    ASSUME NEW r, NEW fn, NEW sn, NEW p
    PROVE  ClimbBoth(r, fn, sn, p) = RootsOf(Reached(Start(r, fn, sn), p))
    BY DEF ClimbBoth, RootsOf, Start

\* The climb in a tree goes with that in its left part until it has left it.
LEMMA LeftStays ==
    ASSUME NEW part, NEW tree, InLeft(part, tree), NEW p, IsList(p)
    PROVE  \/ InLeft(Reached(part, p), Reached(tree, p))
           \/ Over(Reached(part, p), Reached(tree, p))
<1> DEFINE Stays(q) == \/ InLeft(Reached(part, q), Reached(tree, q))
                       \/ Over(Reached(part, q), Reached(tree, q))
           P == {n \in Nat : \A q : IsList(q) /\ Len(q) = n => Stays(q)}
<1>1. ASSUME NEW q, IsList(q), NEW h, Stays(q) PROVE Stays(Append(q, h))
  <2>1. PICK a, t : a = Reached(part, q) /\ t = Reached(tree, q)
      OBVIOUS
  <2>2. Reached(part, Append(q, h)) = Climbed(a, h) /\ Reached(tree, Append(q, h)) = Climbed(t, h)
      BY <1>1, <2>1, ReachedMore
  <2>3. CASE Over(a, t)
      BY <2>2, <2>3, OverStep
  <2>4. CASE InLeft(a, t) /\ a.sn # 0
      BY <2>2, <2>4, LeftBelow
  <2>5. CASE InLeft(a, t) /\ a.sn = 0
      BY <2>2, <2>5, LeftAtRoot
  <2> QED BY <1>1, <2>1, <2>3, <2>4, <2>5
<1>2. Stays(<<>>)
    BY ReachedNone
<1> HIDE DEF Stays
<1>3. \A n \in Nat : (\A i \in 0..(n - 1) : i \in P) => n \in P
  <2> SUFFICES ASSUME NEW n \in Nat, \A i \in 0..(n - 1) : i \in P, NEW q, IsList(q), Len(q) = n
               PROVE  Stays(q)
      OBVIOUS
  <2>1. CASE q = <<>>
      BY <1>2, <2>1
  <2>2. CASE q # <<>>
    <3>1. PICK o, h : IsList(o) /\ q = Append(o, h) /\ Len(o) = Len(q) - 1
        BY <2>2, LastOff
    <3>2. Len(o) \in Nat
        BY <3>1, Lengthened
    <3>3. n - 1 \in 0..(n - 1)
        BY <3>1, <3>2
    <3>4. Stays(o)
        BY <3>1, <3>3
    <3> QED BY <1>1, <3>1, <3>4
  <2> QED BY <2>1, <2>2
<1>4. Nat \subseteq P
  <2> HIDE DEF P
  <2> QED BY <1>3, NatStrongInduction
<1>5. Len(p) \in Nat
    BY Lengthened
<1>6. Stays(p)
    BY <1>4, <1>5
<1> QED BY <1>6 DEF Stays

\* The last hash joins the roots reached in the left part with the other part's.
LEMMA LeftClimb ==
    ASSUME NEW part, NEW tree, InLeft(part, tree), NEW q, IsList(q), NEW h,
           NEW c, c = RootsOf(Reached(part, q))
    PROVE  /\ c[2] = NoRoot => RootsOf(Reached(tree, Append(q, h))) = <<NoRoot, NoRoot>>
           /\ c[2] # NoRoot => RootsOf(Reached(tree, Append(q, h))) = <<c[1], Node(c[2], h)>>
<1>1. PICK a, t : a = Reached(part, q) /\ t = Reached(tree, q)
    OBVIOUS
<1>2. InLeft(a, t) \/ Over(a, t)
    BY <1>1, LeftStays
<1>3. Reached(tree, Append(q, h)) = Climbed(t, h)
    BY <1>1, ReachedMore
<1>4. c = IF a.sn = 0 THEN <<a.fr, a.sr>> ELSE <<NoRoot, NoRoot>>
    BY <1>1 DEF RootsOf
<1>5. CASE Over(a, t)
  <2>1. c[2] = NoRoot
      BY <1>4, <1>5 DEF Over
  <2>2. RootsOf(Climbed(t, h)) = <<NoRoot, NoRoot>>
      BY <1>5, OverStep DEF RootsOf
  <2> QED BY <1>3, <2>1, <2>2
<1>6. CASE InLeft(a, t) /\ a.sn = 0
  <2>1. c[1] = a.fr /\ c[2] = a.sr
      BY <1>4, <1>6
  <2>2. c[2] # NoRoot
      BY <1>6, <2>1 DEF InLeft
  <2>3. RootsOf(Climbed(t, h)) = <<c[1], Node(c[2], h)>>
      BY <1>6, <2>1, LeftAtRoot DEF RootsOf
  <2> QED BY <1>3, <2>2, <2>3
<1>7. CASE InLeft(a, t) /\ a.sn # 0
  <2>1. c[2] = NoRoot
      BY <1>4, <1>7
  <2>2. InLeft(Climbed(a, h), Climbed(t, h))
      BY <1>7, LeftBelow
  <2>3. Climbed(t, h).sn # 0
    <3>1. PICK n : n = Climbed(t, h).sn
        OBVIOUS
    <3>2. \E k \in Nat : k # 0 /\ n \in k..(2 * k - 1)
        BY <2>2, <3>1 DEF InLeft
    <3>3. n # 0
        BY <3>2
    <3> QED BY <3>1, <3>3
  <2>4. RootsOf(Climbed(t, h)) = <<NoRoot, NoRoot>>
      BY <2>3 DEF RootsOf
  <2> QED BY <1>3, <2>1, <2>4
<1> QED BY <1>2, <1>5, <1>6, <1>7

\* The climb in a tree goes with that in its right part until it has left it.
LEMMA RightStays ==
    ASSUME NEW part, NEW tree, InRight(part, tree), NEW p, IsList(p)
    PROVE  \/ InRight(Reached(part, p), Reached(tree, p))
           \/ Over(Reached(part, p), Reached(tree, p))
<1> DEFINE Stays(q) == \/ InRight(Reached(part, q), Reached(tree, q))
                       \/ Over(Reached(part, q), Reached(tree, q))
           P == {n \in Nat : \A q : IsList(q) /\ Len(q) = n => Stays(q)}
<1>1. ASSUME NEW q, IsList(q), NEW h, Stays(q) PROVE Stays(Append(q, h))
  <2>1. PICK a, t : a = Reached(part, q) /\ t = Reached(tree, q)
      OBVIOUS
  <2>2. Reached(part, Append(q, h)) = Climbed(a, h) /\ Reached(tree, Append(q, h)) = Climbed(t, h)
      BY <1>1, <2>1, ReachedMore
  <2>3. CASE Over(a, t)
      BY <2>2, <2>3, OverStep
  <2>4. CASE InRight(a, t) /\ a.sn # 0
      BY <2>2, <2>4, RightBelow
  <2>5. CASE InRight(a, t) /\ a.sn = 0
      BY <2>2, <2>5, RightAtRoot
  <2> QED BY <1>1, <2>1, <2>3, <2>4, <2>5
<1>2. Stays(<<>>)
    BY ReachedNone
<1> HIDE DEF Stays
<1>3. \A n \in Nat : (\A i \in 0..(n - 1) : i \in P) => n \in P
  <2> SUFFICES ASSUME NEW n \in Nat, \A i \in 0..(n - 1) : i \in P, NEW q, IsList(q), Len(q) = n
               PROVE  Stays(q)
      OBVIOUS
  <2>1. CASE q = <<>>
      BY <1>2, <2>1
  <2>2. CASE q # <<>>
    <3>1. PICK o, h : IsList(o) /\ q = Append(o, h) /\ Len(o) = Len(q) - 1
        BY <2>2, LastOff
    <3>2. Len(o) \in Nat
        BY <3>1, Lengthened
    <3>3. n - 1 \in 0..(n - 1)
        BY <3>1, <3>2
    <3>4. Stays(o)
        BY <3>1, <3>3
    <3> QED BY <1>1, <3>1, <3>4
  <2> QED BY <2>1, <2>2
<1>4. Nat \subseteq P
  <2> HIDE DEF P
  <2> QED BY <1>3, NatStrongInduction
<1>5. Len(p) \in Nat
    BY Lengthened
<1>6. Stays(p)
    BY <1>4, <1>5
<1> QED BY <1>6 DEF Stays

\* The last hash joins the roots reached in the right part with the other part's.
LEMMA RightClimb ==
    ASSUME NEW part, NEW tree, InRight(part, tree), NEW q, IsList(q), NEW h,
           NEW c, c = RootsOf(Reached(part, q))
    PROVE  /\ c[2] = NoRoot => RootsOf(Reached(tree, Append(q, h))) = <<NoRoot, NoRoot>>
           /\ c[2] # NoRoot => RootsOf(Reached(tree, Append(q, h))) = <<Node(h, c[1]), Node(h, c[2])>>
<1>1. PICK a, t : a = Reached(part, q) /\ t = Reached(tree, q)
    OBVIOUS
<1>2. InRight(a, t) \/ Over(a, t)
    BY <1>1, RightStays
<1>3. Reached(tree, Append(q, h)) = Climbed(t, h)
    BY <1>1, ReachedMore
<1>4. c = IF a.sn = 0 THEN <<a.fr, a.sr>> ELSE <<NoRoot, NoRoot>>
    BY <1>1 DEF RootsOf
<1>5. CASE Over(a, t)
  <2>1. c[2] = NoRoot
      BY <1>4, <1>5 DEF Over
  <2>2. RootsOf(Climbed(t, h)) = <<NoRoot, NoRoot>>
      BY <1>5, OverStep DEF RootsOf
  <2> QED BY <1>3, <2>1, <2>2
<1>6. CASE InRight(a, t) /\ a.sn = 0
  <2>1. c[1] = a.fr /\ c[2] = a.sr
      BY <1>4, <1>6
  <2>2. c[2] # NoRoot
      BY <1>6, <2>1 DEF InRight
  <2>3. RootsOf(Climbed(t, h)) = <<Node(h, c[1]), Node(h, c[2])>>
      BY <1>6, <2>1, RightAtRoot DEF RootsOf
  <2> QED BY <1>3, <2>2, <2>3
<1>7. CASE InRight(a, t) /\ a.sn # 0
  <2>1. c[2] = NoRoot
      BY <1>4, <1>7
  <2>2. InRight(Climbed(a, h), Climbed(t, h))
      BY <1>7, RightBelow
  <2>3. Climbed(t, h).sn # 0
    <3>1. PICK n : n = Climbed(t, h).sn
        OBVIOUS
    <3>2. \E k \in Nat : k # 0 /\ \E s \in 0..(k - 1) : n = s + k
        BY <2>2, <3>1 DEF InRight
    <3>3. n # 0
        BY <3>2
    <3> QED BY <3>1, <3>3
  <2>4. RootsOf(Climbed(t, h)) = <<NoRoot, NoRoot>>
      BY <2>3 DEF RootsOf
  <2> QED BY <1>3, <2>1, <2>4
<1> QED BY <1>2, <1>5, <1>6, <1>7

\* From the root of a tree there is nowhere to climb.
LEMMA ClimbFromRoot ==
    ASSUME NEW r, NEW fn, NEW p, IsList(p)
    PROVE  /\ p = <<>> => RootsOf(Reached(Start(r, fn, 0), p)) = <<r, r>>
           /\ p # <<>> => RootsOf(Reached(Start(r, fn, 0), p)) = <<NoRoot, NoRoot>>
<1>1. PICK s : s = Start(r, fn, 0)
    OBVIOUS
<1>2. s.sn = 0 /\ s.fr = r /\ s.sr = r
    BY <1>1 DEF Start
<1>3. CASE p = <<>>
  <2>1. Reached(s, p) = s
      BY <1>3, ReachedNone
  <2> QED BY <1>1, <1>2, <1>3, <2>1 DEF RootsOf
<1>4. CASE p # <<>>
  <2> DEFINE P == {n \in Nat : \A q : IsList(q) /\ Len(q) = n => Reached(s, q).sn = 0}
  <2>1. \A n \in Nat : (\A i \in 0..(n - 1) : i \in P) => n \in P
    <3> SUFFICES ASSUME NEW n \in Nat, \A i \in 0..(n - 1) : i \in P, NEW q, IsList(q), Len(q) = n
                 PROVE  Reached(s, q).sn = 0
        OBVIOUS
    <3>1. CASE q = <<>>
        BY <1>2, <3>1, ReachedNone
    <3>2. CASE q # <<>>
      <4>1. PICK o, h : IsList(o) /\ q = Append(o, h) /\ Len(o) = Len(q) - 1
          BY <3>2, LastOff
      <4>2. Len(o) \in Nat
          BY <4>1, Lengthened
      <4>3. n - 1 \in 0..(n - 1)
          BY <4>1, <4>2
      <4>4. PICK a : a = Reached(s, o)
          OBVIOUS
      <4>5. a.sn = 0
          BY <4>1, <4>3, <4>4
      <4>6. Climbed(a, h) = [fr |-> NoRoot, sr |-> NoRoot, fn |-> a.fn, sn |-> a.sn]
          BY <4>5, ClimbedIs
      <4>7. Reached(s, q) = Climbed(a, h)
          BY <4>1, <4>4, ReachedMore
      <4> QED BY <4>5, <4>6, <4>7
    <3> QED BY <3>1, <3>2
  <2>2. Nat \subseteq P
    <3> HIDE DEF P
    <3> QED BY <2>1, NatStrongInduction
  <2>3. PICK o, h : IsList(o) /\ p = Append(o, h) /\ Len(o) = Len(p) - 1
      BY <1>4, LastOff
  <2>4. PICK a : a = Reached(s, o)
      OBVIOUS
  <2>5. Len(o) \in Nat
      BY <2>3, Lengthened
  <2>6. a.sn = 0
      BY <2>2, <2>3, <2>4, <2>5
  <2>7. Climbed(a, h) = [fr |-> NoRoot, sr |-> NoRoot, fn |-> a.fn, sn |-> a.sn]
      BY <2>6, ClimbedIs
  <2>8. Reached(s, p) = Climbed(a, h)
      BY <2>3, <2>4, ReachedMore
  <2>9. RootsOf(Reached(s, p)) = <<NoRoot, NoRoot>>
      BY <2>6, <2>7, <2>8 DEF RootsOf
  <2> QED BY <1>1, <1>4, <2>9
<1> QED BY <1>3, <1>4

-----------------------------------------------------------------------------
(* Roots and audit paths.                                                    *)

\* The two logs have the same leaves from one index to another, but for one of them.
SameFrom(tlog, tlog2, from, to) == \A l \in (from + 1)..to : tlog[l] = tlog2[l]
SameBut(tlog, tlog2, from, to, but) == \A l \in (from + 1)..to : l = but \/ tlog[l] = tlog2[l]

\* Two trees have the same root exactly if they have the same leaves.
LEMMA MthEqual ==
    ASSUME NEW tlog, NEW tlog2, NEW from, NEW size, NEW upto, Spans(from, size, upto)
    PROVE  Mth(tlog, from, upto) = Mth(tlog2, from, upto) <=> SameFrom(tlog, tlog2, from, upto)
<1> DEFINE Equal(i, to) == Mth(tlog, i, to) = Mth(tlog2, i, to) <=> SameFrom(tlog, tlog2, i, to)
           P == {n \in Nat : \A i, to : Spans(i, n, to) => Equal(i, to)}
<1>1. \A n \in Nat : (\A i \in 0..(n - 1) : i \in P) => n \in P
  <2> HIDE DEF Equal
  <2> SUFFICES ASSUME NEW n \in Nat, \A i \in 0..(n - 1) : i \in P, NEW i, NEW to, Spans(i, n, to)
               PROVE  Equal(i, to)
      OBVIOUS
  <2>1. CASE n = 1
    <3>1. i \in Nat /\ to = i + n
        BY DEF Spans
    <3>2. Mth(tlog, i, i + n) = LeafHash(tlog[i + 1]) /\ Mth(tlog2, i, i + n) = LeafHash(tlog2[i + 1])
        BY <2>1, <3>1, MthIs
    <3>3. (i + 1)..to = {i + 1}
        BY <2>1, <3>1
    <3>4. SameFrom(tlog, tlog2, i, to) <=> tlog[i + 1] = tlog2[i + 1]
        BY <3>3 DEF SameFrom
    <3> QED BY <3>1, <3>2, <3>4, Hashes DEF Equal
  <2>2. CASE n # 1
    <3>1. PICK k, j, r : Splits(i, n, to, k, j, r)
        BY <2>2, SplitAt
    <3>2. /\ i \in Nat /\ to \in Nat /\ j \in Nat /\ k \in 0..(n - 1) /\ r \in 0..(n - 1)
          /\ j = i + k /\ to = j + r /\ Spans(i, k, j) /\ Spans(j, r, to)
        BY <3>1, SplitParts
    <3>3. Equal(i, j) /\ Equal(j, to)
        BY <3>2
    <3>4. /\ Mth(tlog, i, to) = Node(Mth(tlog, i, j), Mth(tlog, j, to))
          /\ Mth(tlog2, i, to) = Node(Mth(tlog2, i, j), Mth(tlog2, j, to))
        BY <3>1, MthParts
    <3>5. SameFrom(tlog, tlog2, i, to) <=> SameFrom(tlog, tlog2, i, j) /\ SameFrom(tlog, tlog2, j, to)
        BY <3>2 DEF SameFrom
    <3>6. Mth(tlog, i, to) = Mth(tlog2, i, to) <=>
            Mth(tlog, i, j) = Mth(tlog2, i, j) /\ Mth(tlog, j, to) = Mth(tlog2, j, to)
        BY <3>4, Hashes
    <3> QED BY <3>3, <3>5, <3>6 DEF Equal
  <2> QED BY <2>1, <2>2
<1>2. Nat \subseteq P
  <2> HIDE DEF P
  <2> QED BY <1>1, NatStrongInduction
<1>3. size \in Nat
    BY DEF Spans
<1>4. Equal(from, upto)
  <2> HIDE DEF Equal
  <2> QED BY <1>2, <1>3
<1> QED BY <1>4

\* The root of a tree with leaves is a hash of one.
LEMMA MthIsRoot ==
    ASSUME NEW tlog, NEW i, NEW n, NEW to, Spans(i, n, to)
    PROVE  Mth(tlog, i, to) # NoRoot
<1>1. CASE n = 1
  <2>1. i \in Nat /\ to = i + n
      BY DEF Spans
  <2>2. Mth(tlog, i, i + n) = LeafHash(tlog[i + 1])
      BY <1>1, <2>1, MthIs
  <2> QED BY <2>1, <2>2, Hashes
<1>2. CASE n # 1
  <2>1. PICK k, j, r : Splits(i, n, to, k, j, r)
      BY <1>2, SplitAt
  <2>2. Mth(tlog, i, to) = Node(Mth(tlog, i, j), Mth(tlog, j, to))
      BY <2>1, MthParts
  <2> QED BY <2>2, Hashes
<1> QED BY <1>1, <1>2

\* A leaf of two parts is one of the left or one of the right.
LEMMA LeafInPart ==
    ASSUME NEW i, NEW n, NEW to, NEW k, NEW j, NEW r, Splits(i, n, to, k, j, r), NEW m \in 0..(n - 1)
    PROVE  m \in 0..(k - 1) \/ \E a \in 0..(r - 1) : Beyond(m, a, k, r)
<1>1. k \in Nat /\ r \in Nat /\ n = k + r /\ k # 0
    BY SplitParts
<1>2. CASE m < k
    BY <1>1, <1>2
<1>3. CASE m >= k
  <2>1. PICK a : a = m - k
      OBVIOUS
  <2>2. Beyond(m, a, k, r) /\ a \in 0..(r - 1)
      BY <1>1, <1>3, <2>1 DEF Beyond
  <2> QED BY <2>2
<1> QED BY <1>1, <1>2, <1>3

\* An audit path is a list.
LEMMA PathIsList ==
    ASSUME NEW tlog, NEW from, NEW size, NEW upto, Spans(from, size, upto), NEW leaf \in 0..(size - 1)
    PROVE  IsList(Path(tlog, leaf, from, upto))
<1> DEFINE P == {n \in Nat : \A i, to, m : Spans(i, n, to) /\ m \in 0..(n - 1) => IsList(Path(tlog, m, i, to))}
<1>1. \A n \in Nat : (\A i \in 0..(n - 1) : i \in P) => n \in P
  <2> SUFFICES ASSUME NEW n \in Nat, \A i \in 0..(n - 1) : i \in P,
                      NEW i, NEW to, NEW m, Spans(i, n, to), m \in 0..(n - 1)
               PROVE  IsList(Path(tlog, m, i, to))
      OBVIOUS
  <2>1. CASE n = 1
    <3>1. m = 0 /\ i \in Nat /\ to = i + 1
        BY <2>1 DEF Spans
    <3>2. Path(tlog, 0, i, to) = <<>>
        BY <3>1, PathOne
    <3> QED BY <3>1, <3>2, ShortLists
  <2>2. CASE n # 1
    <3>1. PICK k, j, r : Splits(i, n, to, k, j, r)
        BY <2>2, SplitAt
    <3>2. k \in 0..(n - 1) /\ r \in 0..(n - 1) /\ Spans(i, k, j) /\ Spans(j, r, to)
        BY <3>1, SplitParts
    <3>3. CASE m \in 0..(k - 1)
      <4>1. IsList(Path(tlog, m, i, j))
          BY <3>2, <3>3
      <4>2. Path(tlog, m, i, to) = Append(Path(tlog, m, i, j), Mth(tlog, j, to))
          BY <3>1, <3>3, PathLeft
      <4> QED BY <4>1, <4>2, Lengthened
    <3>4. ASSUME NEW a \in 0..(r - 1), Beyond(m, a, k, r) PROVE IsList(Path(tlog, m, i, to))
      <4>1. IsList(Path(tlog, a, j, to))
          BY <3>2
      <4>2. Path(tlog, m, i, to) = Append(Path(tlog, a, j, to), Mth(tlog, i, j))
          BY <3>1, <3>4, PathRight
      <4> QED BY <4>1, <4>2, Lengthened
    <3> QED BY <3>1, <3>3, <3>4, LeafInPart
  <2> QED BY <2>1, <2>2
<1>2. Nat \subseteq P
  <2> HIDE DEF P
  <2> QED BY <1>1, NatStrongInduction
<1>3. size \in Nat
    BY DEF Spans
<1> QED BY <1>2, <1>3

\* The audit paths of a leaf in two logs are equal exactly if all other leaves are.
LEMMA PathEqual ==
    ASSUME NEW tlog, NEW tlog2, NEW from, NEW size, NEW upto, Spans(from, size, upto), NEW leaf \in 0..(size - 1)
    PROVE  Path(tlog, leaf, from, upto) = Path(tlog2, leaf, from, upto)
             <=> SameBut(tlog, tlog2, from, upto, from + leaf + 1)
<1> DEFINE Equal(m, i, to) == Path(tlog, m, i, to) = Path(tlog2, m, i, to)
                                <=> SameBut(tlog, tlog2, i, to, i + m + 1)
           P == {n \in Nat : \A i, to, m : Spans(i, n, to) /\ m \in 0..(n - 1) => Equal(m, i, to)}
<1>1. \A n \in Nat : (\A i \in 0..(n - 1) : i \in P) => n \in P
  <2> HIDE DEF Equal
  <2> SUFFICES ASSUME NEW n \in Nat, \A i \in 0..(n - 1) : i \in P,
                      NEW i, NEW to, NEW m, Spans(i, n, to), m \in 0..(n - 1)
               PROVE  Equal(m, i, to)
      OBVIOUS
  <2>1. CASE n = 1
    <3>1. m = 0 /\ i \in Nat /\ to = i + 1
        BY <2>1 DEF Spans
    <3>2. Path(tlog, 0, i, to) = <<>> /\ Path(tlog2, 0, i, to) = <<>>
        BY <3>1, PathOne
    <3>3. SameBut(tlog, tlog2, i, to, i + m + 1)
        BY <3>1 DEF SameBut
    <3> QED BY <3>1, <3>2, <3>3 DEF Equal
  <2>2. CASE n # 1
    <3>1. PICK k, j, r : Splits(i, n, to, k, j, r)
        BY <2>2, SplitAt
    <3>2. /\ i \in Nat /\ to \in Nat /\ j \in Nat /\ k \in Nat /\ r \in Nat
          /\ k \in 0..(n - 1) /\ r \in 0..(n - 1)
          /\ j = i + k /\ to = j + r /\ Spans(i, k, j) /\ Spans(j, r, to)
        BY <3>1, SplitParts
    <3>3. PICK l : l = i + m + 1
        OBVIOUS
    <3>4. CASE m \in 0..(k - 1)
      <4>1. Equal(m, i, j)
          BY <3>2, <3>4
      <4>2. Path(tlog, m, i, j) = Path(tlog2, m, i, j) <=> SameBut(tlog, tlog2, i, j, l)
          BY <3>3, <4>1 DEF Equal
      <4>3. Mth(tlog, j, to) = Mth(tlog2, j, to) <=> SameFrom(tlog, tlog2, j, to)
          BY <3>2, MthEqual
      <4>4. l \in (i + 1)..j
          BY <3>2, <3>3, <3>4
      <4>5. SameBut(tlog, tlog2, i, to, l) <=> SameBut(tlog, tlog2, i, j, l) /\ SameFrom(tlog, tlog2, j, to)
          BY <3>2, <4>4 DEF SameBut, SameFrom
      <4>6. /\ Path(tlog, m, i, to) = Append(Path(tlog, m, i, j), Mth(tlog, j, to))
            /\ Path(tlog2, m, i, to) = Append(Path(tlog2, m, i, j), Mth(tlog2, j, to))
          BY <3>1, <3>4, PathLeft
      <4>7. IsList(Path(tlog, m, i, j)) /\ IsList(Path(tlog2, m, i, j))
          BY <3>2, <3>4, PathIsList
      <4>8. Path(tlog, m, i, to) = Path(tlog2, m, i, to) <=>
               Path(tlog, m, i, j) = Path(tlog2, m, i, j) /\ Mth(tlog, j, to) = Mth(tlog2, j, to)
          BY <4>6, <4>7, LengthenedEqual
      <4>9. Path(tlog, m, i, to) = Path(tlog2, m, i, to) <=> SameBut(tlog, tlog2, i, to, l)
          BY <4>2, <4>3, <4>5, <4>8
      <4> QED BY <3>3, <4>9 DEF Equal
    <3>5. ASSUME NEW a \in 0..(r - 1), Beyond(m, a, k, r) PROVE Equal(m, i, to)
      <4>1. Equal(a, j, to)
          BY <3>2
      <4>2. m \in Nat /\ m = a + k /\ a \in Nat /\ a < r /\ l = j + a + 1
          BY <3>2, <3>3, <3>5 DEF Beyond
      <4>3. Path(tlog, a, j, to) = Path(tlog2, a, j, to) <=> SameBut(tlog, tlog2, j, to, l)
          BY <4>1, <4>2 DEF Equal
      <4>4. Mth(tlog, i, j) = Mth(tlog2, i, j) <=> SameFrom(tlog, tlog2, i, j)
          BY <3>2, MthEqual
      <4>5. l \in (j + 1)..to
          BY <3>2, <4>2
      <4>6. SameBut(tlog, tlog2, i, to, l) <=> SameBut(tlog, tlog2, j, to, l) /\ SameFrom(tlog, tlog2, i, j)
          BY <3>2, <4>5 DEF SameBut, SameFrom
      <4>7. /\ Path(tlog, m, i, to) = Append(Path(tlog, a, j, to), Mth(tlog, i, j))
            /\ Path(tlog2, m, i, to) = Append(Path(tlog2, a, j, to), Mth(tlog2, i, j))
          BY <3>1, <3>5, PathRight
      <4>8. IsList(Path(tlog, a, j, to)) /\ IsList(Path(tlog2, a, j, to))
          BY <3>2, PathIsList
      <4>9. Path(tlog, m, i, to) = Path(tlog2, m, i, to) <=>
               Path(tlog, a, j, to) = Path(tlog2, a, j, to) /\ Mth(tlog, i, j) = Mth(tlog2, i, j)
          BY <4>7, <4>8, LengthenedEqual
      <4>10. Path(tlog, m, i, to) = Path(tlog2, m, i, to) <=> SameBut(tlog, tlog2, i, to, l)
          BY <4>3, <4>4, <4>6, <4>9
      <4> QED BY <3>3, <4>10 DEF Equal
    <3> QED BY <3>1, <3>4, <3>5, LeafInPart
  <2> QED BY <2>1, <2>2
<1>2. Nat \subseteq P
  <2> HIDE DEF P
  <2> QED BY <1>1, NatStrongInduction
<1>3. size \in Nat
    BY DEF Spans
<1>4. Equal(leaf, from, upto)
  <2> HIDE DEF Equal
  <2> QED BY <1>2, <1>3
<1> QED BY <1>4

-----------------------------------------------------------------------------
(* Inclusion.                                                                *)

\* A leaf of the left part starts both climbs at the same index.
LEMMA LeftStart ==
    ASSUME NEW i, NEW n, NEW to, NEW k, NEW j, NEW r, Splits(i, n, to, k, j, r),
           NEW m \in 0..(k - 1), NEW h, h # NoRoot
    PROVE  InLeft(Start(h, m, k - 1), Start(h, m, n - 1))
<1>1. k \in Nat /\ r \in Nat /\ n = k + r /\ k # 0 /\ r # 0 /\ r <= k /\ IsPower(k)
    BY SplitParts
<1>2. k - 1 \in 0..(k - 1) /\ n - 1 \in k..(2 * k - 1)
    BY <1>1
<1> QED BY <1>1, <1>2 DEF InLeft, Start

\* One of the right part starts them as many leaves apart as the left has.
LEMMA RightStart ==
    ASSUME NEW i, NEW n, NEW to, NEW k, NEW j, NEW r, Splits(i, n, to, k, j, r),
           NEW m, NEW a, Beyond(m, a, k, r), NEW h, h # NoRoot
    PROVE  InRight(Start(h, a, r - 1), Start(h, m, n - 1))
<1>1. k \in Nat /\ r \in Nat /\ n = k + r /\ k # 0 /\ r # 0 /\ r <= k /\ IsPower(k)
    BY SplitParts
<1>2. m = a + k /\ a \in 0..(r - 1)
    BY DEF Beyond
<1>3. r - 1 \in 0..(k - 1) /\ n - 1 = (r - 1) + k
    BY <1>1
<1> QED BY <1>1, <1>2, <1>3 DEF InRight, Start

\* A climb leads to the root of a tree exactly if it starts from the leaf at its index
\* and takes that leaf's audit path.
LEMMA ClimbExact ==
    ASSUME NEW tlog, NEW from, NEW size, NEW upto, Spans(from, size, upto), NEW leaf \in 0..(size - 1),
           NEW h, h # NoRoot, NEW p, IsList(p)
    PROVE  ClimbBoth(h, leaf, size - 1, p)[2] = Mth(tlog, from, upto)
             <=> h = LeafHash(tlog[from + leaf + 1]) /\ p = Path(tlog, leaf, from, upto)
<1> DEFINE Exact(m, i, n, to, q) ==
             RootsOf(Reached(Start(h, m, n - 1), q))[2] = Mth(tlog, i, to)
               <=> h = LeafHash(tlog[i + m + 1]) /\ q = Path(tlog, m, i, to)
           P == {n \in Nat : \A i, to, m, q : Spans(i, n, to) /\ m \in 0..(n - 1) /\ IsList(q)
                                                => Exact(m, i, n, to, q)}
<1>1. \A n \in Nat : (\A i \in 0..(n - 1) : i \in P) => n \in P
  <2> HIDE DEF Exact
  <2> SUFFICES ASSUME NEW n \in Nat, \A i \in 0..(n - 1) : i \in P,
                      NEW i, NEW to, NEW m, NEW q, Spans(i, n, to), m \in 0..(n - 1), IsList(q)
               PROVE  Exact(m, i, n, to, q)
      OBVIOUS
  <2>1. CASE n = 1
    <3>1. m = 0 /\ i \in Nat /\ to = i + n /\ to = i + 1 /\ i + m + 1 = i + 1 /\ n - 1 = 0
        BY <2>1 DEF Spans
    <3>2. Path(tlog, m, i, to) = <<>>
        BY <3>1, PathOne
    <3>3. Mth(tlog, i, to) = LeafHash(tlog[i + 1])
        BY <2>1, <3>1, MthIs
    <3>4. CASE q = <<>>
      <4>1. RootsOf(Reached(Start(h, m, 0), q)) = <<h, h>>
          BY <3>4, ClimbFromRoot
      <4>2. RootsOf(Reached(Start(h, m, n - 1), q))[2] = h
          BY <3>1, <4>1
      <4> QED BY <3>1, <3>2, <3>3, <3>4, <4>2 DEF Exact
    <3>5. CASE q # <<>>
      <4>1. RootsOf(Reached(Start(h, m, 0), q)) = <<NoRoot, NoRoot>>
          BY <3>5, ClimbFromRoot
      <4>2. RootsOf(Reached(Start(h, m, n - 1), q))[2] = NoRoot
          BY <3>1, <4>1
      <4>3. NoRoot # Mth(tlog, i, to)
          BY <3>3, Hashes
      <4> QED BY <3>2, <3>5, <4>2, <4>3 DEF Exact
    <3> QED BY <3>4, <3>5
  <2>2. CASE n # 1
    <3>1. PICK k, j, r : Splits(i, n, to, k, j, r)
        BY <2>2, SplitAt
    <3>2. /\ i \in Nat /\ to \in Nat /\ j \in Nat /\ k \in Nat /\ r \in Nat
          /\ k \in 0..(n - 1) /\ r \in 0..(n - 1) /\ n >= 2
          /\ j = i + k /\ to = j + r /\ Spans(i, k, j) /\ Spans(j, r, to)
        BY <3>1, SplitParts
    <3>3. Mth(tlog, i, to) = Node(Mth(tlog, i, j), Mth(tlog, j, to))
        BY <3>1, MthParts
    <3>4. Mth(tlog, i, j) # NoRoot /\ Mth(tlog, j, to) # NoRoot /\ Mth(tlog, i, to) # NoRoot
        BY <3>2, MthIsRoot
    <3>5. CASE m \in 0..(k - 1)
      <4>1. Path(tlog, m, i, to) = Append(Path(tlog, m, i, j), Mth(tlog, j, to))
          BY <3>1, <3>5, PathLeft
      <4>2. IsList(Path(tlog, m, i, j))
          BY <3>2, <3>5, PathIsList
      <4>3. InLeft(Start(h, m, k - 1), Start(h, m, n - 1))
          BY <3>1, <3>5, LeftStart
      <4>4. CASE q = <<>>
        <5>1. Path(tlog, m, i, to) # q
            BY <4>1, <4>2, <4>4, Lengthened
        <5>2. Reached(Start(h, m, n - 1), q).sn = n - 1
            BY <4>4, ReachedNone DEF Start
        <5>3. RootsOf(Reached(Start(h, m, n - 1), q))[2] = NoRoot
            BY <3>2, <5>2 DEF RootsOf
        <5> QED BY <3>4, <5>1, <5>3 DEF Exact
      <4>5. CASE q # <<>>
        <5>1. PICK o, g : IsList(o) /\ q = Append(o, g)
            BY <4>5, LastOff
        <5>2. PICK c : c = RootsOf(Reached(Start(h, m, k - 1), o))
            OBVIOUS
        <5>3. Exact(m, i, k, j, o)
            BY <3>2, <3>5, <5>1
        <5>4. c[2] = Mth(tlog, i, j) <=> h = LeafHash(tlog[i + m + 1]) /\ o = Path(tlog, m, i, j)
            BY <5>2, <5>3 DEF Exact
        <5>5. q = Path(tlog, m, i, to) <=> o = Path(tlog, m, i, j) /\ g = Mth(tlog, j, to)
            BY <4>1, <4>2, <5>1, LengthenedEqual
        <5>6. PICK e : e = RootsOf(Reached(Start(h, m, n - 1), q))
            OBVIOUS
        <5>7. /\ c[2] = NoRoot => e = <<NoRoot, NoRoot>>
              /\ c[2] # NoRoot => e = <<c[1], Node(c[2], g)>>
            BY <4>3, <5>1, <5>2, <5>6, LeftClimb
        <5>8. e[2] = Mth(tlog, i, to) <=> c[2] = Mth(tlog, i, j) /\ g = Mth(tlog, j, to)
          <6>1. CASE c[2] = NoRoot
              BY <3>4, <5>7, <6>1
          <6>2. CASE c[2] # NoRoot
            <7>1. e[2] = Node(c[2], g)
                BY <5>7, <6>2
            <7> QED BY <3>3, <7>1, Hashes
          <6> QED BY <6>1, <6>2
        <5> QED BY <5>4, <5>5, <5>6, <5>8 DEF Exact
      <4> QED BY <4>4, <4>5
    <3>6. ASSUME NEW a \in 0..(r - 1), Beyond(m, a, k, r) PROVE Exact(m, i, n, to, q)
      <4>1. Path(tlog, m, i, to) = Append(Path(tlog, a, j, to), Mth(tlog, i, j))
          BY <3>1, <3>6, PathRight
      <4>2. IsList(Path(tlog, a, j, to))
          BY <3>2, PathIsList
      <4>3. InRight(Start(h, a, r - 1), Start(h, m, n - 1))
          BY <3>1, <3>6, RightStart
      <4>4. CASE q = <<>>
        <5>1. Path(tlog, m, i, to) # q
            BY <4>1, <4>2, <4>4, Lengthened
        <5>2. Reached(Start(h, m, n - 1), q).sn = n - 1
            BY <4>4, ReachedNone DEF Start
        <5>3. RootsOf(Reached(Start(h, m, n - 1), q))[2] = NoRoot
            BY <3>2, <5>2 DEF RootsOf
        <5> QED BY <3>4, <5>1, <5>3 DEF Exact
      <4>5. CASE q # <<>>
        <5>1. PICK o, g : IsList(o) /\ q = Append(o, g)
            BY <4>5, LastOff
        <5>2. PICK c : c = RootsOf(Reached(Start(h, a, r - 1), o))
            OBVIOUS
        <5>3. Exact(a, j, r, to, o)
            BY <3>2, <5>1
        <5>4. j + a + 1 = i + m + 1
            BY <3>2, <3>6 DEF Beyond
        <5>5. c[2] = Mth(tlog, j, to) <=> h = LeafHash(tlog[i + m + 1]) /\ o = Path(tlog, a, j, to)
            BY <5>2, <5>3, <5>4 DEF Exact
        <5>6. q = Path(tlog, m, i, to) <=> o = Path(tlog, a, j, to) /\ g = Mth(tlog, i, j)
            BY <4>1, <4>2, <5>1, LengthenedEqual
        <5>7. PICK e : e = RootsOf(Reached(Start(h, m, n - 1), q))
            OBVIOUS
        <5>8. /\ c[2] = NoRoot => e = <<NoRoot, NoRoot>>
              /\ c[2] # NoRoot => e = <<Node(g, c[1]), Node(g, c[2])>>
            BY <4>3, <5>1, <5>2, <5>7, RightClimb
        <5>9. e[2] = Mth(tlog, i, to) <=> g = Mth(tlog, i, j) /\ c[2] = Mth(tlog, j, to)
          <6>1. CASE c[2] = NoRoot
              BY <3>4, <5>8, <6>1
          <6>2. CASE c[2] # NoRoot
            <7>1. e[2] = Node(g, c[2])
                BY <5>8, <6>2
            <7> QED BY <3>3, <7>1, Hashes
          <6> QED BY <6>1, <6>2
        <5> QED BY <5>5, <5>6, <5>7, <5>9 DEF Exact
      <4> QED BY <4>4, <4>5
    <3> QED BY <3>1, <3>5, <3>6, LeafInPart
  <2> QED BY <2>1, <2>2
<1>2. Nat \subseteq P
  <2> HIDE DEF P
  <2> QED BY <1>1, NatStrongInduction
<1>3. size \in Nat
    BY DEF Spans
<1>4. Exact(leaf, from, size, upto, p)
  <2> HIDE DEF Exact
  <2> QED BY <1>2, <1>3
<1> QED BY <1>4, ClimbBothIs

-----------------------------------------------------------------------------
(* Consistency.                                                              *)

\* The first node that is a left child is below the left part's root, in both trees.
LEMMA LeftRightmost ==
    ASSUME NEW fn \in Nat, NEW h, h # NoRoot
    PROVE  \A k, tn \in Nat :
             k # 0 /\ IsPower(k) /\ fn \in 0..(k - 1) /\ tn \in k..(2 * k - 1) =>
               InLeft(Start(h, Rightmost[fn][k - 1][1], Rightmost[fn][k - 1][2]),
                      Start(h, Rightmost[fn][tn][1], Rightmost[fn][tn][2]))
<1> DEFINE From(f, k, tn) ==
             InLeft(Start(h, Rightmost[f][k - 1][1], Rightmost[f][k - 1][2]),
                    Start(h, Rightmost[f][tn][1], Rightmost[f][tn][2]))
           P == {f \in Nat : \A k, tn \in Nat :
                   k # 0 /\ IsPower(k) /\ f \in 0..(k - 1) /\ tn \in k..(2 * k - 1) => From(f, k, tn)}
<1>1. \A f \in Nat : (\A i \in 0..(f - 1) : i \in P) => f \in P
  <2> HIDE DEF From
  <2> SUFFICES ASSUME NEW f \in Nat, \A i \in 0..(f - 1) : i \in P,
                      NEW k \in Nat, NEW tn \in Nat,
                      k # 0, IsPower(k), f \in 0..(k - 1), tn \in k..(2 * k - 1)
               PROVE  From(f, k, tn)
      OBVIOUS
  <2>0. k - 1 \in Nat
      OBVIOUS
  <2>1. CASE Odd(f)
    <3>1. PICK g, t : g = f \div 2 /\ t = tn \div 2
        OBVIOUS
    <3>2. g \in Nat /\ f = 2 * g + 1
        BY <2>1, <3>1, Halves
    <3>3. t \in Nat /\ (tn = 2 * t \/ tn = 2 * t + 1)
        BY <3>1, Halves
    <3>4. PICK c \in Nat : c # 0 /\ k = 2 * c /\ IsPower(c)
        BY <3>2, PowerFacts
    <3>5. g \in 0..(c - 1) /\ t \in c..(2 * c - 1) /\ g \in 0..(f - 1) /\ c - 1 \in Nat
        BY <3>2, <3>3, <3>4
    <3>6. From(g, c, t)
        BY <3>3, <3>4, <3>5
    <3>7. (k - 1) \div 2 = c - 1
      <4>1. PICK s : s = k - 1
          OBVIOUS
      <4>2. s \in Nat /\ s = 2 * (c - 1) + 1
          BY <3>4, <3>5, <4>1
      <4>3. s \div 2 = c - 1
          BY <3>5, <4>2, HalfOf
      <4> QED BY <4>1, <4>3
    <3>8. Rightmost[f][k - 1] = Rightmost[g][c - 1]
        BY <2>0, <2>1, <3>1, <3>7, RightmostUnfold
    <3>9. Rightmost[f][tn] = Rightmost[g][t]
        BY <2>1, <3>1, RightmostUnfold
    <3> QED BY <3>6, <3>8, <3>9 DEF From
  <2>2. CASE ~Odd(f)
    <3>1. Rightmost[f][k - 1] = <<f, k - 1>> /\ Rightmost[f][tn] = <<f, tn>>
        BY <2>0, <2>2, RightmostUnfold
    <3>2. InLeft(Start(h, f, k - 1), Start(h, f, tn))
        BY DEF InLeft, Start
    <3> QED BY <3>1, <3>2 DEF From
  <2> QED BY <2>1, <2>2
<1>2. Nat \subseteq P
  <2> HIDE DEF P
  <2> QED BY <1>1, NatStrongInduction
<1> QED BY <1>2

\* And below the right part's root, if it is not the last node.
LEMMA RightRightmost ==
    ASSUME NEW fn \in Nat, NEW h, h # NoRoot
    PROVE  \A sn, k, gn, tn \in Nat :
             IsPower(k) /\ fn < sn /\ sn < k /\ gn = fn + k /\ tn = sn + k =>
               InRight(Start(h, Rightmost[fn][sn][1], Rightmost[fn][sn][2]),
                       Start(h, Rightmost[gn][tn][1], Rightmost[gn][tn][2]))
<1> DEFINE From(f, sn, gn, tn) ==
             InRight(Start(h, Rightmost[f][sn][1], Rightmost[f][sn][2]),
                     Start(h, Rightmost[gn][tn][1], Rightmost[gn][tn][2]))
           P == {f \in Nat : \A sn, k, gn, tn \in Nat :
                   IsPower(k) /\ f < sn /\ sn < k /\ gn = f + k /\ tn = sn + k => From(f, sn, gn, tn)}
<1>1. \A f \in Nat : (\A i \in 0..(f - 1) : i \in P) => f \in P
  <2> HIDE DEF From
  <2> SUFFICES ASSUME NEW f \in Nat, \A i \in 0..(f - 1) : i \in P,
                      NEW sn \in Nat, NEW k \in Nat, NEW gn \in Nat, NEW tn \in Nat,
                      IsPower(k), f < sn, sn < k, gn = f + k, tn = sn + k
               PROVE  From(f, sn, gn, tn)
      OBVIOUS
  <2>1. PICK c \in Nat : c # 0 /\ k = 2 * c /\ IsPower(c)
      BY PowerFacts
  <2>2. CASE Odd(f)
    <3>1. PICK g, s : g = f \div 2 /\ s = sn \div 2
        OBVIOUS
    <3>2. g \in Nat /\ f = 2 * g + 1
        BY <2>2, <3>1, Halves
    <3>3. s \in Nat /\ (sn = 2 * s \/ sn = 2 * s + 1)
        BY <3>1, Halves
    <3>4. PICK u, v : u = g + c /\ v = s + c
        OBVIOUS
    <3>5. /\ u \in Nat /\ v \in Nat /\ g < s /\ s < c /\ g \in 0..(f - 1)
          /\ gn = 2 * u + 1 /\ (tn = 2 * v \/ tn = 2 * v + 1)
        BY <2>1, <3>2, <3>3, <3>4
    <3>6. From(g, s, u, v)
        BY <2>1, <3>3, <3>4, <3>5
    <3>7. gn \div 2 = u /\ Odd(gn) /\ tn \div 2 = v
        BY <3>5, HalfOf
    <3>8. Rightmost[f][sn] = Rightmost[g][s]
        BY <2>2, <3>1, RightmostUnfold
    <3>9. Rightmost[gn][tn] = Rightmost[u][v]
        BY <3>7, RightmostUnfold
    <3> QED BY <3>6, <3>8, <3>9 DEF From
  <2>3. CASE ~Odd(f)
    <3>1. PICK g : g = f \div 2
        OBVIOUS
    <3>2. g \in Nat /\ f = 2 * g
        BY <2>3, <3>1, Halves
    <3>3. g + c \in Nat /\ gn = 2 * (g + c)
        BY <2>1, <3>2
    <3>4. ~Odd(gn)
        BY <3>3, HalfOf
    <3>5. Rightmost[f][sn] = <<f, sn>> /\ Rightmost[gn][tn] = <<gn, tn>>
        BY <2>3, <3>4, RightmostUnfold
    <3>6. sn \in 0..(k - 1) /\ f \in 0..sn /\ k # 0
        OBVIOUS
    <3>7. InRight(Start(h, f, sn), Start(h, gn, tn))
        BY <3>6 DEF InRight, Start
    <3> QED BY <3>5, <3>7 DEF From
  <2> QED BY <2>2, <2>3
<1>2. Nat \subseteq P
  <2> HIDE DEF P
  <2> QED BY <1>1, NatStrongInduction
<1> QED BY <1>2

\* The last leaf of a full tree is below the root only by right children.
LEMMA PowerRightmost ==
    ASSUME NEW size \in Nat, size # 0, IsPower(size)
    PROVE  Rightmost[size - 1][size - 1] = <<0, 0>>
<1> DEFINE P == {n \in Nat : n # 0 /\ IsPower(n) => Rightmost[n - 1][n - 1] = <<0, 0>>}
<1>1. \A n \in Nat : (\A i \in 0..(n - 1) : i \in P) => n \in P
  <2> SUFFICES ASSUME NEW n \in Nat, \A i \in 0..(n - 1) : i \in P, n # 0, IsPower(n)
               PROVE  Rightmost[n - 1][n - 1] = <<0, 0>>
      OBVIOUS
  <2>1. CASE n = 1
    <3>1. ~Odd(0)
      <4>1. 0 = 2 * 0
          OBVIOUS
      <4> QED BY <4>1, HalfOf
    <3>2. n - 1 = 0
        BY <2>1
    <3> QED BY <3>1, <3>2, RightmostUnfold
  <2>2. CASE n # 1
    <3>1. PICK c \in Nat : c # 0 /\ n = 2 * c /\ IsPower(c)
        BY <2>2, PowerFacts
    <3>2. PICK f, g : f = n - 1 /\ g = c - 1
        OBVIOUS
    <3>3. f \in Nat /\ g \in Nat /\ f = 2 * g + 1 /\ c \in 0..(n - 1)
        BY <3>1, <3>2
    <3>4. f \div 2 = g /\ Odd(f)
        BY <3>3, HalfOf
    <3>5. Rightmost[f][f] = Rightmost[g][g]
        BY <3>3, <3>4, RightmostUnfold
    <3>6. Rightmost[c - 1][c - 1] = <<0, 0>>
        BY <3>1, <3>3
    <3> QED BY <3>2, <3>5, <3>6
  <2> QED BY <2>1, <2>2
<1>2. Nat \subseteq P
  <2> HIDE DEF P
  <2> QED BY <1>1, NatStrongInduction
<1> QED BY <1>2

\* The verifier puts the first root before the proof, if the first tree is full.
Seeded(m, whole) == whole /\ IsPower(m)
Completed(tlog, m, i, to, whole, s) ==
    IF Seeded(m, whole) THEN <<s>> \o Subproof(tlog, m, i, to, whole) ELSE Subproof(tlog, m, i, to, whole)

\* The roots a climb ends with, from the first hash h of a consistency proof of the first
\* m of n leaves along the others.
Ends(m, n, h, q) == RootsOf(Reached(Start(h, Rightmost[m - 1][n - 1][1], Rightmost[m - 1][n - 1][2]), q))

\* They are those of the first leaves and of all leaves, where the climb starts from a
\* hash of the log's; from another hash s, that hash and no root of the log's.
EndsAre(tlog, m, i, to, mid, whole, s, e) ==
    /\ ~Seeded(m, whole) => e = <<Mth(tlog, i, mid), Mth(tlog, i, to)>>
    /\ Seeded(m, whole) =>
         /\ e = <<s, e[2]>> /\ e[2] # NoRoot
         /\ e[2] = Mth(tlog, i, to) <=> s = Mth(tlog, i, mid)

Proven(tlog, m, i, n, to, mid, whole, s) ==
    /\ IsList(Subproof(tlog, m, i, to, whole))
    /\ \E h, q : /\ h # NoRoot /\ IsList(q)
                 /\ Completed(tlog, m, i, to, whole, s) = <<h>> \o q
                 /\ EndsAre(tlog, m, i, to, mid, whole, s, Ends(m, n, h, q))

\* A consistency proof of all leaves of a full tree.
LEMMA ProvenWhole ==
    ASSUME NEW tlog, NEW i, NEW n, NEW to, Spans(i, n, to), IsPower(n),
           NEW whole \in BOOLEAN, NEW s, s # NoRoot
    PROVE  Proven(tlog, n, i, n, to, to, whole, s)
<1>1. i \in Nat /\ n \in Nat /\ n # 0 /\ to = i + n
    BY DEF Spans
<1>2. Subproof(tlog, n, i, to, whole) = IF whole THEN <<>> ELSE <<Mth(tlog, i, to)>>
    BY <1>1, SubproofWhole
<1>3. IsList(Subproof(tlog, n, i, to, whole))
    BY <1>2, ShortLists
<1>4. PICK h : h = IF whole THEN s ELSE Mth(tlog, i, to)
    OBVIOUS
<1>5. h # NoRoot
    BY <1>4, MthIsRoot
<1>6. <<h>> \o <<>> = <<h>>
    BY ShortLists, Preceded
<1>7. Completed(tlog, n, i, to, whole, s) = <<h>> \o <<>>
  <2>1. CASE whole
      BY <1>2, <1>4, <2>1 DEF Completed, Seeded
  <2>2. CASE ~whole
      BY <1>2, <1>4, <1>6, <2>2 DEF Completed, Seeded
  <2> QED BY <2>1, <2>2
<1>8. Ends(n, n, h, <<>>) = <<h, h>>
  <2>1. Rightmost[n - 1][n - 1] = <<0, 0>>
      BY <1>1, PowerRightmost
  <2>2. RootsOf(Reached(Start(h, 0, 0), <<>>)) = <<h, h>>
      BY ShortLists, ClimbFromRoot
  <2> QED BY <2>1, <2>2 DEF Ends
<1>9. EndsAre(tlog, n, i, to, to, whole, s, Ends(n, n, h, <<>>))
  <2>1. CASE whole
      BY <1>4, <1>8, <2>1 DEF EndsAre, Seeded
  <2>2. CASE ~whole
      BY <1>4, <1>8, <2>2 DEF EndsAre, Seeded
  <2> QED BY <2>1, <2>2
<1> QED BY <1>3, <1>5, <1>7, <1>9, ShortLists DEF Proven

\* One of leaves that end in the left part, from that part's.
LEMMA ProvenLeft ==
    ASSUME NEW tlog, NEW i, NEW n, NEW to, NEW k, NEW j, NEW r, Splits(i, n, to, k, j, r),
           NEW m \in 1..k, NEW mid, NEW whole \in BOOLEAN, NEW s, s # NoRoot,
           Proven(tlog, m, i, k, j, mid, whole, s)
    PROVE  Proven(tlog, m, i, n, to, mid, whole, s)
<1>1. /\ k \in Nat /\ r \in Nat /\ n = k + r /\ k # 0 /\ r # 0 /\ r <= k /\ IsPower(k)
      /\ Spans(i, k, j) /\ Spans(j, r, to)
    BY SplitParts
<1>2. PICK x : x = Mth(tlog, j, to)
    OBVIOUS
<1>3. PICK o : o = Subproof(tlog, m, i, j, whole)
    OBVIOUS
<1>4. Subproof(tlog, m, i, to, whole) = Append(o, x)
    BY <1>2, <1>3, SubproofLeft
<1>5. IsList(o)
    BY <1>3 DEF Proven
<1>6. IsList(Append(o, x))
    BY <1>5, Lengthened
<1>7. PICK h, q : /\ h # NoRoot /\ IsList(q)
                  /\ Completed(tlog, m, i, j, whole, s) = <<h>> \o q
                  /\ EndsAre(tlog, m, i, j, mid, whole, s, Ends(m, k, h, q))
    BY DEF Proven
<1>8. Completed(tlog, m, i, to, whole, s) = <<h>> \o Append(q, x)
  <2>1. Append(<<h>> \o q, x) = <<h>> \o Append(q, x)
      BY <1>7, Preceded
  <2>2. CASE Seeded(m, whole)
    <3>1. <<s>> \o Append(o, x) = Append(<<s>> \o o, x)
        BY <1>5, Preceded
    <3>2. <<s>> \o o = <<h>> \o q
        BY <1>3, <1>7, <2>2 DEF Completed
    <3> QED BY <1>4, <2>1, <2>2, <3>1, <3>2 DEF Completed
  <2>3. CASE ~Seeded(m, whole)
      BY <1>3, <1>4, <1>7, <2>1, <2>3 DEF Completed
  <2> QED BY <2>2, <2>3
<1>9. PICK c, e : c = Ends(m, k, h, q) /\ e = Ends(m, n, h, Append(q, x))
    OBVIOUS
<1>10. /\ c[2] = NoRoot => e = <<NoRoot, NoRoot>>
       /\ c[2] # NoRoot => e = <<c[1], Node(c[2], x)>>
  <2>1. m - 1 \in Nat /\ m - 1 \in 0..(k - 1) /\ n - 1 \in k..(2 * k - 1) /\ n - 1 \in Nat
      BY <1>1
  <2>2. InLeft(Start(h, Rightmost[m - 1][k - 1][1], Rightmost[m - 1][k - 1][2]),
               Start(h, Rightmost[m - 1][n - 1][1], Rightmost[m - 1][n - 1][2]))
      BY <1>1, <1>7, <2>1, LeftRightmost
  <2>3. PICK part, tree :
          /\ part = Start(h, Rightmost[m - 1][k - 1][1], Rightmost[m - 1][k - 1][2])
          /\ tree = Start(h, Rightmost[m - 1][n - 1][1], Rightmost[m - 1][n - 1][2])
      OBVIOUS
  <2>4. c = RootsOf(Reached(part, q)) /\ e = RootsOf(Reached(tree, Append(q, x)))
      BY <1>9, <2>3, Zenon DEF Ends
  <2>5. InLeft(part, tree) /\ IsList(q)
      BY <1>7, <2>2, <2>3
  <2> QED BY <2>4, <2>5, LeftClimb
<1>11. EndsAre(tlog, m, i, j, mid, whole, s, c)
    BY <1>7, <1>9
<1>12. Mth(tlog, i, to) = Node(Mth(tlog, i, j), x)
    BY <1>2, MthParts
<1>13. EndsAre(tlog, m, i, to, mid, whole, s, e)
  <2>1. CASE ~Seeded(m, whole)
    <3>1. c = <<Mth(tlog, i, mid), Mth(tlog, i, j)>>
        BY <1>11, <2>1 DEF EndsAre
    <3>2. c[1] = Mth(tlog, i, mid) /\ c[2] = Mth(tlog, i, j) /\ c[2] # NoRoot
        BY <1>1, <3>1, MthIsRoot
    <3>3. e = <<Mth(tlog, i, mid), Mth(tlog, i, to)>>
        BY <1>10, <1>12, <3>2
    <3> QED BY <2>1, <3>3 DEF EndsAre
  <2>2. CASE Seeded(m, whole)
    <3>1. c[1] = s /\ c[2] # NoRoot /\ (c[2] = Mth(tlog, i, j) <=> s = Mth(tlog, i, mid))
        BY <1>11, <2>2 DEF EndsAre
    <3>2. e = <<s, Node(c[2], x)>>
        BY <1>10, <3>1
    <3>3. e[2] = Node(c[2], x) /\ e[2] # NoRoot
        BY <3>2, Hashes
    <3>4. e[2] = Mth(tlog, i, to) <=> c[2] = Mth(tlog, i, j)
        BY <1>12, <3>3, Hashes
    <3> QED BY <2>2, <3>1, <3>2, <3>3, <3>4 DEF EndsAre
  <2> QED BY <2>1, <2>2
<1>14. IsList(Append(q, x))
    BY <1>7, Lengthened
<1> QED BY <1>4, <1>6, <1>7, <1>8, <1>9, <1>13, <1>14 DEF Proven

\* A proof in the right part starts from a hash of the log's.
ProvenInPart(tlog, m, i, n, to, mid, s) == Proven(tlog, m, i, n, to, mid, FALSE, s)

\* One of leaves that end in the right part, before its end.
LEMMA ProvenRight ==
    ASSUME NEW tlog, NEW i, NEW n, NEW to, NEW k, NEW j, NEW r, Splits(i, n, to, k, j, r),
           NEW m, NEW a, Partly(m, a, k, r), NEW mid, Spans(i, m, mid),
           NEW whole \in BOOLEAN, NEW s, ProvenInPart(tlog, a, j, r, to, mid, s)
    PROVE  Proven(tlog, m, i, n, to, mid, whole, s)
<1>1. /\ i \in Nat /\ j \in Nat /\ k \in Nat /\ r \in Nat /\ n = k + r /\ k # 0 /\ r # 0 /\ r <= k
      /\ j = i + k /\ IsPower(k) /\ Spans(i, k, j) /\ Spans(j, r, to)
    BY SplitParts
<1>2. m \in Nat /\ a \in Nat /\ a # 0 /\ a < r /\ m = a + k /\ k < m /\ m < 2 * k /\ m >= 2 /\ mid = i + m
    BY <1>1 DEF Partly, Beyond, Spans
<1>3. ~IsPower(m)
    BY <1>1, <1>2, PowersApart
<1>4. ~Seeded(m, whole) /\ ~Seeded(a, FALSE)
    BY <1>3 DEF Seeded
<1>5. PICK x : x = Mth(tlog, i, j)
    OBVIOUS
<1>6. PICK o : o = PartSubproof(tlog, a, j, to)
    OBVIOUS
<1>7. Subproof(tlog, m, i, to, whole) = Append(o, x)
    BY <1>5, <1>6, SubproofRight
<1>8. IsList(o)
    BY <1>6 DEF ProvenInPart, Proven, PartSubproof
<1>9. IsList(Append(o, x))
    BY <1>8, Lengthened
<1>10. PICK h, q : /\ h # NoRoot /\ IsList(q)
                   /\ Completed(tlog, a, j, to, FALSE, s) = <<h>> \o q
                   /\ EndsAre(tlog, a, j, to, mid, FALSE, s, Ends(a, r, h, q))
    BY DEF ProvenInPart, Proven
<1>11. Completed(tlog, m, i, to, whole, s) = <<h>> \o Append(q, x)
  <2>1. Append(<<h>> \o q, x) = <<h>> \o Append(q, x)
      BY <1>10, Preceded
  <2>2. o = <<h>> \o q
      BY <1>4, <1>6, <1>10 DEF Completed, PartSubproof
  <2> QED BY <1>4, <1>7, <2>1, <2>2 DEF Completed
<1>12. PICK c, e : c = Ends(a, r, h, q) /\ e = Ends(m, n, h, Append(q, x))
    OBVIOUS
<1>13. /\ c[2] = NoRoot => e = <<NoRoot, NoRoot>>
       /\ c[2] # NoRoot => e = <<Node(x, c[1]), Node(x, c[2])>>
  <2>1. PICK f, t, g, u : f = a - 1 /\ t = r - 1 /\ g = m - 1 /\ u = n - 1
      OBVIOUS
  <2>2. f \in Nat /\ t \in Nat /\ g \in Nat /\ u \in Nat /\ f < t /\ t < k /\ g = f + k /\ u = t + k
      BY <1>1, <1>2, <2>1
  <2>3. InRight(Start(h, Rightmost[f][t][1], Rightmost[f][t][2]),
                Start(h, Rightmost[g][u][1], Rightmost[g][u][2]))
      BY <1>1, <1>10, <2>2, RightRightmost
  <2>4. PICK part, tree : /\ part = Start(h, Rightmost[f][t][1], Rightmost[f][t][2])
                          /\ tree = Start(h, Rightmost[g][u][1], Rightmost[g][u][2])
      OBVIOUS
  <2>5. c = RootsOf(Reached(part, q)) /\ e = RootsOf(Reached(tree, Append(q, x)))
      BY <1>12, <2>1, <2>4, Zenon DEF Ends
  <2>6. InRight(part, tree) /\ IsList(q)
      BY <1>10, <2>3, <2>4
  <2> QED BY <2>5, <2>6, RightClimb
<1>14. c = <<Mth(tlog, j, mid), Mth(tlog, j, to)>>
    BY <1>4, <1>10, <1>12 DEF EndsAre
<1>15. Mth(tlog, j, to) # NoRoot
    BY <1>1, MthIsRoot
<1>16. Mth(tlog, i, mid) = Node(x, Mth(tlog, j, mid))
  <2>1. IsSplit(k, m)
      BY <1>1, <1>2 DEF IsSplit
  <2>2. k = LargestPowerBelow(m)
      BY <1>2, <2>1, SplitFact, SplitUnique
  <2>3. Spans(i, m, mid) /\ Spans(j, a, mid)
      BY <1>1, <1>2 DEF Spans
  <2>4. k \in 1..(m - 1) /\ m = k + a
      BY <1>1, <1>2
  <2>5. Splits(i, m, mid, k, j, a)
      BY <1>1, <1>2, <2>2, <2>3, <2>4 DEF Splits
  <2> QED BY <1>5, <2>5, MthParts
<1>17. Mth(tlog, i, to) = Node(x, Mth(tlog, j, to))
    BY <1>5, MthParts
<1>18. e = <<Mth(tlog, i, mid), Mth(tlog, i, to)>>
    BY <1>13, <1>14, <1>15, <1>16, <1>17
<1>19. EndsAre(tlog, m, i, to, mid, whole, s, e)
    BY <1>4, <1>18 DEF EndsAre
<1>20. IsList(Append(q, x))
    BY <1>10, Lengthened
<1> QED BY <1>7, <1>9, <1>10, <1>11, <1>12, <1>19, <1>20 DEF Proven

\* What the climb along a consistency proof leads to.
LEMMA ConsistencyClimb ==
    ASSUME NEW tlog, NEW from, NEW size, NEW upto, Spans(from, size, upto),
           NEW first \in 1..(size - 1), NEW middle, middle = from + first, NEW s, s # NoRoot
    PROVE  Proven(tlog, first, from, size, upto, middle, TRUE, s)
<1> DEFINE P == {n \in Nat : \A i, to, m, mid : \A whole \in BOOLEAN :
                   Spans(i, n, to) /\ m \in 1..n /\ (m = n => IsPower(m)) /\ mid = i + m
                     => Proven(tlog, m, i, n, to, mid, whole, s)}
<1>1. \A n \in Nat : (\A i \in 0..(n - 1) : i \in P) => n \in P
  <2> SUFFICES ASSUME NEW n \in Nat, \A i \in 0..(n - 1) : i \in P,
                      NEW i, NEW to, NEW m, NEW mid, NEW whole \in BOOLEAN,
                      Spans(i, n, to), m \in 1..n, m = n => IsPower(m), mid = i + m
               PROVE  Proven(tlog, m, i, n, to, mid, whole, s)
      OBVIOUS
  <2>1. CASE m = n
    <3>1. mid = to /\ IsPower(n)
        BY <2>1 DEF Spans
    <3>2. Proven(tlog, n, i, n, to, to, whole, s)
        BY <3>1, ProvenWhole
    <3> QED BY <2>1, <3>1, <3>2
  <2>2. CASE m # n
    <3>1. n # 1
        BY <2>2
    <3>2. PICK k, j, r : Splits(i, n, to, k, j, r)
        BY <3>1, SplitAt
    <3>3. /\ i \in Nat /\ to \in Nat /\ j \in Nat /\ k \in Nat /\ r \in Nat /\ n = k + r
          /\ k \in 0..(n - 1) /\ r \in 0..(n - 1) /\ IsPower(k)
          /\ j = i + k /\ to = j + r /\ Spans(i, k, j) /\ Spans(j, r, to)
        BY <3>2, SplitParts
    <3>4. CASE m <= k
      <4>1. m \in 1..k
          BY <3>3, <3>4
      <4>2. m = k => IsPower(m)
          BY <3>3
      <4>3. Proven(tlog, m, i, k, j, mid, whole, s)
          BY <3>3, <4>1, <4>2
      <4> QED BY <3>2, <4>1, <4>3, ProvenLeft
    <3>5. CASE m > k
      <4>1. PICK a : a = m - k
          OBVIOUS
      <4>2. a \in 1..r /\ a # r /\ a # 0 /\ a \in 0..(r - 1) /\ m = a + k /\ m \in Nat /\ mid = j + a
          BY <2>2, <3>3, <3>5, <4>1
      <4>3. Partly(m, a, k, r) /\ Spans(i, m, mid)
          BY <3>3, <4>2 DEF Partly, Beyond, Spans
      <4>4. a = r => IsPower(a)
          BY <4>2
      <4>5. Proven(tlog, a, j, r, to, mid, FALSE, s)
          BY <3>3, <4>2, <4>4
      <4>6. ProvenInPart(tlog, a, j, r, to, mid, s)
          BY <4>5 DEF ProvenInPart
      <4> QED BY <3>2, <4>3, <4>6, ProvenRight
    <3> QED BY <3>3, <3>4, <3>5
  <2> QED BY <2>1, <2>2
<1>2. Nat \subseteq P
  <2> HIDE DEF P
  <2> QED BY <1>1, NatStrongInduction
<1>3. size \in Nat /\ first \in 1..size /\ first # size
    BY DEF Spans
<1> QED BY <1>2, <1>3

-----------------------------------------------------------------------------
(* The verifiers on the two logs.                                            *)

\* An inclusion proof holds of a row exactly if it is the one at the index and the path is its own.
LEMMA InclusionExact ==
    ASSUME NEW tlog, NEW size \in Nat, NEW i \in 0..(size - 1), NEW data, NEW p, IsList(p)
    PROVE  VerifyInclusion(data, i, size, p, Root(tlog, size))
             <=> data = tlog[i + 1] /\ p = InclusionProof(tlog, i, size)
<1>1. Spans(0, size, size)
    BY DEF Spans
<1>2. 0 + i + 1 = i + 1
    OBVIOUS
<1>3. LeafHash(data) # NoRoot
    BY Hashes
<1>4. ClimbBoth(LeafHash(data), i, size - 1, p)[2] = Mth(tlog, 0, size)
        <=> LeafHash(data) = LeafHash(tlog[i + 1]) /\ p = Path(tlog, i, 0, size)
    BY <1>1, <1>2, <1>3, ClimbExact
<1>5. LeafHash(data) = LeafHash(tlog[i + 1]) <=> data = tlog[i + 1]
    BY Hashes
<1> QED BY <1>4, <1>5 DEF VerifyInclusion, Climb, Root, InclusionProof

\* An inclusion proof is a list of hashes.
LEMMA InclusionProofIsList ==
    ASSUME NEW tlog, NEW size \in Nat, NEW i \in 0..(size - 1)
    PROVE  IsList(InclusionProof(tlog, i, size))
<1>1. Spans(0, size, size)
    BY DEF Spans
<1> QED BY <1>1, PathIsList DEF InclusionProof

\* Inclusion proofs from two logs.
LEMMA InclusionProofEqual ==
    ASSUME NEW tlog, NEW tlog2, NEW size \in Nat, NEW i \in 0..(size - 1)
    PROVE  InclusionProof(tlog, i, size) = InclusionProof(tlog2, i, size)
             <=> \A l \in 1..size : l = i + 1 \/ tlog[l] = tlog2[l]
<1>1. Spans(0, size, size)
    BY DEF Spans
<1>2. 0 + i + 1 = i + 1 /\ 0 + 1 = 1
    OBVIOUS
<1>3. SameBut(tlog, tlog2, 0, size, i + 1) <=> \A l \in 1..size : l = i + 1 \/ tlog[l] = tlog2[l]
    BY <1>2 DEF SameBut
<1>4. Path(tlog, i, 0, size) = Path(tlog2, i, 0, size) <=> SameBut(tlog, tlog2, 0, size, 0 + i + 1)
    BY <1>1, PathEqual
<1> QED BY <1>2, <1>3, <1>4 DEF InclusionProof

\* Roots of two logs.
LEMMA RootEqual ==
    ASSUME NEW tlog, NEW tlog2, NEW size \in Nat, size # 0
    PROVE  /\ Root(tlog, size) = Root(tlog2, size) <=> \A l \in 1..size : tlog[l] = tlog2[l]
           /\ Root(tlog, size) # NoRoot
<1>1. Spans(0, size, size)
    BY DEF Spans
<1>2. SameFrom(tlog, tlog2, 0, size) <=> \A l \in 1..size : tlog[l] = tlog2[l]
    BY DEF SameFrom
<1> QED BY <1>1, <1>2, MthEqual, MthIsRoot DEF Root

\* A consistency proof holds of a root exactly if it is the root of the log's first leaves.
LEMMA ConsistencyExact ==
    ASSUME NEW tlog, NEW size \in Nat, NEW first \in 1..size, NEW root, root # NoRoot
    PROVE  VerifyConsistency(first, size, root, Root(tlog, size), ConsistencyProof(tlog, first, size))
             <=> root = Root(tlog, first)
<1>1. CASE first = size
    BY <1>1 DEF VerifyConsistency, ConsistencyProof
<1>2. CASE first # size
  <2>1. Spans(0, size, size) /\ first \in 1..(size - 1) /\ first = 0 + first
      BY <1>2 DEF Spans
  <2>2. Proven(tlog, first, 0, size, size, first, TRUE, root)
      BY <2>1, ConsistencyClimb
  <2>3. PICK h, q : /\ h # NoRoot /\ IsList(q)
                    /\ Completed(tlog, first, 0, size, TRUE, root) = <<h>> \o q
                    /\ EndsAre(tlog, first, 0, size, first, TRUE, root, Ends(first, size, h, q))
      BY <2>2 DEF Proven
  <2>4. PICK path, at, e : /\ path = Completed(tlog, first, 0, size, TRUE, root)
                           /\ at = Rightmost[first - 1][size - 1]
                           /\ e = Ends(first, size, h, q)
      OBVIOUS
  <2>5. path # <<>> /\ Head(path) = h /\ Tail(path) = q
    <3>1. path = <<h>> \o q /\ IsList(q)
        BY <2>3, <2>4
    <3>2. <<h>> \o q # <<>> /\ Head(<<h>> \o q) = h /\ Tail(<<h>> \o q) = q
        BY <3>1, Preceded
    <3> QED BY <3>1, <3>2
  <2>6. ClimbBoth(Head(path), at[1], at[2], Tail(path)) = e
      BY <2>4, <2>5, ClimbBothIs DEF Ends
  <2>7. path = IF IsPower(first) THEN <<root>> \o ConsistencyProof(tlog, first, size)
               ELSE ConsistencyProof(tlog, first, size)
      BY <1>2, <2>4 DEF Completed, Seeded, ConsistencyProof
  <2>8. VerifyConsistency(first, size, root, Root(tlog, size), ConsistencyProof(tlog, first, size))
          <=> e = <<root, Root(tlog, size)>>
      BY <1>2, <2>4, <2>5, <2>6, <2>7 DEF VerifyConsistency
  <2>9. EndsAre(tlog, first, 0, size, first, TRUE, root, e)
      BY <2>3, <2>4
  <2>10. CASE IsPower(first)
    <3>1. e = <<root, e[2]>> /\ (e[2] = Mth(tlog, 0, size) <=> root = Mth(tlog, 0, first))
        BY <2>9, <2>10 DEF EndsAre, Seeded
    <3>2. e = <<root, Root(tlog, size)>> <=> e[2] = Root(tlog, size)
        BY <3>1
    <3> QED BY <2>8, <3>1, <3>2 DEF Root
  <2>11. CASE ~IsPower(first)
    <3>1. e = <<Mth(tlog, 0, first), Mth(tlog, 0, size)>>
        BY <2>9, <2>11 DEF EndsAre, Seeded
    <3>2. e = <<root, Root(tlog, size)>> <=> root = Mth(tlog, 0, first)
        BY <3>1 DEF Root
    <3> QED BY <2>8, <3>2 DEF Root
  <2> QED BY <2>10, <2>11
<1> QED BY <1>1, <1>2

-----------------------------------------------------------------------------
(* The logs.                                                                 *)

\* A leaf of a log: a row and the salt it is redacted under, (0, 0) for none.
Rows == Int \X (Nat \X Nat)

\* The two logs are of one length, under one salt or none.
LogsType ==
    /\ own \in Seq(Rows) /\ other \in Seq(Rows) /\ Len(own) = Len(other)
    /\ salt \in {0, 1}

\* The row at index i is i + 1 in ours, in the other it may be altered.
LogsRows ==
    \A i \in 0..(Len(own) - 1) :
        /\ own[i + 1] = Redacted(i + 1, SaltOf(i))
        /\ other[i + 1] \in {Redacted(i + 1, SaltOf(i)), Redacted(0 - (i + 1), SaltOf(i))}

\* The inductive invariant of the two logs.
LogsInv == LogsType /\ LogsRows

\* A log with one row more.
LEMMA RowAppended ==
    ASSUME NEW tlog \in Seq(Rows), NEW n, n = Len(tlog), NEW a \in Int, NEW s \in Nat \X Nat,
           NEW row, row = Redacted(a, s)
    PROVE  /\ Append(tlog, row) \in Seq(Rows) /\ Len(Append(tlog, row)) = n + 1
           /\ Append(tlog, row)[n + 1] = row
           /\ \A i \in 0..(n - 1) : Append(tlog, row)[i + 1] = tlog[i + 1]
<1>1. row \in Rows
    BY DEF Redacted, Rows
<1> HIDE DEF Rows
<1>2. n \in Nat
    OBVIOUS
<1>3. /\ Append(tlog, row) \in Seq(Rows) /\ Len(Append(tlog, row)) = n + 1
      /\ Append(tlog, row)[n + 1] = row
    BY <1>1
<1>4. \A l \in 1..n : Append(tlog, row)[l] = tlog[l]
    BY <1>1
<1>5. \A i \in 0..(n - 1) : i + 1 \in 1..n
    BY <1>2
<1> QED BY <1>3, <1>4, <1>5

\* What the citations rest on holds in every state of the two logs.
THEOREM LogsInvCorrect == MerkleSpec => []LogsInv
<1>1. MerkleInit => LogsInv
  <2> SUFFICES ASSUME MerkleInit PROVE LogsInv
      OBVIOUS
  <2>1. own = <<>> /\ other = <<>> /\ salt \in {0, 1}
      BY DEF MerkleInit
  <2>2. LogsType
      BY <2>1 DEF LogsType
  <2>3. LogsRows
      BY <2>1 DEF LogsRows
  <2> QED BY <2>2, <2>3 DEF LogsInv
<1>2. LogsInv /\ [MerkleNext]_mvars => LogsInv'
  <2> SUFFICES ASSUME LogsInv, [MerkleNext]_mvars PROVE LogsInv'
      OBVIOUS
  <2>1. LogsType /\ LogsRows
      BY DEF LogsInv
  <2>2. ASSUME NEW altered \in BOOLEAN, AppendLeaf(altered) PROVE LogsInv'
    <3>1. PICK n, a, b : /\ n = Len(own) /\ a = Redacted(RowAt(n, FALSE), SaltOf(n))
                         /\ b = Redacted(RowAt(n, altered), SaltOf(n))
        OBVIOUS
    <3>2. own' = Append(own, a) /\ other' = Append(other, b) /\ salt' = salt
        BY <2>2, <3>1 DEF AppendLeaf
    <3>3. /\ own \in Seq(Rows) /\ other \in Seq(Rows) /\ Len(own) = Len(other) /\ salt \in {0, 1}
          /\ n \in Nat /\ n = Len(own) /\ n = Len(other)
        BY <2>1, <3>1 DEF LogsType
    <3>4. \A i \in Nat : SaltOf(i) \in Nat \X Nat /\ SaltOf(i)' = SaltOf(i)
        BY <3>2, <3>3 DEF SaltOf, NoSalt, LeafSalt
    <3>5. a = Redacted(n + 1, SaltOf(n)) /\ b \in {Redacted(n + 1, SaltOf(n)), Redacted(0 - (n + 1), SaltOf(n))}
        BY <3>1 DEF RowAt
    <3>6. PICK t, c, d : t = SaltOf(n) /\ b = Redacted(c, t) /\ c \in Int /\ d = n + 1
        BY <3>3, <3>5
    <3>7. t \in Nat \X Nat /\ d \in Int /\ a = Redacted(d, t)
        BY <3>3, <3>4, <3>5, <3>6
    <3>8. /\ own' \in Seq(Rows) /\ Len(own') = n + 1 /\ own'[n + 1] = a
           /\ \A i \in 0..(n - 1) : own'[i + 1] = own[i + 1]
        BY <3>2, <3>3, <3>6, <3>7, RowAppended
    <3>9. /\ other' \in Seq(Rows) /\ Len(other') = n + 1 /\ other'[n + 1] = b
           /\ \A i \in 0..(n - 1) : other'[i + 1] = other[i + 1]
        BY <3>2, <3>3, <3>6, <3>7, RowAppended
    <3>10. LogsType'
        BY <3>2, <3>3, <3>8, <3>9 DEF LogsType
    <3>11. ASSUME NEW i \in 0..n
          PROVE  /\ own'[i + 1] = Redacted(i + 1, SaltOf(i))
                 /\ other'[i + 1] \in {Redacted(i + 1, SaltOf(i)), Redacted(0 - (i + 1), SaltOf(i))}
      <4>1. CASE i = n
        <5>1. own'[n + 1] = a /\ other'[n + 1] = b
            BY <3>8, <3>9
        <5> QED BY <3>5, <4>1, <5>1
      <4>2. CASE i # n
        <5>1. i \in 0..(n - 1)
            BY <3>3, <4>2
        <5>2. own'[i + 1] = own[i + 1] /\ other'[i + 1] = other[i + 1]
            BY <3>8, <3>9, <5>1
        <5>3. /\ own[i + 1] = Redacted(i + 1, SaltOf(i))
              /\ other[i + 1] \in {Redacted(i + 1, SaltOf(i)), Redacted(0 - (i + 1), SaltOf(i))}
            BY <2>1, <3>1, <5>1 DEF LogsRows
        <5> QED BY <5>2, <5>3
      <4> QED BY <4>1, <4>2
    <3>12. \A i \in 0..(Len(own') - 1) :
              /\ own'[i + 1] = Redacted(i + 1, SaltOf(i)')
              /\ other'[i + 1] \in {Redacted(i + 1, SaltOf(i)'), Redacted(0 - (i + 1), SaltOf(i)')}
      <4> SUFFICES ASSUME NEW i \in 0..(Len(own') - 1)
                   PROVE  /\ own'[i + 1] = Redacted(i + 1, SaltOf(i)')
                          /\ other'[i + 1] \in {Redacted(i + 1, SaltOf(i)'), Redacted(0 - (i + 1), SaltOf(i)')}
          OBVIOUS
      <4>1. i \in 0..n /\ i \in Nat
          BY <3>3, <3>8
      <4> QED BY <3>4, <3>11, <4>1
    <3>13. LogsRows'
        BY <3>12 DEF LogsRows, Redacted
    <3> QED BY <3>10, <3>13 DEF LogsInv
  <2>3. CASE UNCHANGED mvars
      BY <2>1, <2>3 DEF mvars, LogsInv, LogsType, LogsRows, SaltOf, Redacted, LeafSalt, NoSalt
  <2> QED BY <2>2, <2>3 DEF MerkleNext
<1> QED BY <1>1, <1>2, PTL DEF MerkleSpec

\* A row says which one it is, and with the salt it opens.
LEMMA RowFacts ==
    ASSUME LogsInv
    PROVE  /\ Size \in Nat /\ Len(own) = Size /\ Len(other) = Size /\ salt \in {0, 1}
           /\ own \in Seq(Rows) /\ other \in Seq(Rows)
           /\ \A i \in 0..(Size - 1) : own[i + 1] = Redacted(i + 1, SaltOf(i))
           /\ \A i, j \in 0..(Size - 1) : own[i + 1] = own[j + 1] => i = j
           /\ \A i \in 0..(Size - 1) : own[i + 1] # Redacted(0, NoSalt)
<1>1. LogsType /\ LogsRows
    BY DEF LogsInv
<1>2. /\ Size \in Nat /\ Len(own) = Size /\ Len(other) = Size /\ salt \in {0, 1}
      /\ own \in Seq(Rows) /\ other \in Seq(Rows)
    BY <1>1 DEF LogsType, Size
<1>3. \A i \in 0..(Size - 1) : own[i + 1] = Redacted(i + 1, SaltOf(i))
    BY <1>1, <1>2 DEF LogsRows
<1>4. \A a, s : Redacted(a, s)[1] = a
    BY DEF Redacted
<1>5. ASSUME NEW i \in 0..(Size - 1), NEW j \in 0..(Size - 1), own[i + 1] = own[j + 1] PROVE i = j
  <2>1. own[i + 1][1] = i + 1 /\ own[j + 1][1] = j + 1
      BY <1>3, <1>4
  <2> QED BY <1>5, <2>1
<1>6. ASSUME NEW i \in 0..(Size - 1) PROVE own[i + 1] # Redacted(0, NoSalt)
  <2>1. own[i + 1][1] = i + 1 /\ Redacted(0, NoSalt)[1] = 0
      BY <1>3, <1>4
  <2> QED BY <2>1
<1> QED BY <1>2, <1>3, <1>5, <1>6

\* An audit path shows a leaf to be the one at its index, and nothing else.
LEMMA InclusionHolds == ASSUME LogsInv PROVE InclusionIsExact
<1> SUFFICES ASSUME NEW i \in 0..(Size - 1), NEW j \in 0..(Size - 1)
             PROVE  VerifyInclusion(own[i + 1], j, Size, InclusionProof(other, i, Size), Root(own, Size))
                      <=> i = j /\ Agree(i + 1)
    BY DEF InclusionIsExact
<1>1. Size \in Nat
    BY RowFacts
<1>2. IsList(InclusionProof(other, i, Size))
    BY <1>1, InclusionProofIsList
<1>3. VerifyInclusion(own[i + 1], j, Size, InclusionProof(other, i, Size), Root(own, Size))
        <=> own[i + 1] = own[j + 1] /\ InclusionProof(other, i, Size) = InclusionProof(own, j, Size)
    BY <1>1, <1>2, InclusionExact
<1>4. own[i + 1] = own[j + 1] <=> i = j
    BY RowFacts
<1>5. InclusionProof(other, i, Size) = InclusionProof(own, i, Size)
        <=> \A l \in 1..Size : l = i + 1 \/ other[l] = own[l]
    BY <1>1, InclusionProofEqual
<1>6. Agree(i + 1) <=> \A l \in 1..Size : l = i + 1 \/ other[l] = own[l]
    BY DEF Agree
<1> QED BY <1>3, <1>4, <1>5, <1>6

\* A consistency proof passes exactly if the first rows are those of the other log.
LEMMA ConsistencyHolds == ASSUME LogsInv PROVE ConsistencyIsExact
<1> SUFFICES ASSUME NEW m \in 1..Size
             PROVE  VerifyConsistency(m, Size, Root(own, m), Root(other, Size), ConsistencyProof(other, m, Size))
                      <=> \A j \in 1..m : own[j] = other[j]
    BY DEF ConsistencyIsExact
<1>1. Size \in Nat /\ m \in Nat /\ m # 0
    BY RowFacts
<1>2. Root(own, m) # NoRoot /\ (Root(own, m) = Root(other, m) <=> \A j \in 1..m : own[j] = other[j])
    BY <1>1, RootEqual
<1>3. VerifyConsistency(m, Size, Root(own, m), Root(other, Size), ConsistencyProof(other, m, Size))
        <=> Root(own, m) = Root(other, m)
    BY <1>1, <1>2, ConsistencyExact
<1> QED BY <1>2, <1>3

\* A bundled proof verifies: its data, path and head are the log's.
LEMMA CitationHolds ==
    ASSUME NEW tlog, Len(tlog) \in Nat, NEW i \in 0..(Len(tlog) - 1), NEW sth, NEW key
    PROVE  /\ VerifyCitation(CitationProof(tlog, i, sth))
           /\ VerifySignedCitation(CitationProof(tlog, i, sth), key)
                <=> sth # NoSignature /\ sth.head = TreeHeadOf(tlog) /\ sth.key = key
<1>1. IsList(InclusionProof(tlog, i, Len(tlog)))
    BY InclusionProofIsList
<1>2. VerifyInclusion(tlog[i + 1], i, Len(tlog), InclusionProof(tlog, i, Len(tlog)), Root(tlog, Len(tlog)))
    BY <1>1, InclusionExact
<1>3. PICK p : p = CitationProof(tlog, i, sth)
    OBVIOUS
<1>4. /\ p.index = i /\ p.data = tlog[i + 1] /\ p.path = InclusionProof(tlog, i, Len(tlog))
      /\ p.head = TreeHeadOf(tlog) /\ p.sth = sth
    BY <1>3 DEF CitationProof
<1>5. p.head.size = Len(tlog) /\ p.head.root = Root(tlog, Len(tlog))
    BY <1>4 DEF TreeHeadOf
<1>6. VerifyCitation(p)
    BY <1>2, <1>4, <1>5 DEF VerifyCitation
<1>7. VerifySignedCitation(p, key) <=> sth # NoSignature /\ sth.head = TreeHeadOf(tlog) /\ sth.key = key
    BY <1>4, <1>6 DEF VerifySignedCitation
<1> QED BY <1>3, <1>6, <1>7

\* A signed citation is accepted from the log whose head was signed, and from no other.
LEMMA SignedHeadHolds == ASSUME LogsInv PROVE SignedHeadBinds
<1> SUFFICES ASSUME NEW i \in 0..(Size - 1), NEW key \in Keys
             PROVE  VerifySignedCitation(CitationProof(other, i, SignTreeHead(TreeHeadOf(own), key)), "published")
                      <=> key = "published" /\ own = other
    BY DEF SignedHeadBinds
<1>1. Size \in Nat /\ Len(own) = Size /\ Len(other) = Size /\ own \in Seq(Rows) /\ other \in Seq(Rows)
    BY RowFacts
<1>2. PICK sth : sth = SignTreeHead(TreeHeadOf(own), key)
    OBVIOUS
<1>3. sth.head = TreeHeadOf(own) /\ sth.key = key
    BY <1>2 DEF SignTreeHead
<1>4. sth # NoSignature
  <2>1. NoSignature.key = "none"
      BY DEF NoSignature
  <2>2. key # "none"
      BY DEF Keys
  <2> QED BY <1>3, <2>1, <2>2
<1>5. VerifySignedCitation(CitationProof(other, i, sth), "published")
        <=> TreeHeadOf(own) = TreeHeadOf(other) /\ key = "published"
    BY <1>1, <1>3, <1>4, CitationHolds
<1>6. TreeHeadOf(own) = TreeHeadOf(other) <=> Root(own, Size) = Root(other, Size)
  <2>1. /\ TreeHeadOf(own) = [size |-> Size, root |-> Root(own, Size)]
        /\ TreeHeadOf(other) = [size |-> Size, root |-> Root(other, Size)]
      BY <1>1 DEF TreeHeadOf
  <2> QED BY <2>1
<1>7. Root(own, Size) = Root(other, Size) <=> \A l \in 1..Size : own[l] = other[l]
  <2>1. Size # 0
      BY <1>1
  <2> QED BY <1>1, <2>1, RootEqual
<1>8. (\A l \in 1..Size : own[l] = other[l]) <=> own = other
    BY <1>1
<1> QED BY <1>2, <1>5, <1>6, <1>7, <1>8

\* The opening of one redacted leaf opens no other.
LEMMA OpeningsHold == ASSUME LogsInv PROVE OpeningsStayApart
<1> SUFFICES ASSUME NEW i \in 0..(Size - 1), NEW j \in 0..(Size - 1)
             PROVE  Opens([row |-> RowAt(i, FALSE), salt |-> SaltOf(j), commitment |-> own[i + 1]])
                      <=> salt # 0 /\ i = j
    BY DEF OpeningsStayApart
<1>1. Size \in Nat /\ salt \in {0, 1} /\ own[i + 1] = Redacted(i + 1, SaltOf(i)) /\ i \in Nat /\ j \in Nat
    BY RowFacts
<1>2. PICK o : o = [row |-> RowAt(i, FALSE), salt |-> SaltOf(j), commitment |-> own[i + 1]]
    OBVIOUS
<1>3. o.row = i + 1 /\ o.salt = SaltOf(j) /\ o.commitment = Redacted(i + 1, SaltOf(i))
    BY <1>1, <1>2 DEF RowAt
<1>4. \A a, s, t : Redacted(a, s) = Redacted(a, t) <=> s = t
    BY DEF Redacted
<1>5. Opens(o) <=> SaltOf(j) # NoSalt /\ SaltOf(i) = SaltOf(j)
    BY <1>3, <1>4 DEF Opens
<1>6. CASE salt = 0
    BY <1>2, <1>5, <1>6 DEF SaltOf
<1>7. CASE salt = 1
  <2>1. SaltOf(i) = <<1, i>> /\ SaltOf(j) = <<1, j>>
      BY <1>7 DEF SaltOf, LeafSalt
  <2>2. SaltOf(j) # NoSalt
      BY <2>1 DEF NoSalt
  <2>3. SaltOf(i) = SaltOf(j) <=> i = j
      BY <2>1
  <2> QED BY <1>2, <1>5, <1>7, <2>2, <2>3
<1> QED BY <1>1, <1>6, <1>7

-----------------------------------------------------------------------------
(* The commands.                                                             *)

\* evidence prove is strict about the signed head and the key, whatever the settings.
LEMMA ProveHolds == ASSUME LogsInv PROVE ProveIsStrict
<1> SUFFICES ASSUME NEW sth \in SignedHeads, NEW s \in Settings, NEW i \in 0..(Size - 1)
             PROVE  /\ EvidenceProve(i, sth, s, TRUE) = 0
                         <=> /\ sth.head = TreeHeadOf(own) /\ sth.key = Pinned(s)
                             /\ s.signing # "malformed"
                    /\ EvidenceProve(i, sth, s, TRUE) = 0 => EvidenceProve(i, sth, s, FALSE) = 0
                    /\ \A required \in BOOLEAN :
                         EvidenceProve(i, sth, s, required) = 0 => EvidenceVerify(sth, s, required) = 0
    BY DEF ProveIsStrict
<1>1. Size \in Nat /\ Len(own) = Size /\ own[i + 1] # Redacted(0, NoSalt)
    BY RowFacts
<1>2. PICK proof : proof = Bundle(i, sth)
    OBVIOUS
<1>3. VerifyCitation(proof)
    BY <1>1, <1>2, CitationHolds DEF Bundle
<1>4. ~VerifyCitation(Flipped(proof))
  <2>1. IsList(InclusionProof(own, i, Size))
      BY <1>1, InclusionProofIsList
  <2>2. PICK f : f = Flipped(proof)
      OBVIOUS
  <2>3. /\ f.data = Redacted(0, NoSalt) /\ f.index = i /\ f.path = InclusionProof(own, i, Size)
        /\ f.head.size = Size /\ f.head.root = Root(own, Size)
      BY <1>1, <1>2, <2>2 DEF Flipped, Bundle, CitationProof, TreeHeadOf
  <2>4. ~VerifyInclusion(Redacted(0, NoSalt), i, Size, InclusionProof(own, i, Size), Root(own, Size))
      BY <1>1, <2>1, InclusionExact
  <2> QED BY <2>2, <2>3, <2>4 DEF VerifyCitation
<1>5. \A key : VerifySignedCitation(proof, key) <=> sth # NoSignature /\ sth.head = TreeHeadOf(own) /\ sth.key = key
    BY <1>1, <1>2, CitationHolds DEF Bundle
<1>6. PICK report, cited, key : report = Report(sth, s) /\ cited = CitationReport(i, sth, s) /\ key = ExpectedKey(s)
    OBVIOUS
<1>7. s.pinned \in KeyValues /\ s.signing \in KeyValues
    BY DEF Settings
<1>8. key = IF s.pinned # "unset" THEN s.pinned ELSE s.signing
    BY <1>6 DEF ExpectedKey
<1>9. \/ sth = NoSignature /\ sth.key = "none" /\ sth.head # TreeHeadOf(own)
      \/ sth # NoSignature /\ sth.key \in Keys
  <2>1. CASE sth = NoSignature
    <3>1. sth.key = "none" /\ sth.head.size = 0
        BY <2>1 DEF NoSignature
    <3>2. TreeHeadOf(own).size = Size /\ Size # 0
        BY <1>1 DEF TreeHeadOf
    <3> QED BY <2>1, <3>1, <3>2
  <2>2. CASE sth # NoSignature
    <3>1. PICK tlog \in {own, other}, k \in Keys : sth = SignTreeHead(TreeHeadOf(tlog), k)
        BY <2>2 DEF SignedHeads
    <3>2. sth.key = k
        BY <3>1 DEF SignTreeHead
    <3> QED BY <2>2, <3>2
  <2> QED BY <2>1, <2>2
<1>10. report = "verified" <=> sth # NoSignature /\ key \in Keys /\ sth.key = key
  <2>1. CASE sth = NoSignature \/ key = "unset"
    <3>1. key = "unset" => key \notin Keys
        BY DEF Keys
    <3>2. ~(sth # NoSignature /\ key \in Keys)
        BY <2>1, <3>1
    <3>3. report = "unknown"
        BY <1>6, <2>1, <3>2, Zenon DEF Report
    <3> QED BY <2>1, <3>1, <3>3
  <2>2. CASE sth # NoSignature /\ key # "unset" /\ key \in Keys
    <3>1. report = IF sth.key = key THEN "verified" ELSE "failed"
        BY <1>6, <2>2, Zenon DEF Report
    <3> QED BY <2>2, <3>1
  <2>3. CASE sth # NoSignature /\ key # "unset" /\ key \notin Keys
    <3>1. report = "failed"
        BY <1>6, <2>3, Zenon DEF Report
    <3> QED BY <2>3, <3>1
  <2> QED BY <2>1, <2>2, <2>3
<1>11. cited = "verified" <=> key \in Keys /\ sth # NoSignature /\ sth.head = TreeHeadOf(own) /\ sth.key = key
  <2>1. CASE key = "unset"
    <3>1. cited = "unknown" /\ key \notin Keys
        BY <1>6, <2>1 DEF CitationReport, Keys
    <3> QED BY <3>1
  <2>2. CASE key # "unset" /\ key \in Keys
    <3>1. cited = IF VerifySignedCitation(proof, key) THEN "verified" ELSE "failed"
        BY <1>2, <1>6, <2>2, Zenon DEF CitationReport
    <3> QED BY <1>5, <2>2, <3>1
  <2>3. CASE key # "unset" /\ key \notin Keys
    <3>1. cited = "failed"
        BY <1>6, <2>3, Zenon DEF CitationReport
    <3> QED BY <2>3, <3>1
  <2> QED BY <2>1, <2>2, <2>3
<1>12. \A required \in BOOLEAN :
         EvidenceProve(i, sth, s, required) = 0 <=>
           /\ s.signing # "malformed" /\ Passes(report, required) /\ Passes(cited, required)
    BY <1>2, <1>3, <1>4, <1>6 DEF EvidenceProve, Exit
<1>13. \A required \in BOOLEAN : EvidenceVerify(sth, s, required) = 0 <=> Passes(report, required)
    BY <1>6 DEF EvidenceVerify, Exit
<1>14. /\ \A answer : Passes(answer, TRUE) <=> answer = "verified"
       /\ \A answer : answer = "verified" => Passes(answer, FALSE)
    BY DEF Passes
<1>15. EvidenceProve(i, sth, s, TRUE) = 0 <=>
         /\ s.signing # "malformed" /\ key \in Keys /\ sth # NoSignature
         /\ sth.head = TreeHeadOf(own) /\ sth.key = key
    BY <1>10, <1>11, <1>12, <1>14
<1>16. key \in Keys => Pinned(s) = key
    BY <1>7, <1>8 DEF Pinned, Keys, KeyValues
<1>17. Pinned(s) \in Keys => key = Pinned(s)
    BY <1>7, <1>8 DEF Pinned, Keys, KeyValues
<1>18. EvidenceProve(i, sth, s, TRUE) = 0
         <=> sth.head = TreeHeadOf(own) /\ sth.key = Pinned(s) /\ s.signing # "malformed"
    BY <1>9, <1>15, <1>16, <1>17
<1>19. EvidenceProve(i, sth, s, TRUE) = 0 => EvidenceProve(i, sth, s, FALSE) = 0
  <2>1. EvidenceProve(i, sth, s, TRUE) = 0 =>
          s.signing # "malformed" /\ report = "verified" /\ cited = "verified"
      BY <1>12, <1>14
  <2>2. EvidenceProve(i, sth, s, FALSE) = 0 <=>
          s.signing # "malformed" /\ Passes(report, FALSE) /\ Passes(cited, FALSE)
      BY <1>12
  <2> QED BY <1>14, <2>1, <2>2
<1>20. \A required \in BOOLEAN : EvidenceProve(i, sth, s, required) = 0 => EvidenceVerify(sth, s, required) = 0
    BY <1>12, <1>13
<1> QED BY <1>18, <1>19, <1>20

\* The proofs that leave the program convince an outsider exactly when they should, for
\* two logs of any number of rows, altered anywhere, under any published head and keys.
THEOREM ProofsConvinceCorrect == MerkleSpec => []ProofsConvince
<1>1. LogsInv => ProofsConvince
    BY InclusionHolds, ConsistencyHolds, SignedHeadHolds, OpeningsHold, ProveHolds
    DEF ProofsConvince, ProofsAreExact
<1> QED BY <1>1, LogsInvCorrect, PTL

=============================================================================
