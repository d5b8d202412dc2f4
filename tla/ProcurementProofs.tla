-------------------------- MODULE ProcurementProofs --------------------------
(***************************************************************************)
(* Theorems about Procurement: what a run answers with, and what leaves it,   *)
(* for any pages, requests, budgets and requirements.                        *)
(*                                                                          *)
(* A candidate is fit if it cites pages of its row that the run fetched, has  *)
(* its endpoints from what it cites, and is in conflict if its offers         *)
(* contradict each other; it covers a page if what the page says of its row  *)
(* is in it, or it is in conflict.  Merging, recalling, capping and repairing *)
(* keep candidates fit and lose nothing that was covered.  So there is one    *)
(* candidate of a row, it covers every page that was read of the row, and two *)
(* pages of a row that is in the output, without a conflict, cannot clash.    *)
(*                                                                          *)
(* The recursive functions of Candidates (what is picked, merged, sorted) are *)
(* computed a position at a time, by induction on a set of naturals.          *)
(***************************************************************************)
EXTENDS Procurement, FiniteSetTheorems, WellFoundedInduction, TLAPS

\* Every nonempty set of naturals has a least element
LEMMA LeastNat ==
    ASSUME NEW T, T \subseteq Nat, T # {}
    PROVE  \E x \in T : \A y \in T : x <= y
<1> DEFINE R == {ss \in Nat \X Nat : ss[1] < ss[2]}
<1>1. IsWellFoundedOn(R, Nat)
  BY NatLessThanWellFounded DEF OpToRel
<1>2. \E x \in T : \A y \in T : ~ (<<y, x>> \in R)
  <2> HIDE DEF R
  <2> QED BY <1>1, WFMin
<1>3. \A x, y \in Nat : y < x => <<y,x>> \in R
  OBVIOUS
<1>4. PICK x \in T : \A y \in T : ~ (<<y, x>> \in R)
  BY <1>2
<1>5. \A y \in T : ~ (y < x)
  BY <1>3, <1>4
<1> QED BY <1>5

\* Induction over the naturals, with a set for the predicate.
LEMMA NatSetInduction ==
    ASSUME NEW P, 0 \in P, \A n \in Nat : n \in P => n + 1 \in P
    PROVE  Nat \subseteq P
<1> SUFFICES ASSUME Nat \ P # {} PROVE FALSE
    OBVIOUS
<1>1. PICK m \in Nat \ P : \A n \in Nat \ P : m <= n
  <2>1. Nat \ P \subseteq Nat
      OBVIOUS
  <2> QED BY <2>1, LeastNat
<1>2. m # 0 /\ m - 1 \in Nat /\ m - 1 \in P /\ (m - 1) + 1 = m
    BY <1>1
<1> QED BY <1>1, <1>2

\* What Lowest returns.
LEMMA LowestFact ==
    ASSUME NEW T, T \subseteq Nat, T # {}
    PROVE  Lowest(T) \in T /\ \A n \in T : Lowest(T) <= n
BY LeastNat DEF Lowest

-----------------------------------------------------------------------------
(* Picked: the elements at some positions.                                   *)

IsScan(upTo, s, at) ==
    upTo = [n \in 0..Len(s) |->
              IF n = 0 THEN << >>
              ELSE IF n \in at THEN Append(upTo[n - 1], s[n]) ELSE upTo[n - 1]]

\* Picked, by its recursive definition.
LEMMA ScanUnfold == \A s, at : Picked(s, at) = (CHOOSE upTo : IsScan(upTo, s, at))[Len(s)]
BY DEF Picked, IsScan

\* The recursive definition has a solution.
LEMMA ScanExists == ASSUME NEW s, Len(s) \in Nat, NEW at PROVE \E upTo : IsScan(upTo, s, at)
<1> DEFINE Step(k, n) == IF n = 0 THEN << >>
                         ELSE IF n \in at THEN Append(k[n - 1], s[n]) ELSE k[n - 1]
           P == {m \in Nat : \E k : k = [n \in 0..m |-> Step(k, n)]}
<1>1. 0 \in P
  <2>1. PICK k : k = [n \in 0..0 |-> << >>]
      OBVIOUS
  <2>2. \A n \in 0..0 : Step(k, n) = << >>
      OBVIOUS
  <2>3. k = [n \in 0..0 |-> Step(k, n)]
    <3> HIDE DEF Step
    <3> QED BY <2>1, <2>2
  <2> QED BY <2>3
<1>2. \A m \in Nat : m \in P => m + 1 \in P
  <2> SUFFICES ASSUME NEW m \in Nat, m \in P PROVE m + 1 \in P
      OBVIOUS
  <2>1. PICK old : old = [n \in 0..m |-> Step(old, n)]
      OBVIOUS
  <2>2. PICK k : k = [n \in 0..(m + 1) |-> Step(old, n)]
      OBVIOUS
  <2>3. \A n \in 0..m : k[n] = old[n]
    <3>1. \A n \in 0..m : n \in 0..(m + 1)
        OBVIOUS
    <3> HIDE DEF Step
    <3> QED BY <2>1, <2>2, <3>1
  <2>4. \A n \in 0..(m + 1) : Step(k, n) = Step(old, n)
    <3>1. \A n \in 0..(m + 1) : n # 0 => n - 1 \in 0..m
        OBVIOUS
    <3> QED BY <2>3, <3>1
  <2>5. k = [n \in 0..(m + 1) |-> Step(k, n)]
    <3> HIDE DEF Step
    <3> QED BY <2>2, <2>4
  <2> HIDE DEF Step
  <2> QED BY <2>5
<1>3. Nat \subseteq P
  <2> HIDE DEF P
  <2> QED BY <1>1, <1>2, NatSetInduction
<1> QED BY <1>3 DEF IsScan

\* Picked, a position at a time.
LEMMA ScanSteps ==
    ASSUME NEW s, Len(s) \in Nat, NEW at
    PROVE  \E upTo : /\ Picked(s, at) = upTo[Len(s)] /\ upTo[0] = << >>
                     /\ \A n \in 1..Len(s) :
                          upTo[n] = IF n \in at THEN Append(upTo[n - 1], s[n]) ELSE upTo[n - 1]
<1>1. PICK upTo : IsScan(upTo, s, at) /\ Picked(s, at) = upTo[Len(s)]
    BY ScanExists, ScanUnfold
<1> DEFINE Step(n) == IF n = 0 THEN << >>
                      ELSE IF n \in at THEN Append(upTo[n - 1], s[n]) ELSE upTo[n - 1]
<1>2. upTo = [n \in 0..Len(s) |-> Step(n)]
    BY <1>1 DEF IsScan
<1>3. \A n \in 0..Len(s) : upTo[n] = Step(n)
  <2> HIDE DEF Step
  <2> QED BY <1>2
<1>4. 0 \in 0..Len(s) /\ \A n \in 1..Len(s) : n \in 0..Len(s) /\ n # 0
    OBVIOUS
<1> QED BY <1>1, <1>3, <1>4

\* e gives the positions in s of the elements of p, those of `at' up to n.
Embeds(e, p, s, at, n) ==
    /\ e \in [1..Len(p) -> at \cap 1..n]
    /\ \A i, j \in 1..Len(p) : i < j => e[i] < e[j]
    /\ \A k \in at \cap 1..n : \E i \in 1..Len(p) : e[i] = k
    /\ \A i \in 1..Len(p) : p[i] = s[e[i]]

\* One more element.
LEMMA EmbedsMore ==
    ASSUME NEW T, NEW s \in Seq(T), NEW at, NEW p \in Seq(T), NEW e, NEW n \in Nat, n + 1 <= Len(s),
           Embeds(e, p, s, at, n), n + 1 \in at
    PROVE  \E f : Embeds(f, Append(p, s[n + 1]), s, at, n + 1)
<1>1. /\ e \in [1..Len(p) -> at \cap 1..n]
      /\ \A i, j \in 1..Len(p) : i < j => e[i] < e[j]
      /\ \A k \in at \cap 1..n : \E i \in 1..Len(p) : e[i] = k
      /\ \A i \in 1..Len(p) : p[i] = s[e[i]]
    BY DEF Embeds
<1>2. n + 1 \in 1..Len(s) /\ s[n + 1] \in T /\ Len(p) \in Nat
    OBVIOUS
<1>3. PICK q : q = Append(p, s[n + 1])
    OBVIOUS
<1>4. Len(q) = Len(p) + 1 /\ q[Len(p) + 1] = s[n + 1] /\ \A i \in 1..Len(p) : q[i] = p[i]
    BY <1>2, <1>3
<1>5. PICK f : f = [i \in 1..(Len(p) + 1) |-> IF i = Len(p) + 1 THEN n + 1 ELSE e[i]]
    OBVIOUS
<1>6. /\ f[Len(p) + 1] = n + 1 /\ \A i \in 1..Len(p) : f[i] = e[i] /\ f[i] \in at \cap 1..n
      /\ DOMAIN f = 1..(Len(p) + 1)
    BY <1>1, <1>2, <1>5
<1>7. \A i \in 1..(Len(p) + 1) : i \in 1..Len(p) \/ i = Len(p) + 1
    BY <1>2
<1>8. f \in [1..Len(q) -> at \cap 1..(n + 1)]
  <2>1. \A i \in 1..(Len(p) + 1) : f[i] \in at \cap 1..(n + 1)
      BY <1>6, <1>7
  <2> QED BY <2>1, <1>4, <1>5
<1>9. \A i, j \in 1..Len(q) : i < j => f[i] < f[j]
    BY <1>1, <1>2, <1>4, <1>6, <1>7
<1>10. \A k \in at \cap 1..(n + 1) : \E i \in 1..Len(q) : f[i] = k
  <2> SUFFICES ASSUME NEW k \in at \cap 1..(n + 1) PROVE \E i \in 1..Len(q) : f[i] = k
      OBVIOUS
  <2>1. CASE k = n + 1
      BY <2>1, <1>2, <1>4, <1>6
  <2>2. CASE k \in 1..n
    <3>1. PICK i \in 1..Len(p) : e[i] = k
        BY <2>2, <1>1
    <3> QED BY <3>1, <1>2, <1>4, <1>6
  <2> QED BY <2>1, <2>2
<1>11. \A i \in 1..Len(q) : q[i] = s[f[i]]
    BY <1>1, <1>4, <1>6, <1>7
<1> QED BY <1>3, <1>8, <1>9, <1>10, <1>11 DEF Embeds

\* What Picked returns: all the elements at those positions, each once, in order.
LEMMA PickedEmbeds ==
    ASSUME NEW T, NEW s \in Seq(T), NEW at
    PROVE  Picked(s, at) \in Seq(T) /\ \E e : Embeds(e, Picked(s, at), s, at, Len(s))
<1>1. Len(s) \in Nat
    OBVIOUS
<1>2. PICK upTo : /\ Picked(s, at) = upTo[Len(s)] /\ upTo[0] = << >>
                  /\ \A n \in 1..Len(s) :
                       upTo[n] = IF n \in at THEN Append(upTo[n - 1], s[n]) ELSE upTo[n - 1]
    BY <1>1, ScanSteps
<1> DEFINE Good(p, n) == p \in Seq(T) /\ \E e : Embeds(e, p, s, at, n)
           P == {n \in Nat : n <= Len(s) => Good(upTo[n], n)}
<1>3. 0 \in P
  <2>1. Embeds(<< >>, << >>, s, at, 0)
      BY DEF Embeds
  <2>2. Good(<< >>, 0)
      BY <2>1
  <2> HIDE DEF Good
  <2> QED BY <1>2, <2>2
<1>4. \A n \in Nat : n \in P => n + 1 \in P
  <2> HIDE DEF Good
  <2> SUFFICES ASSUME NEW n \in Nat, n \in P, n + 1 <= Len(s) PROVE Good(upTo[n + 1], n + 1)
      OBVIOUS
  <2>1. Good(upTo[n], n) /\ n + 1 \in 1..Len(s) /\ (n + 1) - 1 = n
      BY <1>1
  <2>2. upTo[n + 1] = IF n + 1 \in at THEN Append(upTo[n], s[n + 1]) ELSE upTo[n]
      BY <1>2, <2>1
  <2> USE DEF Good
  <2>3. PICK e : Embeds(e, upTo[n], s, at, n)
      BY <2>1
  <2>4. CASE n + 1 \in at
    <3>1. \E f : Embeds(f, Append(upTo[n], s[n + 1]), s, at, n + 1)
        BY <2>1, <2>3, <2>4, EmbedsMore
    <3>2. s[n + 1] \in T /\ Append(upTo[n], s[n + 1]) \in Seq(T)
        BY <2>1
    <3> QED BY <2>2, <2>4, <3>1, <3>2
  <2>5. CASE n + 1 \notin at
    <3>1. at \cap 1..(n + 1) = at \cap 1..n
        BY <2>5
    <3>2. Embeds(e, upTo[n], s, at, n + 1)
        BY <2>3, <3>1 DEF Embeds
    <3> QED BY <2>1, <2>2, <2>5, <3>2
  <2> QED BY <2>4, <2>5
<1>5. Nat \subseteq P
  <2> HIDE DEF P
  <2> QED BY <1>3, <1>4, NatSetInduction
<1>6. Good(upTo[Len(s)], Len(s))
    BY <1>1, <1>5
<1> QED BY <1>2, <1>6

\* The elements that Picked returns, and where they come from.
LEMMA PickedElements ==
    ASSUME NEW T, NEW s \in Seq(T), NEW at
    PROVE  /\ Picked(s, at) \in Seq(T)
           /\ \A i \in DOMAIN Picked(s, at) : \E n \in at \cap DOMAIN s : Picked(s, at)[i] = s[n]
           /\ \A n \in at \cap DOMAIN s : \E i \in DOMAIN Picked(s, at) : Picked(s, at)[i] = s[n]
<1>1. PICK e : Embeds(e, Picked(s, at), s, at, Len(s))
    BY PickedEmbeds
<1>2. Picked(s, at) \in Seq(T)
    BY PickedEmbeds
<1>3. DOMAIN Picked(s, at) = 1..Len(Picked(s, at)) /\ DOMAIN s = 1..Len(s)
    BY <1>2
<1>4. /\ \A i \in 1..Len(Picked(s, at)) : e[i] \in at \cap 1..Len(s) /\ Picked(s, at)[i] = s[e[i]]
      /\ \A n \in at \cap 1..Len(s) : \E i \in 1..Len(Picked(s, at)) : e[i] = n
    BY <1>1 DEF Embeds
<1> HIDE DEF Picked
<1> QED BY <1>2, <1>3, <1>4

-----------------------------------------------------------------------------
(* Sets as sequences.                                                        *)

\* The elements of a sequence are finitely many.
LEMMA ToSetFinite == ASSUME NEW T, NEW s \in Seq(T) PROVE IsFiniteSet(ToSet(s)) /\ ToSet(s) \subseteq T
<1>1. ToSet(s) = {s[i] : i \in 1..Len(s)} /\ Len(s) \in Nat
    BY DEF ToSet
<1>2. s \in Surjection(1..Len(s), ToSet(s))
    BY <1>1 DEF Surjection
<1>3. IsFiniteSet(1..Len(s))
    BY <1>1, FS_Interval
<1>4. IsFiniteSet(ToSet(s))
    BY <1>2, <1>3, FS_Surjection
<1> QED BY <1>1, <1>4

\* What SetToSeq returns.
LEMMA SetToSeqFact ==
    ASSUME NEW S, IsFiniteSet(S)
    PROVE  SetToSeq(S) \in Seq(S) /\ ToSet(SetToSeq(S)) = S
<1>1. Cardinality(S) \in Nat /\ ExistsBijection(1..Cardinality(S), S)
    BY FS_CardinalityType
<1>2. PICK b \in Bijection(1..Cardinality(S), S) : TRUE
    BY <1>1 DEF ExistsBijection
<1>3. b \in [1..Cardinality(S) -> S] /\ IsInjective(b)
    BY <1>2 DEF Bijection, Injection, IsInjective
<1>4. SetToSeq(S) \in [1..Cardinality(S) -> S] /\ IsInjective(SetToSeq(S))
    BY <1>3 DEF SetToSeq
<1>5. SetToSeq(S) \in Injection(1..Cardinality(S), S)
    BY <1>4 DEF Injection, IsInjective
<1>6. Cardinality(1..Cardinality(S)) = Cardinality(S)
    BY <1>1, FS_Interval
<1>7. SetToSeq(S) \in Surjection(1..Cardinality(S), S)
    BY <1>5, <1>6, FS_Injection
<1>8. SetToSeq(S) \in Seq(S) /\ Len(SetToSeq(S)) = Cardinality(S)
    BY <1>1, <1>4
<1> QED BY <1>4, <1>7, <1>8 DEF ToSet, Surjection

-----------------------------------------------------------------------------
(* Candidates.                                                              *)

Offers == [price : Nat \cup {Nothing}, quantity : Nat \cup {Nothing}]
Sources == PagesOfRun \cup {Memory}
CandidateType ==
    [row : Rows, refs : Seq(Sources), offers : SUBSET Offers, offer : Offers,
     endpoints : SUBSET [value : Nat \cup {Nothing}, source : Sources], matched : BOOLEAN,
     fit : Nat, domain : BOOLEAN, conflict : BOOLEAN, complete : Nat]

\* A candidate cites pages of its row among `pages', or memory, has its endpoints from
\* what it cites, and remembers that its offers contradict each other.
Fit(mode, c, pages) ==
    /\ c \in CandidateType
    /\ \A p \in ToSet(c.refs) \ {Memory} : p \in pages /\ Says[p].row = c.row
    /\ \A e \in c.endpoints : e.source \in ToSet(c.refs)
    /\ mode = "product" /\ Contradictory(c.offers) => c.conflict

\* What page p says of its row is in c, or c is in conflict.
Covers(mode, c, p) ==
    /\ c.row = Says[p].row /\ Offer(p) \in c.offers
    /\ c.conflict \/ /\ mode = "service" => Says[p].price = c.offer.price
                     /\ mode = "contact" => DomainMatch(p) = c.domain

\* What c says of its row is in d, or d is in conflict.
Includes(mode, d, c) ==
    /\ d.row = c.row /\ c.offers \subseteq d.offers
    /\ d.conflict \/ /\ ~c.conflict
                     /\ mode = "service" => d.offer.price = c.offer.price
                     /\ mode = "contact" => d.domain = c.domain

\* The row's own pages among `pages' say all that is required.
Backs(confirmed, row, pages) ==
    confirmed => \A r \in Required : \E p \in pages :
        /\ Says[p].row = row /\ Says[p].own
        /\ Says[p].signs[r] = (IF RequirementKind[r] = "exclusion" THEN "contradicted" ELSE "supported")

\* c cites pages among `pages' only, or it does not need the others.
Known(confirmed, c, pages) == ToSet(c.refs) \subseteq pages \cup {Memory} \/ Backs(confirmed, c.row, pages)

Single(list) == \A i, j \in DOMAIN list : list[i].row = list[j].row => i = j

\* The type of a page.
LEMMA SaysType == ASSUME NEW p \in PagesOfRun PROVE Says[p] \in PageType
BY CandidatesAssumption

\* The elements of a concatenation.
LEMMA ToSetConcat ==
    ASSUME NEW T, NEW s \in Seq(T), NEW t \in Seq(T)
    PROVE  s \o t \in Seq(T) /\ ToSet(s \o t) = ToSet(s) \cup ToSet(t)
<1>1. PICK u : u = s \o t
    OBVIOUS
<1>2. /\ u \in Seq(T) /\ Len(u) = Len(s) + Len(t) /\ Len(s) \in Nat /\ Len(t) \in Nat
      /\ \A i \in 1..Len(s) : u[i] = s[i]
      /\ \A i \in 1..Len(t) : u[Len(s) + i] = t[i]
    BY <1>1
<1>3. \A i \in 1..Len(u) : i \in 1..Len(s) \/ (i - Len(s) \in 1..Len(t) /\ Len(s) + (i - Len(s)) = i)
    BY <1>2
<1>4. (\A i \in 1..Len(s) : i \in 1..Len(u)) /\ (\A i \in 1..Len(t) : Len(s) + i \in 1..Len(u))
    BY <1>2
<1>5. DOMAIN u = 1..Len(u) /\ DOMAIN s = 1..Len(s) /\ DOMAIN t = 1..Len(t)
    BY <1>2
<1>6. ToSet(u) \subseteq ToSet(s) \cup ToSet(t)
  <2> SUFFICES ASSUME NEW i \in 1..Len(u) PROVE u[i] \in ToSet(s) \cup ToSet(t)
      BY <1>5 DEF ToSet
  <2>1. CASE i \in 1..Len(s)
      BY <2>1, <1>2, <1>5 DEF ToSet
  <2>2. CASE i - Len(s) \in 1..Len(t) /\ Len(s) + (i - Len(s)) = i
    <3>1. u[i] = t[i - Len(s)]
        BY <2>2, <1>2
    <3> QED BY <3>1, <2>2, <1>5 DEF ToSet
  <2> QED BY <2>1, <2>2, <1>3
<1>7. ToSet(s) \subseteq ToSet(u) /\ ToSet(t) \subseteq ToSet(u)
  <2>1. \A i \in 1..Len(s) : s[i] \in ToSet(u)
      BY <1>2, <1>4, <1>5 DEF ToSet
  <2>2. \A i \in 1..Len(t) : t[i] \in ToSet(u)
      BY <1>2, <1>4, <1>5 DEF ToSet
  <2> QED BY <2>1, <2>2, <1>5 DEF ToSet
<1> QED BY <1>1, <1>2, <1>6, <1>7

\* The elements of what is picked.
LEMMA ToSetPicked ==
    ASSUME NEW T, NEW s \in Seq(T), NEW at
    PROVE  Picked(s, at) \in Seq(T) /\ ToSet(Picked(s, at)) = {s[n] : n \in at \cap DOMAIN s}
<1>1. PICK p : p = Picked(s, at)
    OBVIOUS
<1>2. /\ p \in Seq(T)
      /\ \A i \in DOMAIN p : \E n \in at \cap DOMAIN s : p[i] = s[n]
      /\ \A n \in at \cap DOMAIN s : \E i \in DOMAIN p : p[i] = s[n]
    BY <1>1, PickedElements
<1> QED BY <1>1, <1>2 DEF ToSet

\* A sign of completeness is a number.
LEMMA BackedType ==
    \A mode, offer, endpoints, matched : mode \in Modes => Backed(mode, offer, endpoints, matched) \in Nat
<1>1. \A offer, endpoints, matched : Backed("product", offer, endpoints, matched) \in Nat
    BY DEF Backed
<1>2. \A offer, endpoints, matched : Backed("service", offer, endpoints, matched) \in Nat
    BY DEF Backed
<1>3. \A offer, endpoints, matched : Backed("contact", offer, endpoints, matched) \in Nat
    BY DEF Backed
<1> QED BY <1>1, <1>2, <1>3 DEF Modes

\* The candidate of a page is fit and covers it.
LEMMA CandidateFit ==
    ASSUME NEW mode \in Modes, NEW confirmed, NEW p \in PagesOfRun, NEW pages, p \in pages
    PROVE  /\ Fit(mode, Candidate(mode, p), pages) /\ Covers(mode, Candidate(mode, p), p)
           /\ Known(confirmed, Candidate(mode, p), pages)
<1>1. /\ Says[p].row \in Rows /\ Says[p].price \in Nat \cup {Nothing}
      /\ Says[p].quantity \in Nat \cup {Nothing} /\ Says[p].channel \in Nat \cup {Nothing}
      /\ Says[p].matched \in BOOLEAN /\ Says[p].fit \in Nat /\ Says[p].own \in BOOLEAN
    BY SaysType DEF PageType
<1>2. Offer(p) \in Offers /\ DomainMatch(p) \in BOOLEAN
    BY <1>1 DEF Offer, Offers, DomainMatch
<1>3. /\ Endpoints(mode, p) \subseteq [value : Nat \cup {Nothing}, source : Sources]
      /\ \A e \in Endpoints(mode, p) : e.source = p
    BY <1>1 DEF Endpoints, Sources
<1>4. <<p>> \in Seq(Sources) /\ ToSet(<<p>>) = {p} /\ p # Memory
    BY CandidatesAssumption DEF Sources, ToSet
<1>5. FirstBacked(mode, p) \in Nat
    BY BackedType DEF FirstBacked
<1>6. PICK c : c = Candidate(mode, p)
    OBVIOUS
<1>7. /\ c.row = Says[p].row /\ c.refs = <<p>> /\ c.offers = {Offer(p)} /\ c.offer = Offer(p)
      /\ c.endpoints = Endpoints(mode, p) /\ c.domain = DomainMatch(p) /\ c.conflict = FALSE
    BY <1>6 DEF Candidate
<1>8. c \in CandidateType
  <2> HIDE DEF Offers, Sources
  <2> QED BY <1>1, <1>2, <1>3, <1>4, <1>5, <1>6 DEF CandidateType, Candidate
<1>9. ~Contradictory({Offer(p)})
    BY DEF Contradictory
<1>10. Fit(mode, c, pages)
    BY <1>3, <1>4, <1>7, <1>8, <1>9 DEF Fit
<1>11. Offer(p).price = Says[p].price
    BY DEF Offer
<1>12. Covers(mode, c, p)
    BY <1>7, <1>11 DEF Covers
<1> QED BY <1>4, <1>6, <1>7, <1>10, <1>12 DEF Known

\* To include is reflexive and transitive, and what is included is covered.
LEMMA IncludesFacts ==
    ASSUME NEW mode
    PROVE  /\ \A c : Includes(mode, c, c)
           /\ \A b, c, d : Includes(mode, b, c) /\ Includes(mode, c, d) => Includes(mode, b, d)
           /\ \A c, d, p : Includes(mode, d, c) /\ Covers(mode, c, p) => Covers(mode, d, p)
<1>1. \A c : Includes(mode, c, c)
    BY DEF Includes
<1>2. \A b, c, d : Includes(mode, b, c) /\ Includes(mode, c, d) => Includes(mode, b, d)
    BY DEF Includes
<1>3. \A c, d, p : Includes(mode, d, c) /\ Covers(mode, c, p) => Covers(mode, d, p)
    BY DEF Includes, Covers
<1> QED BY <1>1, <1>2, <1>3

Fresh(s, i) == {n \in DOMAIN i.refs : i.refs[n] \notin ToSet(s.refs)}

\* A consolidated candidate is fit, and includes both.
LEMMA ConsolidatedFit ==
    ASSUME NEW mode \in Modes, NEW confirmed, NEW pages, NEW known, NEW s, NEW i,
           Fit(mode, s, pages), Fit(mode, i, pages), s.row = i.row,
           Known(confirmed, s, known), Known(confirmed, i, known)
    PROVE  /\ Fit(mode, Consolidated(mode, s, i), pages)
           /\ Known(confirmed, Consolidated(mode, s, i), known)
           /\ Includes(mode, Consolidated(mode, s, i), s)
           /\ Includes(mode, Consolidated(mode, s, i), i)
<1>1. s \in CandidateType /\ i \in CandidateType
    BY DEF Fit
<1>2. PICK d : d = Consolidated(mode, s, i)
    OBVIOUS
<1>3. /\ d.row = s.row /\ d.domain = s.domain /\ d.offers = s.offers \cup i.offers
      /\ d.offer = (IF mode = "product" /\ Richer(i.offer, s.offer) THEN i.offer ELSE s.offer)
      /\ d.endpoints = Joined(mode, s.endpoints, i.endpoints)
      /\ d.matched = (s.matched \/ i.matched) /\ d.fit = High(s.fit, i.fit)
      /\ d.conflict = (s.conflict \/ i.conflict \/ Disagree(mode, s, i))
      /\ d.complete = Backed(mode, d.offer, d.endpoints, d.matched)
    BY <1>1, <1>2 DEF Consolidated, CandidateType
<1>4. d.refs \in Seq(Sources) /\ ToSet(d.refs) = ToSet(s.refs) \cup ToSet(i.refs)
  <2>1. PICK picked : picked = Picked(i.refs, Fresh(s, i))
      OBVIOUS
  <2>2. d.refs = s.refs \o picked
      BY <1>1, <1>2, <2>1 DEF Consolidated, CandidateType, Fresh
  <2>3. s.refs \in Seq(Sources) /\ i.refs \in Seq(Sources)
      BY <1>1 DEF CandidateType
  <2>4. /\ picked \in Seq(Sources)
        /\ ToSet(picked) = {i.refs[n] : n \in Fresh(s, i) \cap DOMAIN i.refs}
      BY <2>1, <2>3, ToSetPicked
  <2>5. ToSet(i.refs) \subseteq ToSet(s.refs) \cup ToSet(picked) /\ ToSet(picked) \subseteq ToSet(i.refs)
      BY <2>4 DEF ToSet, Fresh
  <2>6. d.refs \in Seq(Sources) /\ ToSet(d.refs) = ToSet(s.refs) \cup ToSet(picked)
      BY <2>2, <2>3, <2>4, ToSetConcat
  <2> QED BY <2>5, <2>6
<1>5. /\ d.endpoints \subseteq s.endpoints \cup i.endpoints
    BY <1>3 DEF Joined
<1>6. d.complete \in Nat
    BY <1>3, BackedType
<1>7. d \in CandidateType
  <2>1. /\ d.row \in Rows /\ d.offers \in SUBSET Offers /\ d.offer \in Offers /\ d.domain \in BOOLEAN
        /\ d.endpoints \in SUBSET [value : Nat \cup {Nothing}, source : Sources]
    BY <1>1, <1>3, <1>5 DEF CandidateType
  <2>2. d.matched \in BOOLEAN /\ d.conflict \in BOOLEAN
    BY <1>3
  <2>3. d.fit \in Nat
    BY <1>1, <1>3 DEF CandidateType, High
  <2>4. d = [row |-> d.row, refs |-> d.refs, offers |-> d.offers, offer |-> d.offer,
             endpoints |-> d.endpoints, matched |-> d.matched, fit |-> d.fit, domain |-> d.domain,
             conflict |-> d.conflict, complete |-> d.complete]
    BY <1>1, <1>2 DEF CandidateType, Consolidated
  <2> QED BY <1>4, <1>6, <2>1, <2>2, <2>3, <2>4 DEF CandidateType
<1>8. mode = "product" /\ Contradictory(d.offers) => d.conflict
    BY <1>3 DEF Disagree
<1>9. Fit(mode, d, pages)
  <2>1. \A p \in ToSet(d.refs) \ {Memory} : p \in pages /\ Says[p].row = d.row
      BY <1>3, <1>4 DEF Fit
  <2>2. \A e \in d.endpoints : e.source \in ToSet(d.refs)
      BY <1>4, <1>5 DEF Fit
  <2> QED BY <1>7, <1>8, <2>1, <2>2 DEF Fit
<1>10. Known(confirmed, d, known)
    BY <1>3, <1>4 DEF Known
<1>11. Includes(mode, d, s)
    BY <1>3 DEF Includes, Modes
<1>12. Includes(mode, d, i)
    BY <1>3 DEF Includes, Modes, Disagree
<1> QED BY <1>2, <1>9, <1>10, <1>11, <1>12

-----------------------------------------------------------------------------
(* Consolidation of a list.                                                 *)

\* All candidates of a list are fit and known.
AllFit(mode, confirmed, list, pages, known) ==
    list \in Seq(CandidateType)
    /\ \A i \in DOMAIN list : Fit(mode, list[i], pages) /\ Known(confirmed, list[i], known)

\* One more candidate of a list.
LEMMA JoinFit ==
    ASSUME NEW mode \in Modes, NEW confirmed, NEW pages, NEW known, NEW found, NEW c,
           AllFit(mode, confirmed, found, pages, known), Single(found),
           Fit(mode, c, pages), Known(confirmed, c, known)
    PROVE  LET after == Join(mode, found, c) IN
           /\ AllFit(mode, confirmed, after, pages, known) /\ Single(after)
           /\ \E i \in DOMAIN after : Includes(mode, after[i], c)
           /\ \A j \in DOMAIN found : \E i \in DOMAIN after : Includes(mode, after[i], found[j])
<1> DEFINE same == {i \in DOMAIN found : found[i].row = c.row}
<1>1. /\ found \in Seq(CandidateType) /\ c \in CandidateType
      /\ \A i \in DOMAIN found : Fit(mode, found[i], pages) /\ Known(confirmed, found[i], known)
    BY DEF AllFit, Fit
<1>2. DOMAIN found = 1..Len(found) /\ Len(found) \in Nat
    BY <1>1
<1>3. PICK after : after = Join(mode, found, c)
    OBVIOUS
<1>4. CASE same = {}
  <2>1. after = Append(found, c)
      BY <1>3, <1>4 DEF Join
  <2>2. /\ after \in Seq(CandidateType) /\ DOMAIN after = 1..(Len(found) + 1)
        /\ after[Len(found) + 1] = c /\ \A i \in DOMAIN found : after[i] = found[i]
      BY <1>1, <2>1
  <2>3. \A i \in DOMAIN after : i \in DOMAIN found \/ i = Len(found) + 1
      BY <1>2, <2>2
  <2>4. \A i \in DOMAIN found : found[i].row # c.row
      BY <1>4
  <2>5. Single(after)
      BY <2>2, <2>3, <2>4 DEF Single
  <2>6. AllFit(mode, confirmed, after, pages, known)
      BY <1>1, <2>2, <2>3 DEF AllFit
  <2>7. Len(found) + 1 \in DOMAIN after /\ DOMAIN found \subseteq DOMAIN after
      BY <1>2, <2>2
  <2> QED BY <1>3, <2>2, <2>5, <2>6, <2>7, IncludesFacts
<1>5. CASE same # {}
  <2>1. PICK i : i = Lowest(same)
      OBVIOUS
  <2>2. i \in DOMAIN found /\ found[i].row = c.row
    <3>1. same \subseteq Nat
        BY <1>2
    <3>2. Lowest(same) \in same
      <4> HIDE DEF same
      <4> QED BY <1>5, <3>1, LowestFact
    <3> QED BY <2>1, <3>2
  <2>3. PICK d : d = IF Fuller(mode, c, found[i]) THEN Consolidated(mode, c, found[i])
                     ELSE Consolidated(mode, found[i], c)
      OBVIOUS
  <2>4. after = [found EXCEPT ![i] = d]
      BY <1>3, <1>5, <2>1, <2>3 DEF Join
  <2>5. /\ Fit(mode, d, pages) /\ Known(confirmed, d, known)
        /\ Includes(mode, d, found[i]) /\ Includes(mode, d, c)
    <3>1. Fit(mode, found[i], pages) /\ Known(confirmed, found[i], known)
        BY <1>1, <2>2
    <3>2. CASE Fuller(mode, c, found[i])
        BY <2>2, <2>3, <3>1, <3>2, ConsolidatedFit
    <3>3. CASE ~Fuller(mode, c, found[i])
        BY <2>2, <2>3, <3>1, <3>3, ConsolidatedFit
    <3> QED BY <3>2, <3>3
  <2>6. d \in CandidateType /\ d.row = found[i].row
      BY <2>5 DEF Fit, Includes
  <2>7. /\ after \in Seq(CandidateType) /\ DOMAIN after = DOMAIN found
        /\ after[i] = d /\ \A j \in DOMAIN found : j # i => after[j] = found[j]
      BY <1>1, <2>2, <2>4, <2>6
  <2>8. \A j \in DOMAIN found : after[j].row = found[j].row
      BY <2>6, <2>7
  <2>9. Single(after)
      BY <2>7, <2>8 DEF Single
  <2>10. AllFit(mode, confirmed, after, pages, known)
      BY <1>1, <2>5, <2>7 DEF AllFit
  <2>11. \A j \in DOMAIN found : Includes(mode, after[j], found[j])
      BY <2>5, <2>7, IncludesFacts
  <2> QED BY <1>3, <2>2, <2>5, <2>7, <2>9, <2>10, <2>11
<1> QED BY <1>4, <1>5

IsDedupe(found, mode, list) ==
    found = [n \in 0..Len(list) |-> IF n = 0 THEN << >> ELSE Join(mode, found[n - 1], list[n])]

\* Deduped, by its recursive definition.
LEMMA DedupeUnfold == \A mode, list : Deduped(mode, list) = (CHOOSE found : IsDedupe(found, mode, list))[Len(list)]
BY DEF Deduped, IsDedupe

\* The recursive definition has a solution.
LEMMA DedupeExists == ASSUME NEW mode, NEW list, Len(list) \in Nat PROVE \E found : IsDedupe(found, mode, list)
<1> DEFINE Step(k, n) == IF n = 0 THEN << >> ELSE Join(mode, k[n - 1], list[n])
           P == {m \in Nat : \E k : k = [n \in 0..m |-> Step(k, n)]}
<1>1. 0 \in P
  <2>1. PICK k : k = [n \in 0..0 |-> << >>]
      OBVIOUS
  <2>2. \A n \in 0..0 : Step(k, n) = << >>
      OBVIOUS
  <2>3. k = [n \in 0..0 |-> Step(k, n)]
    <3> HIDE DEF Step
    <3> QED BY <2>1, <2>2
  <2> QED BY <2>3
<1>2. \A m \in Nat : m \in P => m + 1 \in P
  <2> SUFFICES ASSUME NEW m \in Nat, m \in P PROVE m + 1 \in P
      OBVIOUS
  <2>1. PICK old : old = [n \in 0..m |-> Step(old, n)]
      OBVIOUS
  <2>2. PICK k : k = [n \in 0..(m + 1) |-> Step(old, n)]
      OBVIOUS
  <2>3. \A n \in 0..m : k[n] = old[n]
    <3>1. \A n \in 0..m : n \in 0..(m + 1)
        OBVIOUS
    <3> HIDE DEF Step
    <3> QED BY <2>1, <2>2, <3>1
  <2>4. \A n \in 0..(m + 1) : Step(k, n) = Step(old, n)
    <3>1. \A n \in 0..(m + 1) : n # 0 => n - 1 \in 0..m
        OBVIOUS
    <3> QED BY <2>3, <3>1
  <2>5. k = [n \in 0..(m + 1) |-> Step(k, n)]
    <3> HIDE DEF Step
    <3> QED BY <2>2, <2>4
  <2> HIDE DEF Step
  <2> QED BY <2>5
<1>3. Nat \subseteq P
  <2> HIDE DEF P
  <2> QED BY <1>1, <1>2, NatSetInduction
<1> QED BY <1>3 DEF IsDedupe

\* Consolidation leaves one candidate of a row, which includes all there were.
LEMMA DedupedFit ==
    ASSUME NEW mode \in Modes, NEW confirmed, NEW pages, NEW known, NEW list,
           AllFit(mode, confirmed, list, pages, known)
    PROVE  LET merged == Deduped(mode, list) IN
           /\ AllFit(mode, confirmed, merged, pages, known) /\ Single(merged)
           /\ \A j \in DOMAIN list : \E i \in DOMAIN merged : Includes(mode, merged[i], list[j])
<1>1. list \in Seq(CandidateType) /\ Len(list) \in Nat /\ DOMAIN list = 1..Len(list)
    BY DEF AllFit
<1>2. PICK found : IsDedupe(found, mode, list) /\ Deduped(mode, list) = found[Len(list)]
    BY <1>1, DedupeExists, DedupeUnfold
<1>3. /\ found[0] = << >>
      /\ \A n \in 1..Len(list) : found[n] = Join(mode, found[n - 1], list[n])
  <2> DEFINE Step(n) == IF n = 0 THEN << >> ELSE Join(mode, found[n - 1], list[n])
  <2>1. found = [n \in 0..Len(list) |-> Step(n)]
      BY <1>2 DEF IsDedupe
  <2>2. \A n \in 0..Len(list) : found[n] = Step(n)
    <3> HIDE DEF Step
    <3> QED BY <2>1
  <2>3. 0 \in 0..Len(list) /\ \A n \in 1..Len(list) : n \in 0..Len(list) /\ n # 0
      BY <1>1
  <2> QED BY <2>2, <2>3
<1> DEFINE Good(f, n) ==
             /\ AllFit(mode, confirmed, f, pages, known) /\ Single(f)
             /\ \A j \in 1..n : \E i \in DOMAIN f : Includes(mode, f[i], list[j])
           P == {n \in Nat : n <= Len(list) => Good(found[n], n)}
<1>4. 0 \in P
  <2>1. Good(<< >>, 0)
      BY DEF AllFit, Single
  <2> HIDE DEF Good
  <2> QED BY <1>3, <2>1
<1>5. \A n \in Nat : n \in P => n + 1 \in P
  <2> HIDE DEF Good
  <2> SUFFICES ASSUME NEW n \in Nat, n \in P, n + 1 <= Len(list) PROVE Good(found[n + 1], n + 1)
      OBVIOUS
  <2>1. Good(found[n], n) /\ n + 1 \in 1..Len(list) /\ (n + 1) - 1 = n
      BY <1>1
  <2>2. PICK before, c, after : before = found[n] /\ c = list[n + 1] /\ after = Join(mode, before, c)
      OBVIOUS
  <2>3. found[n + 1] = after
      BY <1>3, <2>1, <2>2
  <2>4. Fit(mode, c, pages) /\ Known(confirmed, c, known)
      BY <1>1, <2>1, <2>2 DEF AllFit
  <2> USE DEF Good
  <2>5. /\ AllFit(mode, confirmed, after, pages, known) /\ Single(after)
        /\ \E i \in DOMAIN after : Includes(mode, after[i], c)
        /\ \A j \in DOMAIN before : \E i \in DOMAIN after : Includes(mode, after[i], before[j])
      BY <2>1, <2>2, <2>4, JoinFit
  <2>6. \A j \in 1..(n + 1) : \E i \in DOMAIN after : Includes(mode, after[i], list[j])
    <3> SUFFICES ASSUME NEW j \in 1..(n + 1) PROVE \E i \in DOMAIN after : Includes(mode, after[i], list[j])
        OBVIOUS
    <3>1. CASE j = n + 1
        BY <2>2, <2>5, <3>1
    <3>2. CASE j \in 1..n
      <4>1. PICK k \in DOMAIN before : Includes(mode, before[k], list[j])
          BY <2>1, <2>2, <3>2
      <4>2. PICK i \in DOMAIN after : Includes(mode, after[i], before[k])
          BY <2>5
      <4> QED BY <4>1, <4>2, IncludesFacts
    <3> QED BY <3>1, <3>2
  <2> QED BY <2>3, <2>5, <2>6
<1>6. Nat \subseteq P
  <2> HIDE DEF P
  <2> QED BY <1>4, <1>5, NatSetInduction
<1> QED BY <1>1, <1>2, <1>6

-----------------------------------------------------------------------------
(* Ranking.                                                                 *)

\* The elements of a sequence with one more inserted.
LEMMA InsertedElements ==
    ASSUME NEW T, NEW s \in Seq(T), NEW at \in 1..(Len(s) + 1), NEW e \in T
    PROVE  /\ InsertAt(s, at, e) \in Seq(T) /\ Len(InsertAt(s, at, e)) = Len(s) + 1
           /\ \A k \in 1..(at - 1) : InsertAt(s, at, e)[k] = s[k]
           /\ InsertAt(s, at, e)[at] = e
           /\ \A k \in at..Len(s) : InsertAt(s, at, e)[k + 1] = s[k]
<1>1. Len(s) \in Nat
    OBVIOUS
<1>2. PICK a, b : a = SubSeq(s, 1, at - 1) /\ b = SubSeq(s, at, Len(s))
    OBVIOUS
<1>3. /\ a \in Seq(T) /\ Len(a) = at - 1 /\ \A k \in 1..(at - 1) : a[k] = s[k]
    BY <1>1, <1>2
<1>4. /\ b \in Seq(T) /\ Len(b) = Len(s) - at + 1
      /\ \A k \in 1..(Len(s) - at + 1) : b[k] = s[at + k - 1]
    BY <1>1, <1>2
<1>5. InsertAt(s, at, e) = (a \o <<e>>) \o b
    BY <1>2 DEF InsertAt
<1>6. PICK c : c = a \o <<e>>
    OBVIOUS
<1>7. /\ c \in Seq(T) /\ Len(c) = at /\ c[at] = e /\ \A k \in 1..(at - 1) : c[k] = s[k]
    BY <1>3, <1>6
<1>8. PICK u : u = c \o b
    OBVIOUS
<1>9. /\ u \in Seq(T) /\ Len(u) = Len(s) + 1
      /\ \A k \in 1..at : u[k] = c[k]
      /\ \A k \in 1..(Len(s) - at + 1) : u[at + k] = b[k]
  <2>1. Len(u) = Len(c) + Len(b) /\ u \in Seq(T)
      BY <1>4, <1>7, <1>8
  <2>2. /\ \A k \in 1..Len(c) : u[k] = c[k]
        /\ \A k \in 1..Len(b) : u[Len(c) + k] = b[k]
      BY <1>4, <1>7, <1>8
  <2>3. Len(c) = at /\ Len(b) = Len(s) - at + 1
      BY <1>4, <1>7
  <2>4. Len(u) = Len(s) + 1
      BY <1>1, <2>1, <2>3
  <2> QED BY <2>1, <2>2, <2>3, <2>4
<1>10. u[at] = e /\ \A k \in 1..(at - 1) : u[k] = s[k]
    BY <1>7, <1>9
<1>11. ASSUME NEW k \in at..Len(s) PROVE u[k + 1] = s[k]
  <2>1. /\ k + 1 - at \in 1..(Len(s) - at + 1) /\ at + (k + 1 - at) = k + 1
        /\ at + (k + 1 - at) - 1 = k
      BY <1>1
  <2>2. u[k + 1] = b[k + 1 - at] /\ b[k + 1 - at] = s[k]
      BY <2>1, <1>4, <1>9
  <2> QED BY <2>2
<1> QED BY <1>5, <1>6, <1>8, <1>9, <1>10, <1>11

\* u is sorted, with c at position `at'.
IsWith(u, sorted, at, c) ==
    /\ DOMAIN u = 1..(Len(sorted) + 1) /\ u[at] = c
    /\ \A k \in 1..(at - 1) : u[k] = sorted[k]
    /\ \A k \in at..Len(sorted) : u[k + 1] = sorted[k]

\* Where a candidate is put among the sorted ones.
LEMMA PlaceIs ==
    ASSUME NEW mode, NEW confirmed, NEW T, NEW sorted \in Seq(T), NEW c \in T
    PROVE  /\ Place(mode, confirmed, sorted, c) \in Seq(T)
           /\ \E at \in 1..(Len(sorted) + 1) : IsWith(Place(mode, confirmed, sorted, c), sorted, at, c)
<1>1. Len(sorted) \in Nat /\ DOMAIN sorted = 1..Len(sorted)
    OBVIOUS
<1>2. PICK at : at = Lowest(Lower(mode, confirmed, sorted, c) \cup {Len(sorted) + 1})
    OBVIOUS
<1>3. at \in 1..(Len(sorted) + 1)
  <2>1. PICK places : places = Lower(mode, confirmed, sorted, c) \cup {Len(sorted) + 1}
      OBVIOUS
  <2>2. places \subseteq 1..(Len(sorted) + 1) /\ places # {}
      BY <1>1, <2>1 DEF Lower
  <2>3. places \subseteq Nat
      BY <1>1, <2>2
  <2>4. Lowest(places) \in places
      BY <2>2, <2>3, LowestFact
  <2> QED BY <1>2, <2>1, <2>2, <2>4
<1>4. PICK u : u = InsertAt(sorted, at, c)
    OBVIOUS
<1>5. Place(mode, confirmed, sorted, c) = u
    BY <1>2, <1>4 DEF Place
<1>6. /\ u \in Seq(T) /\ Len(u) = Len(sorted) + 1
      /\ \A k \in 1..(at - 1) : u[k] = sorted[k]
      /\ u[at] = c
      /\ \A k \in at..Len(sorted) : u[k + 1] = sorted[k]
    BY <1>3, <1>4, InsertedElements
<1>7. DOMAIN u = 1..(Len(sorted) + 1)
    BY <1>6
<1>8. IsWith(u, sorted, at, c)
    BY <1>6, <1>7 DEF IsWith
<1> QED BY <1>3, <1>5, <1>6, <1>8

\* The elements are those there were and the candidate.
LEMMA PlaceElements ==
    ASSUME NEW mode, NEW confirmed, NEW T, NEW sorted \in Seq(T), NEW c \in T, NEW x
    PROVE  x \in ToSet(Place(mode, confirmed, sorted, c)) <=> x \in ToSet(sorted) \/ x = c
<1>1. Len(sorted) \in Nat /\ DOMAIN sorted = 1..Len(sorted)
    OBVIOUS
<1>2. PICK u : u = Place(mode, confirmed, sorted, c)
    OBVIOUS
<1>3. PICK at \in 1..(Len(sorted) + 1) :
        /\ u \in Seq(T) /\ DOMAIN u = 1..(Len(sorted) + 1) /\ u[at] = c
        /\ \A k \in 1..(at - 1) : u[k] = sorted[k]
        /\ \A k \in at..Len(sorted) : u[k + 1] = sorted[k]
  <2>1. PICK at \in 1..(Len(sorted) + 1) : IsWith(u, sorted, at, c)
      BY <1>2, PlaceIs
  <2>2. u \in Seq(T)
      BY <1>2, PlaceIs
  <2> QED BY <2>1, <2>2 DEF IsWith
<1>4. ASSUME NEW k \in DOMAIN u
      PROVE  \/ k < at /\ k \in DOMAIN sorted /\ u[k] = sorted[k]
             \/ k = at /\ u[k] = c
             \/ k > at /\ k - 1 \in DOMAIN sorted /\ u[k] = sorted[k - 1]
  <2>1. CASE k < at
      BY <2>1, <1>1, <1>3
  <2>2. CASE k > at
    <3>1. k - 1 \in at..Len(sorted) /\ (k - 1) + 1 = k /\ k - 1 \in DOMAIN sorted
        BY <2>2, <1>1, <1>3
    <3> QED BY <2>2, <3>1, <1>3
  <2> QED BY <2>1, <2>2, <1>3
<1>5. /\ \A k \in DOMAIN sorted : k < at => k \in DOMAIN u /\ u[k] = sorted[k]
      /\ \A k \in DOMAIN sorted : k >= at => k + 1 \in DOMAIN u /\ u[k + 1] = sorted[k]
      /\ at \in DOMAIN u /\ u[at] = c
    BY <1>1, <1>3
<1>6. \A y : y \in ToSet(u) <=> y \in ToSet(sorted) \/ y = c
  <2>1. ASSUME NEW k \in DOMAIN u PROVE u[k] \in ToSet(sorted) \/ u[k] = c
      BY <1>4 DEF ToSet
  <2>2. ASSUME NEW k \in DOMAIN sorted PROVE sorted[k] \in ToSet(u)
    <3>1. k < at \/ k >= at
        BY <1>1, <1>3
    <3> QED BY <1>5, <3>1 DEF ToSet
  <2>3. c \in ToSet(u)
      BY <1>5 DEF ToSet
  <2> QED BY <2>1, <2>2, <2>3 DEF ToSet
<1> QED BY <1>2, <1>6

\* Rows stay apart.
LEMMA PlaceFit ==
    ASSUME NEW mode, NEW confirmed, NEW T, NEW sorted \in Seq(T), NEW c \in T,
           Single(sorted), \A i \in DOMAIN sorted : sorted[i].row # c.row
    PROVE  Place(mode, confirmed, sorted, c) \in Seq(T) /\ Single(Place(mode, confirmed, sorted, c))
<1>1. Len(sorted) \in Nat /\ DOMAIN sorted = 1..Len(sorted)
    OBVIOUS
<1>2. PICK u : u = Place(mode, confirmed, sorted, c)
    OBVIOUS
<1>3. PICK at \in 1..(Len(sorted) + 1) :
        /\ u \in Seq(T) /\ DOMAIN u = 1..(Len(sorted) + 1) /\ u[at] = c
        /\ \A k \in 1..(at - 1) : u[k] = sorted[k]
        /\ \A k \in at..Len(sorted) : u[k + 1] = sorted[k]
  <2>1. PICK at \in 1..(Len(sorted) + 1) : IsWith(u, sorted, at, c)
      BY <1>2, PlaceIs
  <2>2. u \in Seq(T)
      BY <1>2, PlaceIs
  <2> QED BY <2>1, <2>2 DEF IsWith
<1>4. ASSUME NEW k \in DOMAIN u
      PROVE  \/ k < at /\ k \in DOMAIN sorted /\ u[k] = sorted[k]
             \/ k = at /\ u[k] = c
             \/ k > at /\ k - 1 \in DOMAIN sorted /\ u[k] = sorted[k - 1]
  <2>1. CASE k < at
      BY <2>1, <1>1, <1>3
  <2>2. CASE k > at
    <3>1. k - 1 \in at..Len(sorted) /\ (k - 1) + 1 = k /\ k - 1 \in DOMAIN sorted
        BY <2>2, <1>1, <1>3
    <3> QED BY <2>2, <3>1, <1>3
  <2> QED BY <2>1, <2>2, <1>3
<1>5. Single(u)
  <2>1. \A i, j \in DOMAIN sorted : sorted[i].row = sorted[j].row => i = j
      BY DEF Single
  <2>3. \A k \in DOMAIN u : k = at \/ u[k].row # c.row
      BY <1>4
  <2>2. ASSUME NEW i \in DOMAIN u, NEW j \in DOMAIN u, u[i].row = u[j].row PROVE i = j
    <3>1. CASE i = at
        BY <3>1, <2>2, <2>3, <1>3
    <3>2. CASE j = at
        BY <3>2, <2>2, <2>3, <1>3
    <3>3. CASE i # at /\ j # at
      <4>1. PICK k : k = IF i < at THEN i ELSE i - 1
          OBVIOUS
      <4>2. PICK l : l = IF j < at THEN j ELSE j - 1
          OBVIOUS
      <4>3. k \in DOMAIN sorted /\ u[i] = sorted[k]
          BY <3>3, <4>1, <1>3, <1>4
      <4>4. l \in DOMAIN sorted /\ u[j] = sorted[l]
          BY <3>3, <4>2, <1>3, <1>4
      <4>5. k = l
          BY <2>1, <2>2, <4>3, <4>4
      <4> QED BY <1>1, <1>3, <3>3, <4>1, <4>2, <4>5
    <3> QED BY <3>1, <3>2, <3>3
  <2> QED BY <2>2 DEF Single
<1> QED BY <1>2, <1>3, <1>5

Ranks(mode, c) == mode = "contact" => c.endpoints # {}

IsSort(sorted, mode, confirmed, list) ==
    sorted = [n \in 0..Len(list) |->
                IF n = 0 THEN << >>
                ELSE IF Ranks(mode, list[n]) THEN Place(mode, confirmed, sorted[n - 1], list[n])
                ELSE sorted[n - 1]]

\* Ranked, by its recursive definition.
LEMMA SortUnfold ==
    \A mode, confirmed, list :
       Ranked(mode, confirmed, list) = (CHOOSE sorted : IsSort(sorted, mode, confirmed, list))[Len(list)]
BY DEF Ranked, IsSort, Ranks

\* The recursive definition has a solution.
LEMMA SortExists ==
    ASSUME NEW mode, NEW confirmed, NEW list, Len(list) \in Nat
    PROVE  \E sorted : IsSort(sorted, mode, confirmed, list)
<1> DEFINE Step(k, n) == IF n = 0 THEN << >>
                         ELSE IF Ranks(mode, list[n]) THEN Place(mode, confirmed, k[n - 1], list[n])
                         ELSE k[n - 1]
           P == {m \in Nat : \E k : k = [n \in 0..m |-> Step(k, n)]}
<1>1. 0 \in P
  <2>1. PICK k : k = [n \in 0..0 |-> << >>]
      OBVIOUS
  <2>2. \A n \in 0..0 : Step(k, n) = << >>
      OBVIOUS
  <2>3. k = [n \in 0..0 |-> Step(k, n)]
    <3> HIDE DEF Step
    <3> QED BY <2>1, <2>2
  <2> QED BY <2>3
<1>2. \A m \in Nat : m \in P => m + 1 \in P
  <2> SUFFICES ASSUME NEW m \in Nat, m \in P PROVE m + 1 \in P
      OBVIOUS
  <2>1. PICK old : old = [n \in 0..m |-> Step(old, n)]
      OBVIOUS
  <2>2. PICK k : k = [n \in 0..(m + 1) |-> Step(old, n)]
      OBVIOUS
  <2>3. \A n \in 0..m : k[n] = old[n]
    <3>1. \A n \in 0..m : n \in 0..(m + 1)
        OBVIOUS
    <3> HIDE DEF Step
    <3> QED BY <2>1, <2>2, <3>1
  <2>4. \A n \in 0..(m + 1) : Step(k, n) = Step(old, n)
    <3>1. \A n \in 0..(m + 1) : n # 0 => n - 1 \in 0..m
        OBVIOUS
    <3> QED BY <2>3, <3>1
  <2>5. k = [n \in 0..(m + 1) |-> Step(k, n)]
    <3> HIDE DEF Step
    <3> QED BY <2>2, <2>4
  <2> HIDE DEF Step
  <2> QED BY <2>5
<1>3. Nat \subseteq P
  <2> HIDE DEF P
  <2> QED BY <1>1, <1>2, NatSetInduction
<1> QED BY <1>3 DEF IsSort

\* The ranking has the candidates that rank, each once.
LEMMA RankedElements ==
    ASSUME NEW mode, NEW confirmed, NEW T, NEW list \in Seq(T), Single(list)
    PROVE  /\ Ranked(mode, confirmed, list) \in Seq(T) /\ Single(Ranked(mode, confirmed, list))
           /\ \A x : x \in ToSet(Ranked(mode, confirmed, list)) <=> x \in ToSet(list) /\ Ranks(mode, x)
<1>1. Len(list) \in Nat /\ DOMAIN list = 1..Len(list)
    OBVIOUS
<1>2. PICK sorted : /\ IsSort(sorted, mode, confirmed, list)
                    /\ Ranked(mode, confirmed, list) = sorted[Len(list)]
    BY <1>1, SortExists, SortUnfold
<1>3. /\ sorted[0] = << >>
      /\ \A n \in 1..Len(list) :
           sorted[n] = IF Ranks(mode, list[n]) THEN Place(mode, confirmed, sorted[n - 1], list[n])
                       ELSE sorted[n - 1]
  <2> DEFINE Step(n) == IF n = 0 THEN << >>
                        ELSE IF Ranks(mode, list[n]) THEN Place(mode, confirmed, sorted[n - 1], list[n])
                        ELSE sorted[n - 1]
  <2>1. sorted = [n \in 0..Len(list) |-> Step(n)]
      BY <1>2 DEF IsSort
  <2>2. \A n \in 0..Len(list) : sorted[n] = Step(n)
    <3> HIDE DEF Step
    <3> QED BY <2>1
  <2>3. 0 \in 0..Len(list) /\ \A n \in 1..Len(list) : n \in 0..Len(list) /\ n # 0
      BY <1>1
  <2> QED BY <2>2, <2>3
<1> DEFINE Good(f, n) ==
             /\ f \in Seq(T) /\ Single(f)
             /\ \A x : x \in ToSet(f) <=> \E k \in 1..n : x = list[k] /\ Ranks(mode, x)
           P == {n \in Nat : n <= Len(list) => Good(sorted[n], n)}
<1>4. 0 \in P
  <2>1. Good(<< >>, 0)
      BY DEF Single, ToSet
  <2> HIDE DEF Good
  <2> QED BY <1>3, <2>1
<1>5. \A n \in Nat : n \in P => n + 1 \in P
  <2> HIDE DEF Good
  <2> SUFFICES ASSUME NEW n \in Nat, n \in P, n + 1 <= Len(list) PROVE Good(sorted[n + 1], n + 1)
      OBVIOUS
  <2>1. Good(sorted[n], n) /\ n + 1 \in 1..Len(list) /\ (n + 1) - 1 = n
      BY <1>1
  <2>2. PICK f, c : f = sorted[n] /\ c = list[n + 1]
      OBVIOUS
  <2>3. sorted[n + 1] = IF Ranks(mode, c) THEN Place(mode, confirmed, f, c) ELSE f
      BY <1>3, <2>1, <2>2
  <2>4. c \in T /\ \A k \in 1..(n + 1) : k \in 1..n \/ k = n + 1
      BY <2>1, <2>2
  <2>5. /\ f \in Seq(T) /\ Single(f)
        /\ \A x : x \in ToSet(f) <=> \E k \in 1..n : x = list[k] /\ Ranks(mode, x)
      BY <2>1, <2>2 DEF Good
  <2>6. CASE ~Ranks(mode, c)
    <3>1. \A x : (\E k \in 1..(n + 1) : x = list[k] /\ Ranks(mode, x))
                   <=> (\E k \in 1..n : x = list[k] /\ Ranks(mode, x))
        BY <2>2, <2>4, <2>6
    <3> QED BY <2>3, <2>5, <2>6, <3>1 DEF Good
  <2>7. CASE Ranks(mode, c)
    <3>1. \A i \in DOMAIN f : f[i].row # c.row
      <4> SUFFICES ASSUME NEW i \in DOMAIN f, f[i].row = c.row PROVE FALSE
          OBVIOUS
      <4>1. f[i] \in ToSet(f)
          BY DEF ToSet
      <4>2. PICK k \in 1..n : f[i] = list[k]
          BY <2>5, <4>1
      <4>3. k \in DOMAIN list /\ n + 1 \in DOMAIN list /\ list[k].row = list[n + 1].row
          BY <1>1, <2>1, <2>2, <4>2
      <4>4. k = n + 1
          BY <4>3 DEF Single
      <4> QED BY <4>4
    <3>2. PICK g : g = Place(mode, confirmed, f, c)
        OBVIOUS
    <3>3. g \in Seq(T) /\ Single(g) /\ \A x : x \in ToSet(g) <=> x \in ToSet(f) \/ x = c
      <4>1. g \in Seq(T) /\ Single(g)
          BY <2>4, <2>5, <3>1, <3>2, PlaceFit
      <4>2. ASSUME NEW x PROVE x \in ToSet(Place(mode, confirmed, f, c)) <=> x \in ToSet(f) \/ x = c
        <5>1. f \in Seq(T) /\ c \in T
            BY <2>4, <2>5
        <5> QED BY <5>1, PlaceElements
      <4> QED BY <3>2, <4>1, <4>2
    <3>4. \A x : (\E k \in 1..(n + 1) : x = list[k] /\ Ranks(mode, x))
                   <=> (\E k \in 1..n : x = list[k] /\ Ranks(mode, x)) \/ x = c
        BY <2>2, <2>4, <2>7
    <3> QED BY <2>3, <2>5, <2>7, <3>2, <3>3, <3>4 DEF Good
  <2> QED BY <2>6, <2>7
<1>6. Nat \subseteq P
  <2> HIDE DEF P
  <2> QED BY <1>4, <1>5, NatSetInduction
<1>7. Good(sorted[Len(list)], Len(list))
    BY <1>1, <1>6
<1>8. \A x : (\E k \in 1..Len(list) : x = list[k] /\ Ranks(mode, x)) <=> x \in ToSet(list) /\ Ranks(mode, x)
    BY <1>1 DEF ToSet
<1> QED BY <1>2, <1>7, <1>8

\* A recall and the cap on completeness leave what a candidate says as it is.
LEMMA PreparedFit ==
    ASSUME NEW mode \in Modes, NEW confirmed, NEW pages, NEW known, NEW recalled \in [Rows -> Nat \cup {Nothing}],
           NEW c, Fit(mode, c, pages), Known(confirmed, c, known)
    PROVE  /\ Fit(mode, Safe(Recall(mode, recalled, c)), pages)
           /\ Known(confirmed, Safe(Recall(mode, recalled, c)), known)
           /\ Includes(mode, Safe(Recall(mode, recalled, c)), c)
           /\ Safe(Recall(mode, recalled, c)).row = c.row
<1>1. c \in CandidateType
    BY DEF Fit
<1>2. PICK r : r = Recall(mode, recalled, c)
    OBVIOUS
<1>3. /\ r \in CandidateType
      /\ r.row = c.row /\ r.offers = c.offers /\ r.offer = c.offer /\ r.conflict = c.conflict
      /\ r.domain = c.domain
      /\ ToSet(r.refs) \subseteq ToSet(c.refs) \cup {Memory} /\ ToSet(c.refs) \subseteq ToSet(r.refs)
      /\ \A e \in r.endpoints : e \in c.endpoints \/ (e.source = Memory /\ Memory \in ToSet(r.refs))
  <2>1. CASE r = c
      BY <2>1, <1>1
  <2>2. CASE r # c
    <3>1. PICK v, w : /\ v = recalled[c.row] /\ w = High(c.complete, 9)
                      /\ r = [c EXCEPT !.endpoints = {[value |-> v, source |-> Memory]},
                                       !.refs = Append(c.refs, Memory), !.complete = w]
        BY <1>2, <2>2 DEF Recall
    <3>2. v \in Nat \cup {Nothing} /\ w \in Nat /\ c.refs \in Seq(Sources) /\ Memory \in Sources
        BY <1>1, <3>1 DEF CandidateType, High, Sources
    <3>3. PICK refs : refs = Append(c.refs, Memory)
        OBVIOUS
    <3>4. refs \in Seq(Sources) /\ ToSet(refs) = ToSet(c.refs) \cup {Memory}
      <4>1. PICK one : one = <<Memory>>
          OBVIOUS
      <4>2. refs = c.refs \o one /\ one \in Seq(Sources) /\ ToSet(one) = {Memory}
        <5>1. one \in Seq(Sources) /\ Len(one) = 1 /\ one[1] = Memory /\ DOMAIN one = {1}
            BY <3>2, <4>1
        <5>2. ToSet(one) = {Memory}
            BY <5>1 DEF ToSet
        <5>3. refs = c.refs \o one
            BY <3>2, <3>3, <4>1
        <5> QED BY <5>1, <5>2, <5>3
      <4>3. c.refs \o one \in Seq(Sources) /\ ToSet(c.refs \o one) = ToSet(c.refs) \cup ToSet(one)
          BY <3>2, <4>2, ToSetConcat
      <4> QED BY <4>2, <4>3
    <3>5. /\ r.row = c.row /\ r.offers = c.offers /\ r.offer = c.offer /\ r.conflict = c.conflict
          /\ r.domain = c.domain /\ r.refs = refs /\ r.endpoints = {[value |-> v, source |-> Memory]}
        BY <1>1, <3>1, <3>3 DEF CandidateType
    <3>6. {[value |-> v, source |-> Memory]} \in SUBSET [value : Nat \cup {Nothing}, source : Sources]
        BY <3>2
    <3>7. r \in CandidateType
        BY <1>1, <3>1, <3>2, <3>3, <3>4, <3>6 DEF CandidateType
    <3> QED BY <3>4, <3>5, <3>7
  <2> QED BY <2>1, <2>2
<1>4. PICK d : d = Safe(r)
    OBVIOUS
<1>5. /\ d \in CandidateType
      /\ d.row = r.row /\ d.offers = r.offers /\ d.offer = r.offer /\ d.conflict = r.conflict
      /\ d.domain = r.domain /\ d.refs = r.refs /\ d.endpoints = r.endpoints
    BY <1>3, <1>4 DEF Safe, CandidateType, Low
<1>6. Fit(mode, d, pages)
  <2>1. \A p \in ToSet(d.refs) \ {Memory} : p \in pages /\ Says[p].row = d.row
      BY <1>3, <1>5 DEF Fit
  <2>2. \A e \in d.endpoints : e.source \in ToSet(d.refs)
      BY <1>3, <1>5 DEF Fit
  <2>3. mode = "product" /\ Contradictory(d.offers) => d.conflict
      BY <1>3, <1>5 DEF Fit
  <2> QED BY <1>5, <2>1, <2>2, <2>3 DEF Fit
<1>7. Known(confirmed, d, known)
    BY <1>3, <1>5 DEF Known
<1>8. Includes(mode, d, c) /\ d.row = c.row
    BY <1>3, <1>5 DEF Includes
<1> QED BY <1>2, <1>4, <1>6, <1>7, <1>8

-----------------------------------------------------------------------------
(* Verification.                                                            *)

\* The text of page p, if it is one, says that the row has the value.
Bears(mode, p, row, value) ==
    /\ p # Memory /\ ~Says[p].model /\ Says[p].row = row
    /\ Says[p].how \in {"together", "weakly"} /\ value = Shown(mode, p)

\* A page supports what it bears out.
LEMMA SupportFact ==
    ASSUME NEW mode, NEW p, NEW row, NEW value
    PROVE  /\ Support(mode, p, row, value) \in {0, 1, 2}
           /\ p # Memory /\ Genuine(p) /\ Support(mode, p, row, value) > 0 => Bears(mode, p, row, value)
BY DEF Support, Located, HardlyRejected, Learned, Genuine, Bears

\* The other page that is found has the best support there is.
LEMMA BestFact ==
    ASSUME NEW mode, NEW row, NEW claim, NEW led \in Seq(PagesOfRun), Others(mode, row, claim, led) # {}
    PROVE  /\ Best(mode, row, claim, led) \in ToSet(led)
           /\ Bears(mode, Best(mode, row, claim, led), row, claim.value)
<1> DEFINE support(i) == Support(mode, led[i], row, claim.value)
           others == Others(mode, row, claim, led)
           best == {i \in others : \A j \in others : support(j) =< support(i)}
<1>1. others \subseteq DOMAIN led /\ DOMAIN led \subseteq Nat
    BY DEF Others
<1>2. \A i \in others : support(i) \in {1, 2} /\ Genuine(led[i]) /\ support(i) > 0
  <2>1. \A i \in others : Genuine(led[i]) /\ support(i) > 0
      BY DEF Others
  <2>2. \A i \in others : support(i) \in {0, 1, 2}
      BY SupportFact
  <2> QED BY <2>1, <2>2
<1>3. best # {}
  <2> HIDE DEF support, others
  <2>1. CASE \E i \in others : support(i) = 2
    <3>1. PICK i \in others : support(i) = 2
        BY <2>1
    <3>2. \A j \in others : support(j) =< support(i)
        BY <3>1, <1>2
    <3> QED BY <3>2
  <2>2. CASE ~\E i \in others : support(i) = 2
    <3>1. \A i \in others : support(i) = 1
        BY <2>2, <1>2
    <3>2. PICK i : i \in others
        BY DEF others
    <3>3. \A j \in others : support(j) =< support(i)
        BY <3>1, <3>2
    <3> QED BY <3>2, <3>3
  <2> QED BY <2>1, <2>2
<1>4. PICK i : i = Lowest(best)
    OBVIOUS
<1>5. i \in others
  <2>1. best \subseteq Nat
      BY <1>1
  <2> HIDE DEF best
  <2>2. Lowest(best) \in best
      BY <1>3, <2>1, LowestFact
  <2> QED BY <1>4, <2>2 DEF best
<1>6. Best(mode, row, claim, led) = led[i]
    BY <1>4 DEF Best
<1> HIDE DEF best, others
<1>7. led[i] \in ToSet(led) /\ led[i] # Memory
    BY <1>1, <1>5, CandidatesAssumption DEF ToSet
<1>8. Genuine(led[i]) /\ Support(mode, led[i], row, claim.value) > 0
    BY <1>2, <1>5
<1> QED BY <1>6, <1>7, <1>8, SupportFact

\* What a verdict on a claim means.
LEMMA ClaimVerdictFact ==
    ASSUME NEW mode, NEW row, NEW claim, NEW led \in Seq(PagesOfRun), NEW v, v = ClaimVerdict(mode, row, claim, led)
    PROVE  /\ v.label = "grounded" => Bears(mode, claim.source, row, claim.value)
           /\ v.score > 0 => \/ Bears(mode, claim.source, row, claim.value)
                             \/ v.page # Nothing /\ Bears(mode, v.page, row, claim.value)
           /\ v.page # Nothing => v.page \in ToSet(led) /\ Bears(mode, v.page, row, claim.value)
<1>1. PICK label : label = Label(mode, row, claim, led)
    OBVIOUS
<1>2. PICK page : page = IF label = "complementary" THEN Best(mode, row, claim, led) ELSE Nothing
    OBVIOUS
<1>3. /\ v.label = label /\ v.page = page
      /\ v.score = IF label = "complementary" THEN Support(mode, page, row, claim.value)
                   ELSE Cited(mode, row, claim)
    BY <1>1, <1>2 DEF ClaimVerdict, LabelledVerdict
<1>4. Cited(mode, row, claim) \in {0, 1, 2}
    BY SupportFact DEF Cited
<1>5. Cited(mode, row, claim) > 0 => Bears(mode, claim.source, row, claim.value)
    BY SupportFact DEF Cited
<1>6. label = "grounded" => Cited(mode, row, claim) > 0
    BY <1>1 DEF Label
<1>7. label = "complementary" => Others(mode, row, claim, led) # {}
    BY <1>1 DEF Label
<1>8. label = "complementary" => page \in ToSet(led) /\ Bears(mode, page, row, claim.value)
    BY <1>2, <1>7, BestFact
<1>9. Nothing \notin ToSet(led)
    BY CandidatesAssumption, ToSetFinite
<1> QED BY <1>2, <1>3, <1>5, <1>6, <1>8, <1>9

\* The claims of a candidate rest on what it cites.
LEMMA ClaimsCited ==
    ASSUME NEW mode, NEW c, NEW pages, Fit(mode, c, pages)
    PROVE  \A claim \in Claims(mode, c) : claim.source \in ToSet(c.refs)
<1>1. CASE mode # "product"
    BY <1>1 DEF Claims, Fit
<1>2. CASE mode = "product"
  <2> DEFINE priced == {i \in DOMAIN c.refs : c.refs[i] # Memory /\ Says[c.refs[i]].price # Nothing}
  <2>1. priced \subseteq Nat
      BY DEF Fit, CandidateType
  <2>2. priced # {} => Lowest(priced) \in priced
    <3> HIDE DEF priced
    <3> QED BY <2>1, LowestFact
  <2>3. \A claim \in Claims(mode, c) : priced # {} /\ claim.source = c.refs[Lowest(priced)]
      BY <1>2 DEF Claims
  <2>4. \A i \in priced : c.refs[i] \in ToSet(c.refs)
      BY DEF ToSet
  <2> HIDE DEF priced
  <2> QED BY <2>2, <2>3, <2>4
<1> QED BY <1>1, <1>2

\* What the verdict on a candidate means.
LEMMA VerdictFact ==
    ASSUME NEW mode, NEW c, NEW led \in Seq(PagesOfRun), NEW v, v = Verdict(mode, c, led)
    PROVE  /\ v.pages \subseteq ToSet(led) /\ IsFiniteSet(v.pages)
           /\ \A p \in v.pages : p # Memory /\ Says[p].row = c.row
           /\ v.verified => /\ Claims(mode, c) # {}
                            /\ \A claim \in Claims(mode, c) :
                                 \/ Bears(mode, claim.source, c.row, claim.value)
                                 \/ \E p \in v.pages : Bears(mode, p, c.row, claim.value)
           /\ v.decision = "proceed" =>
                \A claim \in Claims(mode, c) : Bears(mode, claim.source, c.row, claim.value)
<1> DEFINE each == {ClaimVerdict(mode, c.row, claim, led) : claim \in Claims(mode, c)}
<1>1. /\ v.verified = (each # {} /\ {x \in each : x.score > 0} = each)
      /\ v.decision = "proceed" =>
           "contradicted" \notin {x.label : x \in each} /\ {x.label : x \in each} \subseteq {"grounded"}
      /\ v.pages = {x.page : x \in each} \ {Nothing}
  <2> HIDE DEF each
  <2>1. PICK minor : minor = Says[Head(c.refs)].minor /\ v = Overall(each, minor)
      BY DEF Verdict, each
  <2>2. PICK labels : labels = {x.label : x \in each} \cup {minor}
      OBVIOUS
  <2>3. v.decision = IF each = {} \/ "contradicted" \in labels THEN "replan"
                     ELSE IF labels \subseteq {"grounded"} THEN "proceed" ELSE "regenerate"
      BY <2>1, <2>2 DEF Overall
  <2>4. v.verified = (each # {} /\ {x \in each : x.score > 0} = each)
      BY <2>1 DEF Overall
  <2>5. v.pages = {x.page : x \in each} \ {Nothing}
      BY <2>1 DEF Overall
  <2> QED BY <2>2, <2>3, <2>4, <2>5
<1>2. \A claim \in Claims(mode, c) : ClaimVerdict(mode, c.row, claim, led) \in each
    OBVIOUS
<1>3. \A x \in each : x.page # Nothing => x.page \in ToSet(led) /\ x.page # Memory /\ Says[x.page].row = c.row
    BY ClaimVerdictFact DEF Bears
<1>4. v.pages \subseteq ToSet(led)
    BY <1>1, <1>3
<1>5. IsFiniteSet(v.pages)
    BY <1>4, ToSetFinite, FS_Subset
<1>6. \A p \in v.pages : p # Memory /\ Says[p].row = c.row
    BY <1>1, <1>3
<1>7. ASSUME v.verified, NEW claim \in Claims(mode, c)
      PROVE  \/ Bears(mode, claim.source, c.row, claim.value)
             \/ \E p \in v.pages : Bears(mode, p, c.row, claim.value)
  <2>1. PICK x \in each : x = ClaimVerdict(mode, c.row, claim, led)
      BY <1>2
  <2>2. x.score > 0
      BY <1>1, <1>7
  <2>3. x.page # Nothing => x.page \in v.pages
      BY <1>1
  <2> QED BY <2>1, <2>2, <2>3, ClaimVerdictFact
<1>8. v.verified => Claims(mode, c) # {}
    BY <1>1
<1>9. ASSUME v.decision = "proceed", NEW claim \in Claims(mode, c)
      PROVE  Bears(mode, claim.source, c.row, claim.value)
  <2>1. PICK x \in each : x = ClaimVerdict(mode, c.row, claim, led)
      BY <1>2
  <2>2. x.label = "grounded"
      BY <1>1, <1>9
  <2> QED BY <2>1, <2>2, ClaimVerdictFact
<1> QED BY <1>4, <1>5, <1>6, <1>7, <1>8, <1>9

\* What stands for a candidate stands when there are more pages.
LEMMA MorePages ==
    ASSUME NEW mode, NEW confirmed, NEW c, NEW pages, NEW more, pages \subseteq more
    PROVE  /\ Fit(mode, c, pages) => Fit(mode, c, more)
           /\ Known(confirmed, c, pages) => Known(confirmed, c, more)
           /\ \A row : Backs(confirmed, row, pages) => Backs(confirmed, row, more)
<1>1. Fit(mode, c, pages) => Fit(mode, c, more)
    BY DEF Fit
<1>2. \A row : Backs(confirmed, row, pages) => Backs(confirmed, row, more)
    BY DEF Backs
<1> QED BY <1>1, <1>2 DEF Known

\* Repaired citations lead to the row's pages, and change nothing else.
LEMMA RepointedFit ==
    ASSUME NEW mode, NEW c, NEW pages, NEW v, Fit(mode, c, pages),
           v.pages \subseteq pages \cap PagesOfRun, IsFiniteSet(v.pages),
           \A p \in v.pages : Says[p].row = c.row
    PROVE  /\ Fit(mode, Repointed(c, v), pages)
           /\ Includes(mode, Repointed(c, v), c)
           /\ Repointed(c, v).row = c.row /\ Repointed(c, v).conflict = c.conflict
           /\ Repointed(c, v).endpoints = c.endpoints /\ Repointed(c, v).offer = c.offer
           /\ ToSet(c.refs) \subseteq ToSet(Repointed(c, v).refs)
           /\ v.pages \subseteq ToSet(Repointed(c, v).refs)
<1>1. PICK S : S = v.pages \ ToSet(c.refs)
    OBVIOUS
<1>2. IsFiniteSet(S)
    BY <1>1, FS_Subset
<1>3. PICK t : t = SetToSeq(S)
    OBVIOUS
<1>4. t \in Seq(S) /\ ToSet(t) = S
    BY <1>2, <1>3, SetToSeqFact
<1>5. t \in Seq(PagesOfRun) /\ t \in Seq(Sources)
    BY <1>1, <1>4 DEF Sources
<1>6. PICK d : d = Repointed(c, v)
    OBVIOUS
<1>7. c \in CandidateType
    BY DEF Fit
<1>8. PICK refs : refs = c.refs \o t
    OBVIOUS
<1>9. refs \in Seq(Sources) /\ ToSet(refs) = ToSet(c.refs) \cup S
  <2>1. c.refs \in Seq(Sources)
      BY <1>7 DEF CandidateType
  <2> QED BY <2>1, <1>4, <1>5, <1>8, ToSetConcat
<1>10. /\ d.row = c.row /\ d.offers = c.offers /\ d.offer = c.offer /\ d.conflict = c.conflict
       /\ d.domain = c.domain /\ d.refs = refs /\ d.endpoints = c.endpoints
  <2>1. d = [c EXCEPT !.refs = refs]
      BY <1>1, <1>3, <1>6, <1>8 DEF Repointed
  <2> QED BY <2>1, <1>7 DEF CandidateType
<1>11. d \in CandidateType
  <2>1. d = [c EXCEPT !.refs = refs]
      BY <1>1, <1>3, <1>6, <1>8 DEF Repointed
  <2> QED BY <2>1, <1>7, <1>9 DEF CandidateType
<1>12. Fit(mode, d, pages)
  <2>1. \A p \in ToSet(d.refs) \ {Memory} : p \in pages /\ Says[p].row = d.row
      BY <1>1, <1>9, <1>10 DEF Fit
  <2>2. \A e \in d.endpoints : e.source \in ToSet(d.refs)
      BY <1>9, <1>10 DEF Fit
  <2>3. mode = "product" /\ Contradictory(d.offers) => d.conflict
      BY <1>10 DEF Fit
  <2> QED BY <1>11, <2>1, <2>2, <2>3 DEF Fit
<1>13. Includes(mode, d, c)
    BY <1>7, <1>10 DEF Includes
<1> QED BY <1>1, <1>6, <1>9, <1>10, <1>12, <1>13

\* d cites what c cites, then other pages.
CitesMore(d, c) == \E t \in Seq(PagesOfRun) : d.refs = c.refs \o t

\* Repaired citations are those there were, then other pages.
LEMMA RepointedCites ==
    ASSUME NEW c \in CandidateType, NEW v, v.pages \subseteq PagesOfRun, IsFiniteSet(v.pages)
    PROVE  CitesMore(Repointed(c, v), c)
<1>1. PICK S : S = v.pages \ ToSet(c.refs)
    OBVIOUS
<1>2. IsFiniteSet(S)
    BY <1>1, FS_Subset
<1>3. PICK t : t = SetToSeq(S)
    OBVIOUS
<1>4. t \in Seq(S) /\ S \subseteq PagesOfRun
    BY <1>1, <1>2, <1>3, SetToSeqFact
<1>5. t \in Seq(PagesOfRun)
    BY <1>4
<1>6. Repointed(c, v) = [c EXCEPT !.refs = c.refs \o t]
    BY <1>1, <1>3 DEF Repointed
<1>7. Repointed(c, v).refs = c.refs \o t
    BY <1>6 DEF CandidateType
<1> QED BY <1>5, <1>7 DEF CitesMore

\* Repairing the citations of a candidate leaves it the claims it has.
LEMMA ClaimsKept ==
    ASSUME NEW mode, NEW c \in CandidateType, NEW d, NEW t \in Seq(PagesOfRun), Claims(mode, c) # {},
           d.refs = c.refs \o t, d.endpoints = c.endpoints, d.offer = c.offer
    PROVE  Claims(mode, d) = Claims(mode, c)
<1>1. CASE mode # "product"
    BY <1>1 DEF Claims
<1>2. CASE mode = "product"
  <2> DEFINE priced(refs) == {i \in DOMAIN refs : refs[i] # Memory /\ Says[refs[i]].price # Nothing}
  <2>1. PICK s, u : s = c.refs /\ u = d.refs
      OBVIOUS
  <2>2. /\ s \in Seq(Sources) /\ u \in Seq(Sources) /\ t \in Seq(Sources)
        /\ DOMAIN s = 1..Len(s) /\ DOMAIN u = 1..Len(u) /\ Len(s) \in Nat /\ Len(u) \in Nat
        /\ Len(s) =< Len(u) /\ \A i \in 1..Len(s) : u[i] = s[i]
    <3>1. s \in Seq(Sources) /\ t \in Seq(Sources) /\ u = s \o t
        BY <2>1 DEF CandidateType, Sources
    <3> QED BY <3>1
  <2>3. priced(s) # {} /\ Priced(c.offer.price)
      BY <1>2, <2>1 DEF Claims
  <2>4. priced(s) \subseteq priced(u) /\ \A i \in priced(u) : i \in priced(s) \/ i > Len(s)
      BY <2>2
  <2>5. priced(s) \subseteq Nat /\ priced(u) \subseteq Nat /\ \A i \in priced(s) : i =< Len(s) /\ u[i] = s[i]
      BY <2>2
  <2>6. priced(u) # {}
      BY <2>3, <2>4
  <2>7. PICK low, high : low = Lowest(priced(s)) /\ high = Lowest(priced(u))
      OBVIOUS
  <2>8. /\ low \in priced(s) /\ \A i \in priced(s) : low =< i
        /\ high \in priced(u) /\ \A i \in priced(u) : high =< i
    <3> HIDE DEF priced
    <3> QED BY <2>3, <2>5, <2>6, <2>7, LowestFact
  <2>9. low = high
    <3> HIDE DEF priced
    <3>1. high =< low
        BY <2>4, <2>8
    <3>2. high =< Len(s)
        BY <2>2, <2>5, <2>8, <3>1
    <3>3. high \in priced(s)
        BY <2>2, <2>4, <2>5, <2>8, <3>2
    <3> QED BY <2>5, <2>8, <3>1, <3>3
  <2>10. Claims(mode, c) = {[value |-> c.offer.price, source |-> s[low]]}
      BY <1>2, <2>1, <2>3, <2>7 DEF Claims
  <2>11. Claims(mode, d) = {[value |-> c.offer.price, source |-> u[high]]}
      BY <1>2, <2>1, <2>6, <2>7 DEF Claims
  <2> QED BY <2>5, <2>8, <2>9, <2>10, <2>11
<1> QED BY <1>1, <1>2

\* A valid candidate of a confirmed request meets its requirements on the row's own pages.
LEMMA ValidBacks ==
    ASSUME NEW mode, NEW confirmed \in BOOLEAN, NEW c, NEW pages, NEW known, Fit(mode, c, pages),
           Known(confirmed, c, known), Validated(mode, confirmed, c)
    PROVE  Backs(confirmed, c.row, known) /\ ~c.conflict
<1>1. ~c.conflict /\ ~Blocked(c, confirmed)
    BY DEF Validated
<1>2. ASSUME confirmed, ToSet(c.refs) \subseteq known \cup {Memory}, NEW r \in Required
      PROVE  \E p \in known :
               /\ Says[p].row = c.row /\ Says[p].own
               /\ Says[p].signs[r] = (IF RequirementKind[r] = "exclusion" THEN "contradicted" ELSE "supported")
  <2>1. PICK sign : sign = IF RequirementKind[r] = "exclusion" THEN "contradicted" ELSE "supported"
      OBVIOUS
  <2>2. Status(c, r) = sign /\ sign # "not_found"
    <3>1. Qualification(c, confirmed) = "qualified"
        BY <1>1, <1>2 DEF Blocked
    <3>2. Satisfied(c, r)
        BY <1>2, <3>1 DEF Qualification
    <3> QED BY <2>1, <3>2 DEF Satisfied
  <2>3. Cardinality(Signs(c, r)) = 1 /\ sign = CHOOSE s \in Signs(c, r) : TRUE
      BY <2>2 DEF Status
  <2>4. Signs(c, r) # {}
      BY <2>3, FS_EmptySet
  <2>5. sign \in Signs(c, r)
      BY <2>3, <2>4
  <2>6. PICK p \in ToSet(c.refs) \ {Memory} : Says[p].own /\ sign = Says[p].signs[r]
      BY <2>5 DEF Signs
  <2>7. p \in known /\ Says[p].row = c.row
      BY <1>2, <2>6 DEF Fit
  <2> QED BY <2>1, <2>6, <2>7
<1>3. ASSUME ToSet(c.refs) \subseteq known \cup {Memory} PROVE Backs(confirmed, c.row, known)
    BY <1>2, <1>3 DEF Backs
<1> QED BY <1>1, <1>3 DEF Known

\* Rows stay apart in what is picked of a list.
LEMMA PickedSingle ==
    ASSUME NEW T, NEW s \in Seq(T), NEW at, Single(s)
    PROVE  Single(Picked(s, at))
<1>1. PICK e : Embeds(e, Picked(s, at), s, at, Len(s))
    BY PickedEmbeds
<1>2. PICK p : p = Picked(s, at)
    OBVIOUS
<1>3. p \in Seq(T)
    BY <1>2, PickedElements
<1>4. /\ DOMAIN p = 1..Len(p) /\ Len(p) \in Nat /\ DOMAIN s = 1..Len(s)
      /\ \A i \in 1..Len(p) : e[i] \in DOMAIN s /\ e[i] \in Nat /\ p[i] = s[e[i]]
      /\ \A i, j \in 1..Len(p) : i < j => e[i] < e[j]
    BY <1>1, <1>2, <1>3 DEF Embeds
<1>5. ASSUME NEW i \in DOMAIN p, NEW j \in DOMAIN p, p[i].row = p[j].row PROVE i = j
  <2>1. e[i] = e[j]
      BY <1>4, <1>5 DEF Single
  <2>2. ~(i < j) /\ ~(j < i)
      BY <1>4, <2>1
  <2> QED BY <1>4, <2>2
<1> QED BY <1>2, <1>5 DEF Single

-----------------------------------------------------------------------------
(* The run, and its inductive invariant.                                        *)

Steps == {"gather", "judge", "verified", "replan", "drafted", "done"}

RunTypeOK ==
    /\ request \in Requests /\ step \in Steps
    /\ ledger \in Seq(PagesOfRun) /\ extracted \in 0..MaxExtract /\ read \subseteq PagesOfRun
    /\ candidates \in Seq(CandidateType) /\ qualified \in Seq(CandidateType)
    /\ output \in Seq(CandidateType)
    /\ broadened \in BOOLEAN /\ replanned \in BOOLEAN /\ DOMAIN verdicts \subseteq Rows
    /\ released \subseteq Rows /\ held \subseteq Rows /\ withheld \subseteq Rows
    /\ surface \subseteq Rows /\ ready \subseteq Rows

Sound(list) == AllFit(request.mode, request.confirmed, list, ToSet(ledger), read)

\* One candidate of a row, which covers all that was read of it.
CandidatesInv ==
    /\ Sound(candidates) /\ Single(candidates)
    /\ \A p \in read : \E i \in DOMAIN candidates : Covers(request.mode, candidates[i], p)

\* What is qualified is valid and a candidate without a conflict.
QualifiedInv ==
    /\ Sound(qualified) /\ Single(qualified)
    /\ \A q \in DOMAIN qualified :
         /\ Validated(request.mode, request.confirmed, qualified[q])
         /\ \E i \in DOMAIN candidates : candidates[i].row = qualified[q].row /\ ~candidates[i].conflict

\* An output row c comes from q, verified if that is asked for, with its citations repaired.
IsAnswer(c, q) ==
    IF request.verify
    THEN /\ q.row \in DOMAIN verdicts /\ verdicts[q.row] = Verdict(request.mode, q, ledger)
         /\ Accepted(verdicts[q.row]) /\ c = Repointed(q, verdicts[q.row])
    ELSE c = q

OutputInv ==
    /\ ~request.verify => DOMAIN verdicts = {} /\ step # "replan"
    /\ step \in {"verified", "drafted", "done"} =>
         /\ Single(output)
         /\ \A i \in DOMAIN output : \E q \in DOMAIN qualified : IsAnswer(output[i], qualified[q])

ReleaseInv ==
    /\ step \notin {"drafted", "done"} => released = {}
    /\ step \in {"drafted", "done"} =>
         /\ released \cup held \subseteq RowsOf(output)
         /\ \A row \in surface : \E i \in DOMAIN candidates : candidates[i].row = row /\ ~candidates[i].conflict
    /\ \A row \in released : ~HoldsBack(row)
    /\ released \cap held = {}
    /\ step # "done" => ready = {}
    /\ step = "done" => \A i \in DOMAIN candidates : candidates[i].conflict => candidates[i].row \in withheld
    /\ \A i \in DOMAIN output : output[i].row \in ready =>
         /\ output[i].row \in DOMAIN verdicts
         /\ Readiness(request.mode, output[i], request.confirmed, verdicts[output[i].row],
                      output[i].row \in request.disputed, GradeFloor) = "review_ready"

RunInv == RunTypeOK /\ CandidatesInv /\ QualifiedInv /\ OutputInv /\ ReleaseInv /\ ReserveUsed

\* The type of a request.
LEMMA RequestFact ==
    ASSUME RunTypeOK
    PROVE  /\ request.mode \in Modes /\ request.confirmed \in BOOLEAN /\ request.verify \in BOOLEAN
           /\ request.recalled \in [Rows -> Nat \cup {Nothing}]
BY ProcurementAssumption DEF RunTypeOK, RequestType

\* A run begins with nothing.
LEMMA RunInitInv == ProcurementInit => RunInv
<1> SUFFICES ASSUME ProcurementInit PROVE RunInv
    OBVIOUS
<1> USE DEF ProcurementInit
<1>1. DOMAIN candidates = {} /\ DOMAIN qualified = {} /\ DOMAIN output = {} /\ DOMAIN verdicts = {}
    OBVIOUS
<1>2. RunTypeOK
  <2>1. extracted \in 0..MaxExtract
      BY ProcurementAssumption
  <2>2. /\ ledger \in Seq(PagesOfRun) /\ candidates \in Seq(CandidateType)
        /\ qualified \in Seq(CandidateType) /\ output \in Seq(CandidateType)
      OBVIOUS
  <2>3. request \in Requests /\ step \in Steps /\ broadened \in BOOLEAN /\ replanned \in BOOLEAN
      BY DEF Steps
  <2>4. /\ released = {} /\ held = {} /\ withheld = {} /\ surface = {} /\ ready = {} /\ read = {}
      OBVIOUS
  <2> QED BY <1>1, <2>1, <2>2, <2>3, <2>4 DEF RunTypeOK
<1>3. CandidatesInv
    BY <1>1 DEF CandidatesInv, Sound, AllFit, Single
<1>4. QualifiedInv
    BY <1>1 DEF QualifiedInv, Sound, AllFit, Single
<1>5. OutputInv
    BY <1>1 DEF OutputInv
<1>6. ReleaseInv
    BY <1>1 DEF ReleaseInv
<1>7. ReserveUsed
    BY DEF ReserveUsed
<1> QED BY <1>2, <1>3, <1>4, <1>5, <1>6, <1>7 DEF RunInv

-----------------------------------------------------------------------------
(* Acquisition.                                                             *)

\* A round yields a list of pages.
LEMMA FetchesType == ASSUME NEW most, NEW pages \in Fetches(most) PROVE pages \in Seq(PagesOfRun)
<1>1. PICK k \in 0..most : \E S \in kSubset(k, PagesOfRun) : pages \in SetToSeqs(S)
    BY DEF Fetches
<1>4. PICK S \in kSubset(k, PagesOfRun) : pages \in SetToSeqs(S)
    BY <1>1
<1>2. S \subseteq PagesOfRun /\ Cardinality(S) \in Nat
    BY <1>4 DEF kSubset
<1>3. pages \in [1..Cardinality(S) -> S]
    BY <1>4 DEF SetToSeqs
<1> QED BY <1>2, <1>3

\* Preparing a list leaves one fit candidate of a row, which covers what was covered.
LEMMA PreparedList ==
    ASSUME NEW confirmed, NEW pages, NEW known, RunTypeOK, NEW list,
           AllFit(request.mode, confirmed, list, pages, known)
    PROVE  /\ AllFit(request.mode, confirmed, Prepared(list), pages, known) /\ Single(Prepared(list))
           /\ \A j \in DOMAIN list : \E i \in DOMAIN Prepared(list) :
                Includes(request.mode, Prepared(list)[i], list[j])
<1> DEFINE one(c) == Safe(Recall(request.mode, request.recalled, c))
<1>1. request.mode \in Modes /\ request.recalled \in [Rows -> Nat \cup {Nothing}]
    BY RequestFact
<1>2. PICK merged : merged = Deduped(request.mode, list)
    OBVIOUS
<1>3. /\ AllFit(request.mode, confirmed, merged, pages, known) /\ Single(merged)
      /\ \A j \in DOMAIN list : \E i \in DOMAIN merged : Includes(request.mode, merged[i], list[j])
    BY <1>1, <1>2, DedupedFit
<1>4. merged \in Seq(CandidateType) /\ DOMAIN merged = 1..Len(merged) /\ Len(merged) \in Nat
    BY <1>3 DEF AllFit
<1>5. PICK p : p = Prepared(list)
    OBVIOUS
<1>6. DOMAIN p = DOMAIN merged /\ \A i \in DOMAIN merged : p[i] = one(merged[i])
    BY <1>2, <1>5 DEF Prepared
<1>7. ASSUME NEW i \in DOMAIN merged
      PROVE  /\ Fit(request.mode, p[i], pages) /\ Known(confirmed, p[i], known)
             /\ Includes(request.mode, p[i], merged[i]) /\ p[i].row = merged[i].row
  <2>1. Fit(request.mode, merged[i], pages) /\ Known(confirmed, merged[i], known)
      BY <1>3 DEF AllFit
  <2> QED BY <1>1, <1>6, <2>1, PreparedFit
<1>8. p \in Seq(CandidateType)
  <2>1. \A i \in DOMAIN merged : p[i] \in CandidateType
      BY <1>7 DEF Fit
  <2>2. p = [i \in DOMAIN merged |-> one(merged[i])]
      BY <1>2, <1>5 DEF Prepared
  <2> HIDE DEF one
  <2>3. p \in [1..Len(merged) -> CandidateType]
      BY <1>4, <2>1, <2>2
  <2> QED BY <1>4, <2>3
<1>9. AllFit(request.mode, confirmed, p, pages, known)
    BY <1>6, <1>7, <1>8 DEF AllFit
<1>10. Single(p)
    BY <1>3, <1>6, <1>7 DEF Single
<1>11. ASSUME NEW j \in DOMAIN list
       PROVE  \E i \in DOMAIN p : Includes(request.mode, p[i], list[j])
  <2>1. PICK i \in DOMAIN merged : Includes(request.mode, merged[i], list[j])
      BY <1>3
  <2> QED BY <2>1, <1>6, <1>7, IncludesFacts
<1> QED BY <1>5, <1>9, <1>10, <1>11

\* What qualifies of a list.
LEMMA QualifiedList ==
    ASSUME NEW list \in Seq(CandidateType), Single(list)
    PROVE  /\ Qualified(list) \in Seq(CandidateType) /\ Single(Qualified(list))
           /\ \A q \in DOMAIN Qualified(list) :
                /\ Validated(request.mode, request.confirmed, Qualified(list)[q])
                /\ \E i \in DOMAIN list : Qualified(list)[q] = list[i]
<1> DEFINE at(s) == {i \in DOMAIN s : Validated(request.mode, request.confirmed, s[i])}
<1>1. PICK s : s = Ranked(request.mode, request.confirmed, list)
    OBVIOUS
<1>2. s \in Seq(CandidateType) /\ Single(s)
    BY <1>1, RankedElements
<1>3. ASSUME NEW x \in ToSet(s) PROVE \E i \in DOMAIN list : x = list[i]
  <2>1. x \in ToSet(list)
      BY <1>1, RankedElements
  <2> QED BY <2>1 DEF ToSet
<1>4. PICK A : A = at(s)
    OBVIOUS
<1>5. Qualified(list) = Picked(s, A)
    BY <1>1, <1>4 DEF Qualified, Valid
<1>6. PICK p : p = Picked(s, A)
    OBVIOUS
<1>7. /\ p \in Seq(CandidateType)
      /\ \A i \in DOMAIN p : \E n \in A \cap DOMAIN s : p[i] = s[n]
    BY <1>2, <1>6, PickedElements
<1>8. Single(p)
    BY <1>2, <1>6, PickedSingle
<1>9. ASSUME NEW q \in DOMAIN p
      PROVE  /\ Validated(request.mode, request.confirmed, p[q])
             /\ \E i \in DOMAIN list : p[q] = list[i]
  <2>1. PICK n \in A \cap DOMAIN s : p[q] = s[n]
      BY <1>7
  <2>2. Validated(request.mode, request.confirmed, s[n])
      BY <1>4, <2>1
  <2>3. s[n] \in ToSet(s)
      BY <2>1 DEF ToSet
  <2> QED BY <2>1, <2>2, <2>3, <1>3
<1> QED BY <1>5, <1>6, <1>7, <1>8, <1>9

\* What the extraction budget lets through.
LEMMA ExtractedFact ==
    ASSUME RunTypeOK, NEW pages \in Seq(PagesOfRun), NEW tried, tried = Extracted(pages)
    PROVE  /\ tried \in Seq(PagesOfRun) /\ ToSet(tried) \subseteq ToSet(pages)
           /\ extracted + Len(tried) \in 0..MaxExtract
<1>1. PICK n : n = Low(Len(pages), MaxExtract - extracted)
    OBVIOUS
<1>2. extracted \in 0..MaxExtract /\ MaxExtract \in Nat /\ Len(pages) \in Nat
    BY ProcurementAssumption DEF RunTypeOK
<1>3. n \in 0..Len(pages) /\ n =< MaxExtract - extracted
    BY <1>1, <1>2 DEF Low
<1>4. tried = SubSeq(pages, 1, n)
    BY <1>1 DEF Extracted
<1>5. tried \in Seq(PagesOfRun) /\ Len(tried) = n /\ \A i \in 1..n : tried[i] = pages[i]
    BY <1>3, <1>4
<1>6. DOMAIN tried = 1..n /\ DOMAIN pages = 1..Len(pages)
    BY <1>5
<1>7. ToSet(tried) \subseteq ToSet(pages)
    BY <1>3, <1>5, <1>6 DEF ToSet
<1> QED BY <1>2, <1>3, <1>5, <1>7

\* The candidates of the pages that are taken.
LEMMA TakenFact ==
    ASSUME NEW mode \in Modes, NEW confirmed, NEW taken \in Seq(PagesOfRun), NEW pages, NEW known,
           ToSet(taken) \subseteq pages \cap known, NEW more,
           more = [i \in DOMAIN taken |-> Candidate(mode, taken[i])]
    PROVE  /\ more \in Seq(CandidateType) /\ AllFit(mode, confirmed, more, pages, known)
           /\ \A p \in ToSet(taken) : \E i \in DOMAIN more : Covers(mode, more[i], p)
<1>1. DOMAIN taken = 1..Len(taken) /\ Len(taken) \in Nat
    OBVIOUS
<1>2. DOMAIN more = DOMAIN taken /\ \A i \in DOMAIN taken : more[i] = Candidate(mode, taken[i])
    OBVIOUS
<1>3. \A i \in DOMAIN taken : taken[i] \in PagesOfRun /\ taken[i] \in ToSet(taken)
    BY <1>1 DEF ToSet
<1>4. \A i \in DOMAIN taken : /\ Fit(mode, more[i], pages) /\ Known(confirmed, more[i], known)
                              /\ Covers(mode, more[i], taken[i])
  <2> SUFFICES ASSUME NEW i \in DOMAIN taken
               PROVE  /\ Fit(mode, more[i], pages) /\ Known(confirmed, more[i], known)
                      /\ Covers(mode, more[i], taken[i])
      OBVIOUS
  <2>1. PICK p : p = taken[i]
      OBVIOUS
  <2>2. p \in PagesOfRun /\ p \in pages /\ p \in known
      BY <1>3, <2>1
  <2>3. Fit(mode, Candidate(mode, p), pages) /\ Covers(mode, Candidate(mode, p), p)
      BY <2>2, CandidateFit
  <2>4. Known(confirmed, Candidate(mode, p), known)
      BY <2>2, CandidateFit
  <2> QED BY <1>2, <2>1, <2>3, <2>4
<1>5. \A i \in DOMAIN more : more[i] \in CandidateType
    BY <1>2, <1>4 DEF Fit
<1>6. more \in Seq(CandidateType)
  <2>1. more \in [1..Len(taken) -> CandidateType]
      BY <1>1, <1>2, <1>5
  <2> QED BY <1>1, <2>1
<1>7. AllFit(mode, confirmed, more, pages, known)
    BY <1>2, <1>4, <1>6 DEF AllFit
<1>8. \A p \in ToSet(taken) : \E i \in DOMAIN more : Covers(mode, more[i], p)
    BY <1>2, <1>4 DEF ToSet
<1> QED BY <1>6, <1>7, <1>8

\* All that is in s is in u.
Holds(u, s) == \A j \in DOMAIN s : \E i \in DOMAIN u : u[i] = s[j]

\* Two fit lists make one.
LEMMA FitConcat ==
    ASSUME NEW mode, NEW confirmed, NEW pages, NEW known, NEW s, NEW t,
           AllFit(mode, confirmed, s, pages, known), AllFit(mode, confirmed, t, pages, known), NEW u, u = s \o t
    PROVE  /\ AllFit(mode, confirmed, u, pages, known)
           /\ Holds(u, s) /\ Holds(u, t)
<1>1. s \in Seq(CandidateType) /\ t \in Seq(CandidateType)
    BY DEF AllFit
<1>2. u \in Seq(CandidateType) /\ ToSet(u) = ToSet(s) \cup ToSet(t)
    BY <1>1, ToSetConcat
<1>3. ASSUME NEW i \in DOMAIN u PROVE Fit(mode, u[i], pages) /\ Known(confirmed, u[i], known)
  <2>1. u[i] \in ToSet(u)
      BY DEF ToSet
  <2>2. (\E j \in DOMAIN s : u[i] = s[j]) \/ (\E j \in DOMAIN t : u[i] = t[j])
      BY <1>2, <2>1 DEF ToSet
  <2> QED BY <2>2 DEF AllFit
<1>4. AllFit(mode, confirmed, u, pages, known)
    BY <1>2, <1>3 DEF AllFit
<1>5. ASSUME NEW j \in DOMAIN s PROVE \E i \in DOMAIN u : u[i] = s[j]
  <2>1. s[j] \in ToSet(u)
      BY <1>2 DEF ToSet
  <2> QED BY <2>1 DEF ToSet
<1>6. ASSUME NEW j \in DOMAIN t PROVE \E i \in DOMAIN u : u[i] = t[j]
  <2>1. t[j] \in ToSet(u)
      BY <1>2 DEF ToSet
  <2> QED BY <2>1 DEF ToSet
<1> QED BY <1>4, <1>5, <1>6 DEF Holds

\* After a round the candidates are consolidated, and what qualifies of them is valid.
LEMMA AcquireInv ==
    ASSUME RunTypeOK, CandidatesInv, NEW pages \in Seq(PagesOfRun), Acquire(pages), request' = request
    PROVE  /\ ledger' \in Seq(PagesOfRun) /\ extracted' \in 0..MaxExtract /\ read' \subseteq PagesOfRun
           /\ candidates' \in Seq(CandidateType) /\ qualified' \in Seq(CandidateType)
           /\ CandidatesInv' /\ QualifiedInv'
<1>1. PICK tried : tried = Extracted(pages)
    OBVIOUS
<1>2. PICK at : at = {i \in DOMAIN tried : ~Says[tried[i]].gated}
    OBVIOUS
<1>3. PICK taken : taken = Picked(tried, at)
    OBVIOUS
<1>4. PICK more : more = [i \in DOMAIN taken |-> Candidate(request.mode, taken[i])]
    OBVIOUS
<1>5. /\ ledger' = ledger \o pages /\ extracted' = extracted + Len(tried)
      /\ read' = read \cup ToSet(taken) /\ candidates' = Prepared(candidates \o more)
      /\ qualified' = Qualified(candidates')
    BY <1>1, <1>2, <1>3, <1>4 DEF Acquire, ConsolidatedWith
<1>6. tried \in Seq(PagesOfRun) /\ ToSet(tried) \subseteq ToSet(pages) /\ extracted' \in 0..MaxExtract
    BY <1>1, <1>5, ExtractedFact
<1>7. taken \in Seq(PagesOfRun) /\ \A i \in DOMAIN taken : \E n \in at \cap DOMAIN tried : taken[i] = tried[n]
    BY <1>3, <1>6, PickedElements
<1>8. ToSet(taken) \subseteq ToSet(pages)
    BY <1>6, <1>7 DEF ToSet
<1>9. ledger \in Seq(PagesOfRun) /\ request.mode \in Modes
    BY RequestFact DEF RunTypeOK
<1>10. ledger' \in Seq(PagesOfRun) /\ ToSet(ledger') = ToSet(ledger) \cup ToSet(pages)
    BY <1>5, <1>9, ToSetConcat
<1>11. PICK led, known : led = ToSet(ledger') /\ known = read'
    OBVIOUS
<1>12. ToSet(ledger) \subseteq led /\ read \subseteq known /\ ToSet(taken) \subseteq led \cap known
    BY <1>5, <1>8, <1>10, <1>11
<1>13. AllFit(request.mode, request.confirmed, candidates, led, known)
  <2>1. AllFit(request.mode, request.confirmed, candidates, ToSet(ledger), read)
      BY DEF CandidatesInv, Sound
  <2>2. \A c : /\ Fit(request.mode, c, ToSet(ledger)) => Fit(request.mode, c, led)
               /\ Known(request.confirmed, c, read) => Known(request.confirmed, c, known)
      BY <1>12, MorePages
  <2> QED BY <2>1, <2>2 DEF AllFit
<1>14. /\ AllFit(request.mode, request.confirmed, more, led, known)
       /\ \A p \in ToSet(taken) : \E i \in DOMAIN more : Covers(request.mode, more[i], p)
    BY <1>4, <1>7, <1>9, <1>12, TakenFact
<1>15. PICK all : all = candidates \o more
    OBVIOUS
<1>16. /\ AllFit(request.mode, request.confirmed, all, led, known)
       /\ Holds(all, candidates) /\ Holds(all, more)
  <2>1. AllFit(request.mode, request.confirmed, more, led, known)
      BY <1>14
  <2> QED BY <1>13, <1>15, <2>1, FitConcat
<1>17. \A p \in known : \E j \in DOMAIN all : Covers(request.mode, all[j], p)
  <2>1. \A p \in read : \E i \in DOMAIN candidates : Covers(request.mode, candidates[i], p)
      BY DEF CandidatesInv
  <2>2. \A p \in known : p \in read \/ p \in ToSet(taken)
      BY <1>5, <1>11
  <2> QED BY <1>14, <1>16, <2>1, <2>2 DEF Holds
<1>18. PICK now : now = candidates'
    OBVIOUS
<1>19. /\ AllFit(request.mode, request.confirmed, now, led, known) /\ Single(now)
       /\ \A j \in DOMAIN all : \E i \in DOMAIN now : Includes(request.mode, now[i], all[j])
  <2>1. now = Prepared(all)
      BY <1>5, <1>15, <1>18
  <2> QED BY <1>16, <2>1, PreparedList
<1>20. \A p \in known : \E i \in DOMAIN now : Covers(request.mode, now[i], p)
  <2> SUFFICES ASSUME NEW p \in known PROVE \E i \in DOMAIN now : Covers(request.mode, now[i], p)
      OBVIOUS
  <2>1. PICK j \in DOMAIN all : Covers(request.mode, all[j], p)
      BY <1>17
  <2>2. PICK i \in DOMAIN now : Includes(request.mode, now[i], all[j])
      BY <1>19
  <2> QED BY <2>1, <2>2, IncludesFacts
<1>21. CandidatesInv'
    BY <1>11, <1>18, <1>19, <1>20 DEF CandidatesInv, Sound
<1>22. now \in Seq(CandidateType)
    BY <1>19 DEF AllFit
<1>23. PICK q : q = Qualified(now)
    OBVIOUS
<1>24. /\ q \in Seq(CandidateType) /\ Single(q)
       /\ \A n \in DOMAIN q : /\ Validated(request.mode, request.confirmed, q[n])
                              /\ \E i \in DOMAIN now : q[n] = now[i]
    BY <1>19, <1>22, <1>23, QualifiedList
<1>25. AllFit(request.mode, request.confirmed, q, led, known)
    BY <1>19, <1>24 DEF AllFit
<1>26. \A n \in DOMAIN q : \E i \in DOMAIN now : now[i].row = q[n].row /\ ~now[i].conflict
    BY <1>24 DEF Validated
<1>27. qualified' = q
    BY <1>5, <1>18, <1>23
<1>28. QualifiedInv'
    BY <1>11, <1>18, <1>24, <1>25, <1>26, <1>27 DEF QualifiedInv, Sound
<1>29. read' \subseteq PagesOfRun
  <2>1. ToSet(taken) \subseteq PagesOfRun
      BY <1>7 DEF ToSet
  <2> QED BY <1>5, <2>1 DEF RunTypeOK
<1> QED BY <1>6, <1>10, <1>18, <1>21, <1>22, <1>24, <1>27, <1>28, <1>29

-----------------------------------------------------------------------------
(* Verification with a reserve.                                             *)

\* Of a list only those are not kept that do not pass or come after enough that are.
Spent(list, kept) ==
    /\ Len(kept) =< MaxValidated
    /\ \A i \in DOMAIN list :
         list[i].row \notin RowsOf(kept) /\ Passes(list[i]) =>
           /\ Len(kept) >= MinValidated
           /\ \A j \in DOMAIN list : list[j].row \in RowsOf(kept) => j < i

\* What is kept of a list has passed, and was checked.
Checked(list, kept, rows) ==
    /\ rows \subseteq RowsOf(list)
    /\ \A k \in DOMAIN kept : \E i \in DOMAIN list :
         kept[k] = list[i] /\ Passes(list[i]) /\ list[i].row \in rows

\* How many are looked at.
LEMMA LookedFact ==
    ASSUME NEW list, Len(list) \in Nat, NEW n, n = Looked(list)
    PROVE  n \in 0..Len(list) /\ (n = Len(list) \/ Len(Passing(list, n)) >= MinValidated)
<1> DEFINE T == {k \in Low(MaxValidated, Len(list))..Len(list) :
                   k = Len(list) \/ Len(Passing(list, k)) >= MinValidated}
<1>1. Low(MaxValidated, Len(list)) \in 0..Len(list)
    BY ProcurementAssumption DEF Low
<1>2. PICK low : low = Low(MaxValidated, Len(list))
    OBVIOUS
<1>3. \A k \in low..Len(list) : k \in 0..Len(list)
    BY <1>1, <1>2
<1>4. Len(list) \in low..Len(list)
    BY <1>1, <1>2
<1>5. Len(list) \in T /\ \A k \in T : k \in 0..Len(list)
    BY <1>2, <1>3, <1>4
<1>6. T # {} /\ T \subseteq Nat
    BY <1>5
<1>7. Lowest(T) \in T
  <2> HIDE DEF T
  <2> QED BY <1>6, LowestFact
<1>8. n = Lowest(T)
    BY DEF Looked
<1>9. n \in T
  <2> HIDE DEF T
  <2> QED BY <1>7, <1>8
<1> QED BY <1>5, <1>9

\* The rows of a list.
LEMMA RowsFact ==
    ASSUME NEW list, NEW i \in DOMAIN list
    PROVE  list[i].row \in RowsOf(list)
BY DEF RowsOf

\* The reserve is used as far as it is needed, and no further.
LEMMA ReserveFact ==
    ASSUME NEW list \in Seq(CandidateType), Single(list), NEW r, r = WithReserve(list)
    PROVE  /\ r.kept \in Seq(CandidateType) /\ Single(r.kept)
           /\ Checked(list, r.kept, r.checked) /\ Spent(list, r.kept)
<1>1. PICK n : n = Looked(list)
    OBVIOUS
<1>2. /\ Len(list) \in Nat /\ DOMAIN list = 1..Len(list)
      /\ n \in 0..Len(list) /\ (n = Len(list) \/ Len(Passing(list, n)) >= MinValidated)
  <2>1. Len(list) \in Nat /\ DOMAIN list = 1..Len(list)
      OBVIOUS
  <2> QED BY <1>1, <2>1, LookedFact
<1>3. PICK len \in Nat : len = Len(list) /\ DOMAIN list = 1..len
    BY <1>2
<1>4. n \in 0..len
    BY <1>2, <1>3
<1>5. n \in Nat /\ n =< len
    BY <1>3, <1>4
<1>6. \A i \in 1..n : i \in 1..len
    BY <1>3, <1>5
<1>7. PICK A : A = {i \in 1..n : Passes(list[i])}
    OBVIOUS
<1>8. PICK p : p = Picked(list, A)
    OBVIOUS
<1>9. p = Passing(list, n)
    BY <1>7, <1>8 DEF Passing
<1>10. PICK e : Embeds(e, p, list, A, Len(list))
    BY <1>8, PickedEmbeds
<1>11. p \in Seq(CandidateType) /\ Single(p)
  <2>1. p \in Seq(CandidateType)
      BY <1>8, PickedEmbeds
  <2>2. Single(p)
      BY <1>8, PickedSingle
  <2> QED BY <2>1, <2>2
<1>12. Len(p) \in Nat /\ DOMAIN p = 1..Len(p)
    BY <1>11
<1>13. /\ \A k \in 1..Len(p) : e[k] \in 1..n /\ e[k] \in DOMAIN list /\ p[k] = list[e[k]] /\ Passes(list[e[k]])
       /\ \A k, l \in 1..Len(p) : k < l => e[k] < e[l]
       /\ \A i \in A : \E k \in 1..Len(p) : e[k] = i
  <2>1. /\ e \in [1..Len(p) -> A \cap 1..Len(list)]
        /\ \A k, l \in 1..Len(p) : k < l => e[k] < e[l]
        /\ \A i \in A \cap 1..Len(list) : \E k \in 1..Len(p) : e[k] = i
        /\ \A k \in 1..Len(p) : p[k] = list[e[k]]
      BY <1>10 DEF Embeds
  <2>2. A \subseteq 1..Len(list) /\ A \subseteq 1..n /\ \A i \in A : Passes(list[i])
      BY <1>7, <1>3, <1>6
  <2>3. \A k \in 1..Len(p) : e[k] \in A
      BY <2>1
  <2> QED BY <1>2, <2>1, <2>2, <2>3
<1>14. PICK m : m = Low(MaxValidated, Len(p))
    OBVIOUS
<1>15. /\ m \in 0..Len(p) /\ m =< MaxValidated /\ (m = Len(p) \/ (m = MaxValidated /\ m < Len(p)))
       /\ MinValidated \in Nat /\ MinValidated =< MaxValidated /\ MaxValidated \in Nat
  <2>1. MinValidated \in Nat /\ MaxValidated \in Nat /\ MinValidated =< MaxValidated
      BY ProcurementAssumption
  <2>2. PICK size \in Nat : size = Len(p)
      BY <1>12
  <2>3. m = IF MaxValidated < size THEN MaxValidated ELSE size
      BY <1>14, <2>2 DEF Low
  <2>4. m \in 0..size /\ m =< MaxValidated /\ (m = size \/ (m = MaxValidated /\ m < size))
      BY <2>1, <2>2, <2>3
  <2> QED BY <2>1, <2>2, <2>4
<1>16. PICK most \in Nat : most = Len(p)
    BY <1>12
<1>17. m \in 0..most /\ (m = most \/ m = MaxValidated)
    BY <1>15, <1>16
<1>18. m \in Nat /\ m =< most
    BY <1>16, <1>17
<1>19. \A l \in 1..m : l \in 1..most
    BY <1>16, <1>18
<1>20. PICK kept : kept = SubSeq(p, 1, m)
    OBVIOUS
<1>21. kept \in Seq(CandidateType) /\ Len(kept) = m /\ \A k \in 1..m : kept[k] = p[k] /\ k \in 1..Len(p)
  <2>1. p \in Seq(CandidateType) /\ m \in 0..Len(p) /\ Len(p) \in Nat
      BY <1>11, <1>12, <1>15
  <2>2. \A k \in 1..m : k \in 1..Len(p)
      BY <2>1
  <2>3. kept \in Seq(CandidateType) /\ Len(kept) = m /\ \A k \in 1..m : kept[k] = p[k]
      BY <1>20, <2>1, <2>2
  <2> QED BY <2>2, <2>3
<1>22. DOMAIN kept = 1..m
    BY <1>21
<1>23. PICK seen : seen = SubSeq(list, 1, n)
    OBVIOUS
<1>24. DOMAIN seen = 1..n /\ \A i \in 1..n : seen[i] = list[i] /\ i \in DOMAIN list
  <2>1. Len(seen) = n /\ seen \in Seq(CandidateType) /\ \A i \in 1..n : seen[i] = list[i]
      BY <1>23, <1>3, <1>5, <1>6
  <2> QED BY <1>3, <1>6, <2>1
<1>25. r.kept = kept /\ r.checked = RowsOf(seen)
    BY <1>1, <1>9, <1>14, <1>20, <1>23 DEF WithReserve
<1>26. Single(kept)
    BY <1>11, <1>12, <1>21, <1>22 DEF Single
<1>27. Checked(list, kept, RowsOf(seen))
  <2>1. RowsOf(seen) \subseteq RowsOf(list)
      BY <1>24 DEF RowsOf
  <2>2. \A k \in DOMAIN kept : \E i \in DOMAIN list :
           kept[k] = list[i] /\ Passes(list[i]) /\ list[i].row \in RowsOf(seen)
    <3> SUFFICES ASSUME NEW k \in DOMAIN kept
                 PROVE  \E i \in DOMAIN list :
                           kept[k] = list[i] /\ Passes(list[i]) /\ list[i].row \in RowsOf(seen)
        OBVIOUS
    <3>1. /\ e[k] \in DOMAIN list /\ e[k] \in 1..n /\ kept[k] = list[e[k]] /\ Passes(list[e[k]])
        BY <1>13, <1>21, <1>22
    <3>2. list[e[k]].row \in RowsOf(seen)
        BY <3>1, <1>24, RowsFact
    <3> QED BY <3>1, <3>2
  <2> QED BY <2>1, <2>2 DEF Checked
<1>28. \A k \in 1..m : list[e[k]].row \in RowsOf(kept)
  <2> SUFFICES ASSUME NEW k \in 1..m PROVE list[e[k]].row \in RowsOf(kept)
      OBVIOUS
  <2>1. kept[k] = list[e[k]]
      BY <1>13, <1>21
  <2>2. kept[k].row \in RowsOf(kept)
      BY <1>22, RowsFact
  <2> QED BY <2>1, <2>2
<1>29. ASSUME NEW j \in DOMAIN list, list[j].row \in RowsOf(kept) PROVE \E k \in 1..m : j = e[k]
  <2>1. PICK k \in DOMAIN kept : list[j].row = kept[k].row
      BY <1>29 DEF RowsOf
  <2>2. k \in 1..m /\ e[k] \in DOMAIN list /\ list[j].row = list[e[k]].row
      BY <1>13, <1>21, <1>22, <2>1
  <2> QED BY <2>2 DEF Single
<1>30. ASSUME NEW i \in DOMAIN list, list[i].row \notin RowsOf(kept), Passes(list[i])
       PROVE  Len(kept) >= MinValidated /\ \A j \in DOMAIN list : list[j].row \in RowsOf(kept) => j < i
  <2>1. CASE i \in 1..n
    <3>1. i \in A
        BY <1>7, <1>30, <2>1
    <3>2. PICK k \in 1..Len(p) : e[k] = i
        BY <1>13, <3>1
    <3>3. k \notin 1..m
        BY <1>28, <1>30, <3>2
    <3>4. m < k /\ m = MaxValidated
      <4>1. k \in 1..most
          BY <1>16, <3>2
      <4>2. k \in Nat /\ m < k /\ m # most
          BY <1>16, <1>18, <3>3, <4>1
      <4> QED BY <1>17, <4>2
    <3>5. \A j \in DOMAIN list : list[j].row \in RowsOf(kept) => j < i
      <4> SUFFICES ASSUME NEW j \in DOMAIN list, list[j].row \in RowsOf(kept) PROVE j < i
          OBVIOUS
      <4>1. PICK l \in 1..m : j = e[l]
          BY <1>29
      <4>2. l \in 1..Len(p) /\ l < k
        <5>1. l \in 1..most /\ l =< m /\ l \in Nat
            BY <1>18, <1>19
        <5>2. k \in 1..most
            BY <1>16, <3>2
        <5> QED BY <1>16, <1>18, <3>4, <5>1, <5>2
      <4> QED BY <1>13, <3>2, <4>1, <4>2
    <3> QED BY <1>15, <1>21, <3>4, <3>5
  <2>2. CASE i \notin 1..n
    <3>1. n < i /\ n # Len(list)
      <4>1. i \in 1..len
          BY <1>3
      <4> QED BY <1>3, <1>5, <2>2, <4>1
    <3>2. Len(p) >= MinValidated
        BY <1>2, <1>9, <3>1
    <3>3. \A j \in DOMAIN list : list[j].row \in RowsOf(kept) => j < i
      <4> SUFFICES ASSUME NEW j \in DOMAIN list, list[j].row \in RowsOf(kept) PROVE j < i
          OBVIOUS
      <4>1. PICK l \in 1..m : j = e[l]
          BY <1>29
      <4>2. j \in 1..n
          BY <1>13, <1>21, <4>1
      <4>3. i \in Nat /\ j \in Nat /\ j =< n
          BY <1>3, <1>5, <4>2
      <4> QED BY <1>5, <3>1, <4>3
    <3> QED BY <1>15, <1>21, <3>2, <3>3
  <2> QED BY <2>1, <2>2
<1>31. Spent(list, kept)
    BY <1>15, <1>21, <1>30 DEF Spent
<1> QED BY <1>21, <1>25, <1>26, <1>27, <1>31

\* The verdicts lead to pages of the rows they are about, which are all backed.
Vetted(confirmed, verdict, pages, known) ==
    \A row \in DOMAIN verdict :
      /\ verdict[row].pages \subseteq pages /\ verdict[row].pages \subseteq PagesOfRun
      /\ IsFiniteSet(verdict[row].pages)
      /\ \A p \in verdict[row].pages : Says[p].row = row
      /\ Backs(confirmed, row, known)

\* Repaired citations leave a list as fit as it was.
LEMMA RepairedFit ==
    ASSUME NEW mode, NEW confirmed, NEW pages, NEW known, NEW list, AllFit(mode, confirmed, list, pages, known),
           NEW verdict, Vetted(confirmed, verdict, pages, known), NEW now, now = Repaired(list, verdict)
    PROVE  /\ AllFit(mode, confirmed, now, pages, known) /\ DOMAIN now = DOMAIN list /\ Len(now) = Len(list)
           /\ \A i \in DOMAIN list : /\ Includes(mode, now[i], list[i]) /\ now[i].row = list[i].row
                                     /\ now[i].conflict = list[i].conflict
<1>1. list \in Seq(CandidateType) /\ DOMAIN list = 1..Len(list) /\ Len(list) \in Nat
    BY DEF AllFit
<1>2. DOMAIN now = DOMAIN list
    BY DEF Repaired
<1>3. ASSUME NEW i \in DOMAIN list
      PROVE  /\ Fit(mode, now[i], pages) /\ Known(confirmed, now[i], known)
             /\ Includes(mode, now[i], list[i]) /\ now[i].row = list[i].row
             /\ now[i].conflict = list[i].conflict
  <2>1. PICK c : c = list[i]
      OBVIOUS
  <2>2. Fit(mode, c, pages) /\ Known(confirmed, c, known)
      BY <2>1 DEF AllFit
  <2>3. CASE c.row \in DOMAIN verdict
    <3>1. PICK v : v = verdict[c.row]
        OBVIOUS
    <3>2. now[i] = Repointed(c, v)
        BY <2>1, <2>3, <3>1 DEF Repaired
    <3>3. /\ v.pages \subseteq pages /\ v.pages \subseteq PagesOfRun /\ IsFiniteSet(v.pages)
          /\ \A p \in v.pages : Says[p].row = c.row
          /\ Backs(confirmed, c.row, known)
        BY <2>3, <3>1 DEF Vetted
    <3>4. PICK d : d = Repointed(c, v)
        OBVIOUS
    <3>5. /\ Fit(mode, d, pages) /\ Includes(mode, d, c) /\ d.row = c.row /\ d.conflict = c.conflict
        BY <2>2, <3>3, <3>4, RepointedFit
    <3>6. Known(confirmed, d, known)
        BY <3>3, <3>5 DEF Known
    <3> QED BY <2>1, <3>2, <3>4, <3>5, <3>6
  <2>4. CASE c.row \notin DOMAIN verdict
    <3>1. now[i] = c
        BY <2>1, <2>4 DEF Repaired
    <3> QED BY <2>1, <2>2, <3>1, IncludesFacts
  <2> QED BY <2>3, <2>4
<1>4. \A i \in DOMAIN list : now[i] \in CandidateType
    BY <1>3 DEF Fit
<1>5. now \in Seq(CandidateType) /\ Len(now) = Len(list)
  <2>1. now = [i \in 1..Len(list) |-> now[i]]
      BY <1>1 DEF Repaired
  <2>2. now \in [1..Len(list) -> CandidateType]
      BY <1>1, <1>4, <2>1
  <2> QED BY <1>1, <2>2
<1>6. AllFit(mode, confirmed, now, pages, known)
    BY <1>2, <1>3, <1>5 DEF AllFit
<1> QED BY <1>2, <1>3, <1>5, <1>6

\* The verdict on a row is the one on the candidate that has the row.
LEMMA VerdictsOfFact ==
    ASSUME NEW list, Single(list), NEW rows, rows \subseteq RowsOf(list), NEW verdict,
           verdict = VerdictsOf(list, rows)
    PROVE  /\ DOMAIN verdict = rows
           /\ \A i \in DOMAIN list :
                list[i].row \in rows => verdict[list[i].row] = Verdict(request.mode, list[i], ledger)
           /\ \A row \in rows : \E i \in DOMAIN list : list[i].row = row
<1>1. DOMAIN verdict = rows
    BY DEF VerdictsOf
<1>2. ASSUME NEW i \in DOMAIN list, list[i].row \in rows
      PROVE  verdict[list[i].row] = Verdict(request.mode, list[i], ledger)
  <2>1. list[i] \in ToSet(list)
      BY DEF ToSet
  <2>2. PICK c : c = CHOOSE x \in ToSet(list) : x.row = list[i].row
      OBVIOUS
  <2>3. c \in ToSet(list) /\ c.row = list[i].row
      BY <2>1, <2>2
  <2>4. PICK j \in DOMAIN list : c = list[j]
      BY <2>3 DEF ToSet
  <2>5. c = list[i]
      BY <2>3, <2>4 DEF Single
  <2> QED BY <1>2, <2>2, <2>5 DEF VerdictsOf
<1>3. \A row \in rows : \E i \in DOMAIN list : list[i].row = row
    BY DEF RowsOf
<1> QED BY <1>1, <1>2, <1>3

\* c is q, verified, with its citations repaired.
IsVerified(c, q, verdict) ==
    /\ q.row \in DOMAIN verdict /\ verdict[q.row] = Verdict(request.mode, q, ledger)
    /\ Accepted(verdict[q.row]) /\ c = Repointed(q, verdict[q.row])

\* Verification keeps of the qualified what passes, and repairs the citations.
LEMMA KeepFact ==
    ASSUME RunTypeOK, CandidatesInv, QualifiedInv, VerifyAll(qualified),
           UNCHANGED <<request, ledger, read, qualified>>
    PROVE  /\ candidates' \in Seq(CandidateType) /\ output' \in Seq(CandidateType) /\ DOMAIN verdicts' \subseteq Rows
           /\ CandidatesInv' /\ QualifiedInv' /\ Single(output') /\ Spent(qualified, output')
           /\ \A k \in DOMAIN output' : \E q \in DOMAIN qualified : IsVerified(output'[k], qualified[q], verdicts')
<1>1. PICK list : list = qualified
    OBVIOUS
<1>2. PICK r : r = WithReserve(list)
    OBVIOUS
<1>3. PICK verdict, now, out : verdict = verdicts' /\ now = candidates' /\ out = output'
    OBVIOUS
<1>4. /\ verdict = VerdictsOf(list, r.checked) /\ out = Repaired(r.kept, verdict)
      /\ now = Repaired(candidates, verdict)
    BY <1>1, <1>2, <1>3 DEF VerifyAll, Keep
<1>5. PICK mode, confirmed, pages : mode = request.mode /\ confirmed = request.confirmed /\ pages = ToSet(ledger)
    OBVIOUS
<1>6. PICK known : known = read
    OBVIOUS
<1>7. /\ AllFit(mode, confirmed, list, pages, known) /\ Single(list)
      /\ \A q \in DOMAIN list :
           /\ Validated(mode, confirmed, list[q])
           /\ \E i \in DOMAIN candidates : candidates[i].row = list[q].row /\ ~candidates[i].conflict
    BY <1>1, <1>5, <1>6 DEF QualifiedInv, Sound
<1>8. list \in Seq(CandidateType) /\ ledger \in Seq(PagesOfRun) /\ mode \in Modes /\ confirmed \in BOOLEAN
    BY <1>1, <1>5, RequestFact DEF RunTypeOK
<1>9. PICK kept, rows : kept = r.kept /\ rows = r.checked
    OBVIOUS
<1>10. kept \in Seq(CandidateType) /\ Single(kept) /\ Checked(list, kept, rows) /\ Spent(list, kept)
    BY <1>2, <1>7, <1>8, <1>9, ReserveFact
<1>11. rows \subseteq RowsOf(list)
    BY <1>10 DEF Checked
<1>12. DOMAIN verdict = rows
    BY <1>4, <1>7, <1>9, <1>11, VerdictsOfFact
<1>13. \A i \in DOMAIN list : list[i].row \in rows => verdict[list[i].row] = Verdict(request.mode, list[i], ledger)
    BY <1>4, <1>7, <1>9, <1>11, VerdictsOfFact
<1>14. \A row \in rows : \E i \in DOMAIN list : list[i].row = row
    BY <1>11 DEF RowsOf
<1>15. Vetted(confirmed, verdict, pages, known)
  <2> SUFFICES ASSUME NEW row \in rows
               PROVE  /\ verdict[row].pages \subseteq pages /\ verdict[row].pages \subseteq PagesOfRun
                      /\ IsFiniteSet(verdict[row].pages)
                      /\ \A p \in verdict[row].pages : Says[p].row = row
                      /\ Backs(confirmed, row, known)
      BY <1>12 DEF Vetted
  <2>1. PICK i \in DOMAIN list : list[i].row = row
      BY <1>14
  <2>2. PICK c, v : c = list[i] /\ v = verdict[row]
      OBVIOUS
  <2>3. v = Verdict(mode, c, ledger) /\ c.row = row
      BY <1>5, <1>13, <2>1, <2>2
  <2>4. v.pages \subseteq ToSet(ledger) /\ IsFiniteSet(v.pages)
      BY <1>8, <2>3, VerdictFact
  <2>5. \A p \in v.pages : Says[p].row = c.row
      BY <1>8, <2>3, VerdictFact
  <2>6. ToSet(ledger) \subseteq PagesOfRun
      BY <1>8, ToSetFinite
  <2>7. Fit(mode, c, pages) /\ Known(confirmed, c, known) /\ Validated(mode, confirmed, c)
      BY <1>7, <2>2 DEF AllFit
  <2>8. Backs(confirmed, c.row, known)
      BY <1>8, <2>7, ValidBacks
  <2> QED BY <1>5, <2>2, <2>3, <2>4, <2>5, <2>6, <2>8
<1>16. PICK old : old = candidates
    OBVIOUS
<1>17. /\ AllFit(mode, confirmed, old, pages, known) /\ Single(old)
       /\ \A p \in known : \E i \in DOMAIN old : Covers(mode, old[i], p)
    BY <1>5, <1>6, <1>16 DEF CandidatesInv, Sound
<1>18. /\ AllFit(mode, confirmed, now, pages, known) /\ DOMAIN now = DOMAIN old
       /\ \A i \in DOMAIN old : /\ Includes(mode, now[i], old[i]) /\ now[i].row = old[i].row
                                /\ now[i].conflict = old[i].conflict
  <2>1. now = Repaired(old, verdict)
      BY <1>4, <1>16
  <2> QED BY <1>15, <1>17, <2>1, RepairedFit
<1>19. Single(now)
    BY <1>17, <1>18 DEF Single
<1>20. \A p \in known : \E i \in DOMAIN now : Covers(mode, now[i], p)
  <2> SUFFICES ASSUME NEW p \in known PROVE \E i \in DOMAIN now : Covers(mode, now[i], p)
      OBVIOUS
  <2>1. PICK i \in DOMAIN old : Covers(mode, old[i], p)
      BY <1>17
  <2>2. i \in DOMAIN now /\ Includes(mode, now[i], old[i])
      BY <1>18, <2>1
  <2> QED BY <2>1, <2>2, IncludesFacts
<1>21. /\ mode = request'.mode /\ confirmed = request'.confirmed /\ pages = ToSet(ledger') /\ known = read'
       /\ list = qualified'
    BY <1>1, <1>5, <1>6
<1>22. CandidatesInv'
    BY <1>3, <1>18, <1>19, <1>20, <1>21 DEF CandidatesInv, Sound
<1>23. \A q \in DOMAIN list : \E i \in DOMAIN now : now[i].row = list[q].row /\ ~now[i].conflict
  <2> SUFFICES ASSUME NEW q \in DOMAIN list
               PROVE  \E i \in DOMAIN now : now[i].row = list[q].row /\ ~now[i].conflict
      OBVIOUS
  <2>1. PICK i \in DOMAIN old : old[i].row = list[q].row /\ ~old[i].conflict
      BY <1>7, <1>16
  <2> QED BY <1>18, <2>1
<1>24. QualifiedInv'
    BY <1>3, <1>7, <1>21, <1>23 DEF QualifiedInv, Sound
<1>25. ASSUME NEW k \in DOMAIN kept
       PROVE  \E i \in DOMAIN list : kept[k] = list[i] /\ Passes(list[i]) /\ list[i].row \in rows
    BY <1>10 DEF Checked
<1>26. AllFit(mode, confirmed, kept, pages, known)
    BY <1>7, <1>10, <1>25 DEF AllFit
<1>27. /\ AllFit(mode, confirmed, out, pages, known) /\ DOMAIN out = DOMAIN kept /\ Len(out) = Len(kept)
       /\ \A k \in DOMAIN kept : out[k].row = kept[k].row
  <2>1. out = Repaired(kept, verdict)
      BY <1>4, <1>9
  <2>2. /\ AllFit(mode, confirmed, out, pages, known) /\ DOMAIN out = DOMAIN kept /\ Len(out) = Len(kept)
        /\ \A k \in DOMAIN kept : /\ Includes(mode, out[k], kept[k]) /\ out[k].row = kept[k].row
                                  /\ out[k].conflict = kept[k].conflict
      BY <1>15, <1>26, <2>1, RepairedFit
  <2> QED BY <2>2
<1>28. Single(out)
    BY <1>10, <1>27 DEF Single
<1>29. RowsOf(out) = RowsOf(kept)
    BY <1>27 DEF RowsOf
<1>30. Spent(list, out)
    BY <1>10, <1>27, <1>29 DEF Spent
<1>31. ASSUME NEW k \in DOMAIN out PROVE \E q \in DOMAIN list : IsVerified(out[k], list[q], verdict)
  <2>1. k \in DOMAIN kept
      BY <1>27
  <2>2. PICK i \in DOMAIN list : kept[k] = list[i] /\ Passes(list[i]) /\ list[i].row \in rows
      BY <1>25, <2>1
  <2>3. verdict[list[i].row] = Verdict(request.mode, list[i], ledger)
      BY <1>13, <2>2
  <2>4. Accepted(verdict[list[i].row])
      BY <2>2, <2>3 DEF Passes
  <2>5. out[k] = Repointed(list[i], verdict[list[i].row])
    <3>1. out = Repaired(kept, verdict)
        BY <1>4, <1>9
    <3> QED BY <1>12, <2>1, <2>2, <3>1 DEF Repaired
  <2> QED BY <1>12, <2>2, <2>3, <2>4, <2>5 DEF IsVerified
<1>32. DOMAIN verdict \subseteq Rows
  <2>1. \A i \in DOMAIN list : list[i].row \in Rows
    <3>1. \A i \in DOMAIN list : list[i] \in CandidateType
        BY <1>8
    <3> QED BY <3>1 DEF CandidateType
  <2> QED BY <1>12, <1>14, <2>1
<1>33. now \in Seq(CandidateType) /\ out \in Seq(CandidateType)
    BY <1>18, <1>27 DEF AllFit
<1> QED BY <1>1, <1>3, <1>22, <1>24, <1>28, <1>30, <1>31, <1>32, <1>33

-----------------------------------------------------------------------------
(* One lemma per action.                                                    *)

\* A round of search and fetch.
LEMMA RoundInv ==
    ASSUME RunInv, NEW pages \in Seq(PagesOfRun), Acquire(pages), step' \in {"judge", "replan"},
           step \in {"gather", "judge", "verified"}, step' = "replan" => request.verify,
           broadened' \in BOOLEAN, replanned' \in BOOLEAN,
           UNCHANGED <<request, output, verdicts, released, held, withheld, surface, ready>>
    PROVE  RunInv'
<1>1. RunTypeOK /\ CandidatesInv /\ OutputInv /\ ReleaseInv
    BY DEF RunInv
<1>2. /\ ledger' \in Seq(PagesOfRun) /\ extracted' \in 0..MaxExtract /\ read' \subseteq PagesOfRun
      /\ candidates' \in Seq(CandidateType) /\ qualified' \in Seq(CandidateType)
      /\ CandidatesInv' /\ QualifiedInv'
    BY <1>1, AcquireInv
<1>3. RunTypeOK'
    BY <1>1, <1>2 DEF RunTypeOK, Steps
<1>4. OutputInv'
    BY <1>1 DEF OutputInv
<1>5. ReleaseInv'
    BY <1>1 DEF ReleaseInv
<1>6. ReserveUsed'
    BY DEF ReserveUsed
<1> QED BY <1>2, <1>3, <1>4, <1>5, <1>6 DEF RunInv

\* The first gather.
LEMMA GatherInv == RunInv /\ Gather => RunInv'
<1> SUFFICES ASSUME RunInv, Gather PROVE RunInv'
    OBVIOUS
<1>1. PICK pages \in Fetches(MaxExtract) : Acquire(pages)
    BY DEF Gather
<1>2. pages \in Seq(PagesOfRun)
    BY FetchesType
<1>3. /\ step = "gather" /\ step' = "judge"
      /\ UNCHANGED <<request, broadened, replanned, output, verdicts, released, held, withheld, surface, ready>>
    BY DEF Gather
<1>4. broadened' \in BOOLEAN /\ replanned' \in BOOLEAN
    BY <1>3 DEF RunInv, RunTypeOK
<1> QED BY <1>1, <1>2, <1>3, <1>4, RoundInv

\* The broadened gather.
LEMMA BroadenInv == RunInv /\ Broaden => RunInv'
<1> SUFFICES ASSUME RunInv, Broaden PROVE RunInv'
    OBVIOUS
<1>1. PICK pages \in Fetches(MaxPages) : Acquire(pages)
    BY DEF Broaden
<1>2. pages \in Seq(PagesOfRun)
    BY FetchesType
<1>3. /\ step = "judge" /\ step' = "judge" /\ broadened' = TRUE
      /\ UNCHANGED <<request, replanned, output, verdicts, released, held, withheld, surface, ready>>
    BY DEF Broaden
<1>4. broadened' \in BOOLEAN /\ replanned' \in BOOLEAN
    BY <1>3 DEF RunInv, RunTypeOK
<1> QED BY <1>1, <1>2, <1>3, <1>4, RoundInv

\* The gather of a replan.
LEMMA ReplanInv == RunInv /\ Replan => RunInv'
<1> SUFFICES ASSUME RunInv, Replan PROVE RunInv'
    OBVIOUS
<1>1. PICK pages \in Fetches(MaxPages) : Acquire(pages)
    BY DEF Replan
<1>2. pages \in Seq(PagesOfRun)
    BY FetchesType
<1>3. /\ step = "verified" /\ step' = "replan" /\ request.verify /\ replanned' = TRUE
      /\ UNCHANGED <<request, broadened, output, verdicts, released, held, withheld, surface, ready>>
    BY DEF Replan
<1>4. broadened' \in BOOLEAN /\ replanned' \in BOOLEAN
    BY <1>3 DEF RunInv, RunTypeOK
<1> QED BY <1>1, <1>2, <1>3, <1>4, RoundInv

\* Verification, the first time or again.
LEMMA VerifiedInv ==
    ASSUME RunInv, VerifyAll(qualified), request.verify, step \in {"judge", "replan"}, step' = "verified",
           UNCHANGED <<request, ledger, extracted, read, qualified, broadened, replanned, released, held,
                       withheld, surface, ready>>
    PROVE  RunInv'
<1>1. RunTypeOK /\ CandidatesInv /\ QualifiedInv /\ OutputInv /\ ReleaseInv
    BY DEF RunInv
<1>2. /\ candidates' \in Seq(CandidateType) /\ output' \in Seq(CandidateType) /\ DOMAIN verdicts' \subseteq Rows
      /\ CandidatesInv' /\ QualifiedInv' /\ Single(output') /\ Spent(qualified, output')
      /\ \A k \in DOMAIN output' : \E q \in DOMAIN qualified : IsVerified(output'[k], qualified[q], verdicts')
    BY <1>1, KeepFact
<1>3. RunTypeOK'
    BY <1>1, <1>2 DEF RunTypeOK, Steps
<1>4. OutputInv'
  <2>1. \A k \in DOMAIN output' : \E q \in DOMAIN qualified' : IsAnswer(output[k], qualified[q])'
    <3> SUFFICES ASSUME NEW k \in DOMAIN output' PROVE \E q \in DOMAIN qualified' : IsAnswer(output[k], qualified[q])'
        OBVIOUS
    <3>1. PICK q \in DOMAIN qualified : IsVerified(output'[k], qualified[q], verdicts')
        BY <1>2
    <3> QED BY <3>1 DEF IsVerified, IsAnswer
  <2> QED BY <1>2, <2>1 DEF OutputInv
<1>5. ReleaseInv'
    BY <1>1 DEF ReleaseInv
<1>6. ReserveUsed'
  <2>1. \A c : Passes(c)' <=> Passes(c)
      BY DEF Passes
  <2> QED BY <1>2, <2>1 DEF ReserveUsed, Spent
<1> QED BY <1>2, <1>3, <1>4, <1>5, <1>6 DEF RunInv

\* Verify, with verification on or off.
LEMMA VerifyInv == RunInv /\ Verify => RunInv'
<1> SUFFICES ASSUME RunInv, Verify PROVE RunInv'
    OBVIOUS
<1>1. /\ step = "judge" /\ step' = "verified"
      /\ UNCHANGED <<request, ledger, extracted, read, qualified, broadened, replanned, released, held,
                     withheld, surface, ready>>
    BY DEF Verify
<1>2. CASE request.verify
    BY <1>1, <1>2, VerifiedInv DEF Verify
<1>3. CASE ~request.verify
  <2>1. /\ output' = SubSeq(qualified, 1, Low(MaxValidated, Len(qualified)))
        /\ UNCHANGED <<verdicts, candidates>>
      BY <1>3 DEF Verify
  <2>2. RunTypeOK /\ CandidatesInv /\ QualifiedInv /\ OutputInv /\ ReleaseInv
      BY DEF RunInv
  <2>3. PICK m, list, out : m = Low(MaxValidated, Len(qualified)) /\ list = qualified /\ out = output'
      OBVIOUS
  <2>4. list \in Seq(CandidateType) /\ Single(list)
      BY <2>2, <2>3 DEF RunTypeOK, QualifiedInv
  <2>5. m \in 0..Len(list)
      BY <2>3, <2>4, ProcurementAssumption DEF Low
  <2>6. /\ out \in Seq(CandidateType) /\ DOMAIN out = 1..m
        /\ \A i \in DOMAIN out : out[i] = list[i] /\ i \in DOMAIN list
    <3>1. out = SubSeq(list, 1, m)
        BY <2>1, <2>3
    <3>2. out \in Seq(CandidateType) /\ Len(out) = m /\ \A i \in 1..m : out[i] = list[i]
        BY <2>4, <2>5, <3>1
    <3>3. DOMAIN out = 1..m /\ DOMAIN list = 1..Len(list)
        BY <2>4, <3>2
    <3> QED BY <2>4, <2>5, <3>2, <3>3
  <2>7. Single(out)
      BY <2>4, <2>6 DEF Single
  <2>8. RunTypeOK'
      BY <1>1, <2>1, <2>2, <2>3, <2>6 DEF RunTypeOK, Steps
  <2>9. CandidatesInv' /\ QualifiedInv'
      BY <1>1, <2>1, <2>2 DEF CandidatesInv, QualifiedInv, Sound
  <2>10. OutputInv'
    <3>1. \A i \in DOMAIN out : \E q \in DOMAIN list : out[i] = list[q]
        BY <2>6
    <3>2. \A i \in DOMAIN output' : \E q \in DOMAIN qualified' : IsAnswer(output[i], qualified[q])'
        BY <1>1, <1>3, <2>3, <3>1 DEF IsAnswer
    <3> QED BY <1>1, <1>3, <2>1, <2>2, <2>3, <2>7, <3>2 DEF OutputInv
  <2>11. ReleaseInv'
      BY <1>1, <2>2 DEF ReleaseInv
  <2>12. ReserveUsed'
      BY <1>1, <1>3 DEF ReserveUsed
  <2> QED BY <2>8, <2>9, <2>10, <2>11, <2>12 DEF RunInv
<1> QED BY <1>2, <1>3

\* Verification after a replan.
LEMMA VerifyAgainInv == RunInv /\ VerifyAgain => RunInv'
<1> SUFFICES ASSUME RunInv, VerifyAgain PROVE RunInv'
    OBVIOUS
<1>1. /\ step = "replan" /\ step' = "verified" /\ VerifyAll(qualified)
      /\ UNCHANGED <<request, ledger, extracted, read, qualified, broadened, replanned, released, held,
                     withheld, surface, ready>>
    BY DEF VerifyAgain
<1>2. request.verify
    BY <1>1 DEF RunInv, OutputInv
<1> QED BY <1>1, <1>2, VerifiedInv

\* The drafts are of what was found, and the view shows candidates without a conflict.
LEMMA DraftInv == RunInv /\ Draft => RunInv'
<1> SUFFICES ASSUME RunInv, Draft PROVE RunInv'
    OBVIOUS
<1>1. RunTypeOK /\ CandidatesInv /\ QualifiedInv /\ OutputInv /\ ReleaseInv
    BY DEF RunInv
<1>2. PICK drafted : drafted = IF request.mode = "service" THEN RowsOf(output) ELSE {}
    OBVIOUS
<1>3. PICK back : back = {row \in drafted : HoldsBack(row)}
    OBVIOUS
<1>4. PICK ranked : ranked = Ranked(request.mode, request.confirmed, candidates)
    OBVIOUS
<1>5. /\ step = "verified" /\ step' = "drafted" /\ surface' = Surfaced(ranked)
      /\ released' = drafted \ back /\ held' = (IF request.store THEN back ELSE {})
      /\ UNCHANGED <<request, ledger, extracted, read, candidates, qualified, broadened, replanned,
                     output, verdicts, withheld, ready>>
    BY <1>2, <1>3, <1>4 DEF Draft
<1>6. drafted \subseteq RowsOf(output) /\ back \subseteq drafted
    BY <1>2, <1>3
<1>7. RowsOf(output) \subseteq Rows
  <2>1. \A i \in DOMAIN output : output[i] \in CandidateType
      BY <1>1 DEF RunTypeOK
  <2> QED BY <2>1 DEF RowsOf, CandidateType
<1>8. ASSUME NEW row \in surface'
      PROVE  \E i \in DOMAIN candidates : candidates[i].row = row /\ ~candidates[i].conflict
  <2>1. PICK x \in ToSet(ranked) : ~x.conflict /\ row = x.row
      BY <1>5 DEF Surfaced
  <2>2. candidates \in Seq(CandidateType) /\ Single(candidates)
      BY <1>1 DEF RunTypeOK, CandidatesInv
  <2>3. x \in ToSet(candidates)
      BY <1>4, <2>1, <2>2, RankedElements
  <2> QED BY <2>1, <2>3 DEF ToSet
<1>9. surface' \subseteq Rows
  <2>1. \A i \in DOMAIN candidates : candidates[i] \in CandidateType
      BY <1>1 DEF RunTypeOK
  <2> QED BY <1>8, <2>1 DEF CandidateType
<1>10. RunTypeOK'
    BY <1>1, <1>5, <1>6, <1>7, <1>9 DEF RunTypeOK, Steps
<1>11. CandidatesInv' /\ QualifiedInv'
    BY <1>1, <1>5 DEF CandidatesInv, QualifiedInv, Sound
<1>12. OutputInv'
    BY <1>1, <1>5 DEF OutputInv, IsAnswer
<1>13. ReleaseInv'
  <2>1. released' \cup held' \subseteq RowsOf(output)' /\ released' \cap held' = {}
    <3>1. RowsOf(output)' = RowsOf(output)
        BY <1>5 DEF RowsOf
    <3> QED BY <1>5, <1>6, <3>1
  <2>2. \A row \in released' : ~HoldsBack(row)'
    <3>1. \A row : HoldsBack(row)' <=> HoldsBack(row)
        BY <1>5 DEF HoldsBack, BelowFloor
    <3> QED BY <1>3, <1>5, <3>1
  <2>3. \A row \in surface' : \E i \in DOMAIN candidates' : candidates'[i].row = row /\ ~candidates'[i].conflict
      BY <1>5, <1>8
  <2>4. ready' = {}
      BY <1>1, <1>5 DEF ReleaseInv
  <2> QED BY <1>5, <2>1, <2>2, <2>3, <2>4 DEF ReleaseInv
<1>14. ReserveUsed'
    BY <1>5 DEF ReserveUsed
<1> QED BY <1>10, <1>11, <1>12, <1>13, <1>14 DEF RunInv

\* The result: what is withheld, and what is ready.
LEMMA ReportInv == RunInv /\ Report => RunInv'
<1> SUFFICES ASSUME RunInv, Report PROVE RunInv'
    OBVIOUS
<1>1. RunTypeOK /\ CandidatesInv /\ QualifiedInv /\ OutputInv /\ ReleaseInv
    BY DEF RunInv
<1> DEFINE Ready(row) == /\ row \in DOMAIN verdicts
                         /\ LET c == CHOOSE x \in ToSet(output) : x.row = row
                            IN Readiness(request.mode, c, request.confirmed, verdicts[row],
                                         row \in request.disputed, GradeFloor) = "review_ready"
<1>2. /\ step = "drafted" /\ step' = "done"
      /\ withheld' = {c.row : c \in {x \in ToSet(candidates) : x.conflict \/ Blocked(x, request.confirmed)}}
      /\ ready' = {row \in RowsOf(output) : Ready(row)}
      /\ UNCHANGED <<request, ledger, extracted, read, candidates, qualified, broadened, replanned,
                     output, verdicts, released, held, surface>>
    BY DEF Report
<1>3. \A i \in DOMAIN output : output[i] \in CandidateType
    BY <1>1 DEF RunTypeOK
<1>4. \A i \in DOMAIN candidates : candidates[i] \in CandidateType
    BY <1>1 DEF RunTypeOK
<1>5. withheld' \subseteq Rows
    BY <1>2, <1>4 DEF ToSet, CandidateType
<1>6. ready' \subseteq Rows
    BY <1>2, <1>3 DEF RowsOf, CandidateType
<1>7. RunTypeOK'
    BY <1>1, <1>2, <1>5, <1>6 DEF RunTypeOK, Steps
<1>8. CandidatesInv' /\ QualifiedInv'
    BY <1>1, <1>2 DEF CandidatesInv, QualifiedInv, Sound
<1>9. OutputInv'
    BY <1>1, <1>2 DEF OutputInv, IsAnswer
<1>10. ASSUME NEW i \in DOMAIN output, output[i].row \in ready'
       PROVE  /\ output[i].row \in DOMAIN verdicts
              /\ Readiness(request.mode, output[i], request.confirmed, verdicts[output[i].row],
                           output[i].row \in request.disputed, GradeFloor) = "review_ready"
  <2>1. PICK row : row = output[i].row
      OBVIOUS
  <2>2. PICK c : c = CHOOSE x \in ToSet(output) : x.row = row
      OBVIOUS
  <2>3. output[i] \in ToSet(output)
      BY DEF ToSet
  <2>4. c \in ToSet(output) /\ c.row = row
      BY <2>1, <2>2, <2>3
  <2>5. Single(output)
      BY <1>1, <1>2 DEF OutputInv
  <2>6. c = output[i]
      BY <2>1, <2>4, <2>5 DEF ToSet, Single
  <2>7. Ready(row)
      BY <1>2, <1>10, <2>1
  <2> QED BY <2>1, <2>2, <2>6, <2>7
<1>11. ASSUME NEW i \in DOMAIN candidates, candidates[i].conflict PROVE candidates[i].row \in withheld'
  <2>1. candidates[i] \in ToSet(candidates)
      BY DEF ToSet
  <2> QED BY <1>2, <1>11, <2>1
<1>12. ReleaseInv'
  <2>1. released' \cup held' \subseteq RowsOf(output)' /\ released' \cap held' = {}
      BY <1>1, <1>2 DEF ReleaseInv, RowsOf
  <2>2. \A row \in released' : ~HoldsBack(row)'
      BY <1>1, <1>2 DEF ReleaseInv, HoldsBack, BelowFloor
  <2>3. \A row \in surface' : \E i \in DOMAIN candidates' : candidates'[i].row = row /\ ~candidates'[i].conflict
      BY <1>1, <1>2 DEF ReleaseInv
  <2>4. \A i \in DOMAIN output' : output'[i].row \in ready' =>
          /\ output'[i].row \in DOMAIN verdicts'
          /\ Readiness(request'.mode, output'[i], request'.confirmed, verdicts'[output'[i].row],
                       output'[i].row \in request'.disputed, GradeFloor) = "review_ready"
      BY <1>2, <1>10
  <2>5. \A i \in DOMAIN candidates' : candidates'[i].conflict => candidates'[i].row \in withheld'
      BY <1>2, <1>11
  <2>6. step' = "done"
      BY <1>2
  <2> QED BY <2>1, <2>2, <2>3, <2>4, <2>5, <2>6 DEF ReleaseInv
<1>13. ReserveUsed'
    BY <1>2 DEF ReserveUsed
<1> QED BY <1>7, <1>8, <1>9, <1>12, <1>13 DEF RunInv

\* Nothing changes.
LEMMA RunStutter == RunInv /\ UNCHANGED pvars => RunInv'
<1> SUFFICES ASSUME RunInv, UNCHANGED pvars PROVE RunInv'
    OBVIOUS
<1>1. RunTypeOK /\ CandidatesInv /\ QualifiedInv /\ OutputInv /\ ReleaseInv /\ ReserveUsed
    BY DEF RunInv
<1>2. RunTypeOK'
    BY <1>1 DEF pvars, RunTypeOK
<1>3. CandidatesInv' /\ QualifiedInv'
    BY <1>1 DEF pvars, CandidatesInv, QualifiedInv, Sound
<1>4. OutputInv'
    BY <1>1 DEF pvars, OutputInv, IsAnswer
<1>5. ReleaseInv'
    BY <1>1 DEF pvars, ReleaseInv, HoldsBack, BelowFloor, RowsOf
<1>6. ReserveUsed'
    BY <1>1 DEF pvars, ReserveUsed, RowsOf, Passes
<1> QED BY <1>2, <1>3, <1>4, <1>5, <1>6 DEF RunInv

\* RunInv is an invariant.
THEOREM RunInvCorrect == ProcurementSpec => []RunInv
<1>1. RunInv /\ [ProcurementNext]_pvars => RunInv'
  <2> SUFFICES ASSUME RunInv, [ProcurementNext]_pvars PROVE RunInv'
      OBVIOUS
  <2>1. CASE Gather
      BY <2>1, GatherInv
  <2>2. CASE Broaden
      BY <2>2, BroadenInv
  <2>3. CASE Verify
      BY <2>3, VerifyInv
  <2>4. CASE Replan
      BY <2>4, ReplanInv
  <2>5. CASE VerifyAgain
      BY <2>5, VerifyAgainInv
  <2>6. CASE Draft
      BY <2>6, DraftInv
  <2>7. CASE Report
      BY <2>7, ReportInv
  <2>8. CASE UNCHANGED pvars
      BY <2>8, RunStutter
  <2> QED BY <2>1, <2>2, <2>3, <2>4, <2>5, <2>6, <2>7, <2>8 DEF ProcurementNext
<1> QED BY <1>1, RunInitInv, PTL DEF ProcurementSpec

-----------------------------------------------------------------------------
(* What the invariant says of the answer and of what leaves the run.        *)

\* The values of the variables have their types.
THEOREM RunTypeCorrect == ProcurementSpec => []RunTypeOK
<1>1. RunInv => RunTypeOK
    BY DEF RunInv
<1> QED BY <1>1, RunInvCorrect, PTL

\* A row that has a candidate without a conflict has no pages that clash.
LEMMA NoClash ==
    ASSUME RunTypeOK, CandidatesInv, NEW i \in DOMAIN candidates, ~candidates[i].conflict
    PROVE  ~Clashing(candidates[i].row)
<1> SUFFICES ASSUME NEW p \in read, NEW q \in read, Says[p].row = candidates[i].row, Clash(p, q) PROVE FALSE
    BY DEF Clashing
<1>1. PICK c : c = candidates[i]
    OBVIOUS
<1>2. /\ \A k \in DOMAIN candidates : candidates[k].row = c.row => candidates[k] = c
      /\ \A x \in read : \E k \in DOMAIN candidates : Covers(request.mode, candidates[k], x)
    BY <1>1 DEF CandidatesInv, Single
<1>3. Says[p].row = c.row /\ Says[q].row = c.row
    BY <1>1 DEF Clash
<1>4. Covers(request.mode, c, p) /\ Covers(request.mode, c, q)
    BY <1>2, <1>3 DEF Covers
<1>5. /\ Offer(p) \in c.offers /\ Offer(q) \in c.offers
      /\ request.mode = "service" => Says[p].price = Says[q].price
      /\ request.mode = "contact" => DomainMatch(p) = DomainMatch(q)
    BY <1>1, <1>4 DEF Covers
<1>6. request.mode \in Modes
    BY RequestFact
<1>7. request.mode = "product"
    BY <1>5, <1>6 DEF Modes, Clash
<1>8. Fit(request.mode, c, ToSet(ledger))
    BY <1>1 DEF CandidatesInv, Sound, AllFit
<1>9. ~Contradictory(c.offers)
    BY <1>1, <1>7, <1>8 DEF Fit
<1>10. /\ Says[p].quantity = Says[q].quantity /\ Says[p].price # Says[q].price
       /\ (Priced(Says[p].price) <=> Priced(Says[q].price))
    BY <1>7 DEF Clash
<1>11. Contradictory(c.offers)
  <2>1. PICK a, b : a = Offer(p) /\ b = Offer(q)
      OBVIOUS
  <2>2. a.quantity = b.quantity /\ a.price # b.price /\ (Priced(a.price) <=> Priced(b.price))
      BY <1>10, <2>1 DEF Offer
  <2>3. a \in c.offers /\ b \in c.offers
      BY <1>5, <2>1
  <2> QED BY <2>2, <2>3 DEF Contradictory, SameConditions
<1> QED BY <1>9, <1>11

\* An output row, and the candidate and the verdict that it comes from.
LEMMA AnswerFact ==
    ASSUME RunInv, step \in {"verified", "drafted", "done"}, NEW i \in DOMAIN output
    PROVE  \E q \in CandidateType :
             /\ Fit(request.mode, q, ToSet(ledger)) /\ q.row = output[i].row
             /\ Backs(request.confirmed, q.row, read) /\ ~Clashing(q.row)
             /\ IsAnswer(output[i], q)
<1>1. RunTypeOK /\ CandidatesInv /\ QualifiedInv /\ OutputInv
    BY DEF RunInv
<1>2. PICK n \in DOMAIN qualified : IsAnswer(output[i], qualified[n])
    BY <1>1 DEF OutputInv
<1>3. PICK q, mode, confirmed : q = qualified[n] /\ mode = request.mode /\ confirmed = request.confirmed
    OBVIOUS
<1>4. Fit(mode, q, ToSet(ledger)) /\ Known(confirmed, q, read) /\ Validated(mode, confirmed, q)
    BY <1>1, <1>3 DEF QualifiedInv, Sound, AllFit
<1>5. Backs(confirmed, q.row, read)
    BY <1>1, <1>3, <1>4, ValidBacks, RequestFact
<1>6. PICK k \in DOMAIN candidates : candidates[k].row = q.row /\ ~candidates[k].conflict
    BY <1>1, <1>3 DEF QualifiedInv
<1>7. ~Clashing(q.row)
    BY <1>1, <1>6, NoClash
<1>8. q.row = output[i].row
  <2>1. q \in CandidateType
      BY <1>4 DEF Fit
  <2> QED BY <1>2, <1>3, <2>1 DEF IsAnswer, Repointed, CandidateType
<1>9. q \in CandidateType
    BY <1>4 DEF Fit
<1> QED BY <1>2, <1>3, <1>4, <1>5, <1>7, <1>8, <1>9

\* What a verified row rests on.
LEMMA VerifiedFact ==
    ASSUME RunInv, request.verify, NEW c, NEW q, Fit(request.mode, q, ToSet(ledger)), IsAnswer(c, q),
           NEW claim \in Claims(request.mode, c)
    PROVE  /\ \E p \in ToSet(c.refs) : Bears(request.mode, p, q.row, claim.value)
           /\ verdicts[q.row].decision = "proceed" => Bears(request.mode, claim.source, q.row, claim.value)
<1>1. RunTypeOK /\ ledger \in Seq(PagesOfRun)
    BY DEF RunInv, RunTypeOK
<1>2. PICK mode, v : mode = request.mode /\ v = verdicts[q.row]
    OBVIOUS
<1>3. v = Verdict(mode, q, ledger) /\ Accepted(v) /\ c = Repointed(q, v)
    BY <1>2 DEF IsAnswer
<1>4. v.verified
    BY <1>3 DEF Accepted
<1>5. v.pages \subseteq ToSet(ledger) /\ IsFiniteSet(v.pages)
    BY <1>1, <1>3, VerdictFact
<1>6. \A p \in v.pages : Says[p].row = q.row
    BY <1>1, <1>3, VerdictFact
<1>7. /\ Claims(mode, q) # {}
      /\ \A x \in Claims(mode, q) : \/ Bears(mode, x.source, q.row, x.value)
                                    \/ \E p \in v.pages : Bears(mode, p, q.row, x.value)
    BY <1>1, <1>3, <1>4, VerdictFact
<1>8. v.decision = "proceed" => \A x \in Claims(mode, q) : Bears(mode, x.source, q.row, x.value)
    BY <1>1, <1>3, VerdictFact
<1>9. ToSet(ledger) \subseteq PagesOfRun
    BY <1>1, ToSetFinite
<1>10. PICK pages : pages = ToSet(ledger)
    OBVIOUS
<1>11. Fit(mode, q, pages) /\ v.pages \subseteq pages \cap PagesOfRun
    BY <1>2, <1>5, <1>9, <1>10
<1>12. PICK d : d = Repointed(q, v)
    OBVIOUS
<1>13. d.endpoints = q.endpoints /\ d.offer = q.offer /\ CitesMore(d, q)
  <2>1. CitesMore(d, q)
    <3>1. q \in CandidateType
        BY <1>11 DEF Fit
    <3> QED BY <1>5, <1>11, <1>12, <3>1, RepointedCites
  <2>2. d = [q EXCEPT !.refs = q.refs \o SetToSeq(v.pages \ ToSet(q.refs))]
      BY <1>12 DEF Repointed
  <2>3. q \in CandidateType
      BY <1>11 DEF Fit
  <2> QED BY <2>1, <2>2, <2>3 DEF CandidateType
<1>14. PICK t \in Seq(PagesOfRun) : d.refs = q.refs \o t
    BY <1>13 DEF CitesMore
<1>15. ToSet(q.refs) \subseteq ToSet(d.refs) /\ v.pages \subseteq ToSet(d.refs)
    BY <1>5, <1>6, <1>11, <1>12, RepointedFit
<1>16. q \in CandidateType
    BY <1>11 DEF Fit
<1>17. Claims(mode, d) = Claims(mode, q)
    BY <1>7, <1>13, <1>14, <1>16, ClaimsKept
<1>18. claim \in Claims(mode, q)
    BY <1>2, <1>3, <1>12, <1>17
<1>19. claim.source \in ToSet(d.refs)
    BY <1>11, <1>15, <1>18, ClaimsCited
<1>20. \E p \in ToSet(d.refs) : Bears(mode, p, q.row, claim.value)
    BY <1>7, <1>18, <1>19, <1>15
<1> QED BY <1>2, <1>3, <1>8, <1>12, <1>18, <1>20

\* To bear a claim of the run out is to attest it.
LEMMA AttestsFact ==
    ASSUME NEW p, NEW row, NEW value, Bears(request.mode, p, row, value)
    PROVE  Attests(p, row, value)
BY DEF Bears, Attests, Shown

\* What is in the output stands.
LEMMA OutputStandsInv == RunInv => OutputStands
<1> SUFFICES ASSUME RunInv, step \in {"verified", "drafted", "done"}, NEW i \in DOMAIN output
             PROVE  LET c == output[i] IN
                    /\ ~Clashing(c.row)
                    /\ request.confirmed =>
                         \A r \in Required : \E p \in read :
                           /\ Says[p].row = c.row /\ Says[p].own
                           /\ Says[p].signs[r] = (IF RequirementKind[r] = "exclusion" THEN "contradicted"
                                                  ELSE "supported")
                    /\ request.verify =>
                         \A claim \in Claims(request.mode, c) :
                           \E p \in ToSet(c.refs) : Attests(p, c.row, claim.value)
    BY DEF OutputStands
<1>1. PICK c : c = output[i]
    OBVIOUS
<1>2. PICK q \in CandidateType :
         /\ Fit(request.mode, q, ToSet(ledger)) /\ q.row = c.row
         /\ Backs(request.confirmed, q.row, read) /\ ~Clashing(q.row) /\ IsAnswer(c, q)
    BY <1>1, AnswerFact
<1>3. ~Clashing(c.row)
    BY <1>2
<1>4. request.confirmed =>
        \A r \in Required : \E p \in read :
          /\ Says[p].row = c.row /\ Says[p].own
          /\ Says[p].signs[r] = (IF RequirementKind[r] = "exclusion" THEN "contradicted" ELSE "supported")
    BY <1>2 DEF Backs
<1>5. ASSUME request.verify, NEW claim \in Claims(request.mode, c)
      PROVE  \E p \in ToSet(c.refs) : Attests(p, c.row, claim.value)
  <2>1. PICK p \in ToSet(c.refs) : Bears(request.mode, p, q.row, claim.value)
      BY <1>2, <1>5, VerifiedFact
  <2> QED BY <1>2, <2>1, AttestsFact
<1> QED BY <1>1, <1>3, <1>4, <1>5

\* What the run answers with holds, and nobody was left out without need: whatever the
\* rounds find and in whatever order (_apply_consolidation_safety, _is_validated,
\* VerificationSpine, _verify_with_reserve).
THEOREM OutputIsRightCorrect == ProcurementSpec => []OutputIsRight
<1>1. RunInv => OutputIsRight
    BY OutputStandsInv DEF RunInv, OutputIsRight
<1> QED BY <1>1, RunInvCorrect, PTL

\* A verdict has a grade.
LEMMA GradeFact ==
    ASSUME NEW mode, NEW c, Fit(mode, c, ToSet(ledger)), ledger \in Seq(PagesOfRun)
    PROVE  Verdict(mode, c, ledger).grade \in Nat
<1> DEFINE each == {ClaimVerdict(mode, c.row, claim, ledger) : claim \in Claims(mode, c)}
           grades == {v.grade : v \in {x \in each : x.score > 0}}
<1>1. ASSUME NEW claim \in Claims(mode, c) PROVE ClaimVerdict(mode, c.row, claim, ledger).grade \in Nat
  <2>1. claim.source \in ToSet(c.refs)
      BY ClaimsCited
  <2>2. ToSet(c.refs) \subseteq Sources
      BY ToSetFinite DEF Fit, CandidateType
  <2>3. PICK tier : tier = IF claim.source = Memory THEN RecalledTier[c.row] ELSE Says[claim.source].tier
      OBVIOUS
  <2>4. tier \in 1..4
    <3>1. c.row \in Rows
        BY DEF Fit, CandidateType
    <3> QED BY <2>1, <2>2, <2>3, <3>1, SaysType, CandidatesAssumption DEF Sources, PageType
  <2>5. PICK label : label = Label(mode, c.row, claim, ledger)
      OBVIOUS
  <2>6. Graded(mode, c.row, claim, ledger, label) \in {High(1, tier - 1), Low(4, tier + 1), tier, High(1, tier - 2)}
      BY <2>3 DEF Graded
  <2>7. {High(1, tier - 1), Low(4, tier + 1), tier, High(1, tier - 2)} \subseteq Nat
      BY <2>4 DEF High, Low
  <2>8. ClaimVerdict(mode, c.row, claim, ledger).grade = Graded(mode, c.row, claim, ledger, label)
      BY <2>5 DEF ClaimVerdict, LabelledVerdict
  <2> QED BY <2>6, <2>7, <2>8
<1>2. grades \subseteq Nat
    BY <1>1
<1>3. Verdict(mode, c, ledger).grade = IF {x \in each : x.score > 0} = {} THEN 1 ELSE Lowest(grades)
  <2>1. Verdict(mode, c, ledger) = Overall(each, Says[Head(c.refs)].minor)
      BY DEF Verdict
  <2> HIDE DEF each
  <2> QED BY <2>1 DEF Overall
<1>4. {x \in each : x.score > 0} # {} => grades # {}
    BY DEF grades
<1>5. grades # {} => Lowest(grades) \in Nat
  <2> HIDE DEF grades
  <2> QED BY <1>2, LowestFact
<1> HIDE DEF grades, each
<1> QED BY <1>3, <1>4, <1>5

\* What leaves the run was vetted for it.
LEMMA NothingUnvettedInv == RunInv => NothingUnvettedLeaves
<1> SUFFICES ASSUME RunInv PROVE NothingUnvettedLeaves
    OBVIOUS
<1>1. RunTypeOK /\ CandidatesInv /\ OutputInv /\ ReleaseInv
    BY DEF RunInv
<1>2. ASSUME NEW row \in Rows, Clashing(row)
      PROVE  /\ step = "done" => row \in withheld
             /\ step \in {"drafted", "done"} => row \notin surface \cup released \cup held
  <2>1. PICK p \in read : Says[p].row = row
      BY <1>2 DEF Clashing
  <2>2. PICK i \in DOMAIN candidates : candidates[i].row = row
      BY <1>1, <2>1 DEF CandidatesInv, Covers
  <2>3. \A k \in DOMAIN candidates : candidates[k].row = row => candidates[k].conflict
      BY <1>1, <1>2, NoClash
  <2>4. step = "done" => row \in withheld
      BY <1>1, <2>2, <2>3 DEF ReleaseInv
  <2>5. step \in {"drafted", "done"} => row \notin surface
      BY <1>1, <2>3 DEF ReleaseInv
  <2>6. ASSUME step \in {"drafted", "done"} PROVE row \notin released \cup held
    <3>1. released \cup held \subseteq RowsOf(output)
        BY <1>1, <2>6 DEF ReleaseInv
    <3>2. row \notin RowsOf(output)
      <4> SUFFICES ASSUME NEW i_1 \in DOMAIN output, output[i_1].row = row PROVE FALSE
          BY DEF RowsOf
      <4> QED BY <1>2, <2>6, AnswerFact
    <3> QED BY <3>1, <3>2
  <2> QED BY <2>4, <2>5, <2>6
<1>3. ASSUME NEW row \in released
      PROVE  /\ row \in DOMAIN verdicts => verdicts[row].grade >= GradeFloor
             /\ ~(request.store /\ request.review)
  <2>1. step \in {"drafted", "done"} /\ row \in RowsOf(output) /\ ~HoldsBack(row)
      BY <1>1, <1>3 DEF ReleaseInv
  <2>2. ASSUME row \in DOMAIN verdicts PROVE verdicts[row].grade >= GradeFloor
    <3>1. request.verify
        BY <1>1, <2>2 DEF OutputInv
    <3>2. PICK i \in DOMAIN output : output[i].row = row
        BY <2>1 DEF RowsOf
    <3>3. PICK q \in CandidateType :
             Fit(request.mode, q, ToSet(ledger)) /\ q.row = row /\ IsAnswer(output[i], q)
        BY <2>1, <3>2, AnswerFact
    <3>4. verdicts[row] = Verdict(request.mode, q, ledger)
        BY <3>1, <3>3 DEF IsAnswer
    <3>5. verdicts[row].grade \in Nat
        BY <1>1, <3>3, <3>4, GradeFact DEF RunTypeOK
    <3>6. ~(verdicts[row].grade < GradeFloor)
        BY <2>1, <2>2 DEF HoldsBack, BelowFloor
    <3> QED BY <3>5, <3>6, ProcurementAssumption
  <2> QED BY <2>1, <2>2 DEF HoldsBack
<1>4. released \cap held = {}
    BY <1>1 DEF ReleaseInv
<1> QED BY <1>2, <1>3, <1>4 DEF NothingUnvettedLeaves

\* What is ready for review earned it.
LEMMA ReadyIsEarnedInv == RunInv => ReadyIsEarned
<1> SUFFICES ASSUME RunInv, NEW i \in DOMAIN output, output[i].row \in ready
             PROVE  /\ request.confirmed /\ request.verify /\ output[i].row \notin request.disputed
                    /\ \A claim \in Claims(request.mode, output[i]) :
                         Attests(claim.source, output[i].row, claim.value)
    BY DEF ReadyIsEarned
<1>1. RunTypeOK /\ OutputInv /\ ReleaseInv
    BY DEF RunInv
<1>2. PICK c : c = output[i]
    OBVIOUS
<1>3. /\ step = "done" /\ c.row \in DOMAIN verdicts
      /\ Readiness(request.mode, c, request.confirmed, verdicts[c.row],
                   c.row \in request.disputed, GradeFloor) = "review_ready"
    BY <1>1, <1>2 DEF ReleaseInv
<1>4. /\ verdicts[c.row].decision = "proceed" /\ c.row \notin request.disputed
      /\ Qualification(c, request.confirmed) = "qualified"
    BY <1>3 DEF Readiness
<1>5. request.confirmed
    BY <1>4 DEF Qualification
<1>6. request.verify
    BY <1>1, <1>3 DEF OutputInv
<1>7. PICK q \in CandidateType : Fit(request.mode, q, ToSet(ledger)) /\ q.row = c.row /\ IsAnswer(c, q)
    BY <1>2, <1>3, AnswerFact
<1>8. ASSUME NEW claim \in Claims(request.mode, c) PROVE Attests(claim.source, c.row, claim.value)
  <2>1. Bears(request.mode, claim.source, q.row, claim.value)
      BY <1>4, <1>6, <1>7, VerifiedFact
  <2> QED BY <1>7, <2>1, AttestsFact
<1> QED BY <1>2, <1>4, <1>5, <1>6, <1>8

\* A supplier whose pages clash is withheld and in no draft or view, drafts that are due
\* for review or below the grade floor are not in the result, and what is called ready
\* for review is attested by the very pages it cites (_build_rfqs, withheld_candidates,
\* candidate_readiness).
THEOREM ReleasesAreVettedCorrect == ProcurementSpec => []ReleasesAreVetted
<1>1. RunInv => ReleasesAreVetted
    BY NothingUnvettedInv, ReadyIsEarnedInv DEF ReleasesAreVetted
<1> QED BY <1>1, RunInvCorrect, PTL

=============================================================================
