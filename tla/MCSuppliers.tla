---------------------------- MODULE MCSuppliers ----------------------------
(***************************************************************************)
(* Small instances for TLC of what is said about suppliers: the answer of a    *)
(* run, from a web of eight pages of three suppliers; and what the owner's        *)
(* `suppliers' and `review' commands write, the identity registry and the         *)
(* review store.  A behaviour is one of one of the three, chosen at the start.     *)
(***************************************************************************)
EXTENDS Procurement, IdentityRegistry, ReviewStore, TLC


CONSTANTS acme, bolt, cast, certified, rented

MCRequirementKind == [r \in {certified, rented} |-> IF r = certified THEN "mandatory" ELSE "exclusion"]

Page(row, channel, price, quantity, how, fit, own, cert, model, tier) ==
    [row |-> row, gated |-> FALSE, channel |-> channel, price |-> price, quantity |-> quantity,
     how |-> how, matched |-> TRUE, fit |-> fit, own |-> own,
     signs |-> [r \in {certified, rented} |-> IF r = certified THEN cert ELSE
                                               IF cert = "supported" THEN "contradicted" ELSE "silent"],
     model |-> model, tier |-> tier, host |-> tier, name |-> fit, minor |-> "grounded"]

\* 1 and 2 show acme for the same terms, 3 and 8 name no terms and no price, of which 8
\* says why; 4 gives bolt a number the extractor missed, 5 is a model's rendering of
\* bolt's page, 6 names cast only to a learned scorer
\* and gives two minimum orders, 7 is a directory that has acme's
\* channel.
MCSays ==
    <<Page(acme, 1, 10, 1, "together", 3, TRUE, "supported", FALSE, 4),
      [Page(acme, 1, 12, 1, "together", 2, FALSE, "silent", FALSE, 2) EXCEPT !.minor = "ungrounded"],
      Page(acme, Nothing, Nothing, Nothing, "apart", 3, TRUE, "supported", FALSE, 3),
      Page(bolt, 2, 20, 1, "other", 2, TRUE, "supported", FALSE, 3),
      Page(bolt, 2, 20, 1, "together", 1, FALSE, "silent", TRUE, 3),
      [Page(cast, 3, 30, Nothing, "weakly", 1, TRUE, "supported", FALSE, 3) EXCEPT !.minor = "contradicted"],
      [Page(acme, 1, 10, 1, "together", 1, TRUE, "contradicted", FALSE, 1) EXCEPT !.gated = TRUE],
      Page(acme, Nothing, 50, Nothing, "together", 1, TRUE, "silent", FALSE, 2)>>

MCRecalledTier == [r \in {acme, bolt, cast} |-> IF r = acme THEN 4 ELSE 1]

NoRecall == [r \in {acme, bolt, cast} |-> Nothing]

MCRequests ==
    LET base == [mode |-> "product", confirmed |-> FALSE, verify |-> TRUE, store |-> FALSE,
                 review |-> FALSE, recalled |-> NoRecall, disputed |-> {}]
    IN {[base EXCEPT !.confirmed = TRUE],
        [base EXCEPT !.mode = "service", !.recalled[acme] = 1, !.disputed = {acme}],
        [base EXCEPT !.mode = "service", !.store = TRUE, !.review = TRUE, !.confirmed = TRUE],
        [base EXCEPT !.mode = "service", !.store = TRUE],
        [base EXCEPT !.mode = "service", !.verify = FALSE],
        [base EXCEPT !.mode = "contact"]}

VARIABLE which

SuppliersInit ==
    /\ which \in {"answer", "registry", "reviews"}
    /\ ProcurementInit /\ Init /\ ReviewInit
    /\ which # "answer" => request.mode = "product"

SuppliersNext ==
    /\ UNCHANGED which
    /\ \/ which = "answer" /\ ProcurementNext /\ UNCHANGED <<vars, rvars>>
       \/ which = "registry" /\ Next /\ UNCHANGED <<pvars, rvars>>
       \/ which = "reviews" /\ ReviewNext /\ UNCHANGED <<pvars, vars>>

SuppliersSpec == SuppliersInit /\ [][SuppliersNext]_<<which, pvars, vars, rvars>>

Symmetry == Permutations(Ids) \cup Permutations(Refs) \cup Permutations(Processes)

=============================================================================
