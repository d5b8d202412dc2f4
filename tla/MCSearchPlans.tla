--------------------------- MODULE MCSearchPlans ---------------------------
(***************************************************************************)
(* Small instances for TLC of how pages are looked for and read: Frontier,     *)
(* Recipes, Trajectories, PageFetch and Wayback, side by side.  A behaviour is   *)
(* one of one of the five, chosen at the start.                                *)
(***************************************************************************)
EXTENDS Frontier, Recipes, Trajectories, PageFetch, Wayback, TLC

CONSTANTS u1, u2, u3, p1, p2, p3, r1, r2, d1, s1, s2, h1, h2

Scores == u1 :> 4 @@ u2 :> 3 @@ u3 :> 2
SmallCaps == [search |-> 3, fetch |-> 3, extract |-> 3]

Kinds3 == p1 :> "fits" @@ p2 :> "lacks" @@ p3 :> "drifts"
SearchAndFetch == <<0, 1, 2>>
RecipeBudget == [search |-> 1, fetch |-> 3]
LeftOver == [search |-> 1, fetch |-> 2]
BestFirst == <<h1, h2>>

Symmetry ==
    Permutations({r1, r2}) \cup Permutations(Fetchers) \cup Permutations(Recoveries)

TwoStrategies == <<"official_site_first", "quote_channel_first", "directory_contact_first">>
Fits == s1 :> [quote |-> 2, geo |-> 0] @@ s2 :> [quote |-> 0, geo |-> 2]
Weights == [quote |-> 2, geo |-> 1, coverage |-> 1]
Thresholds == [quote |-> 1, geo |-> 1]

VARIABLE which

Init ==
    /\ which \in {"frontier", "recipes", "trajectories", "pages", "archive"}
    /\ FrontierInit /\ RecipeInit /\ TrajectoriesInit /\ PageFetchInit /\ WaybackInit
    /\ which # "recipes" => \A r \in RecipeRuns : mine[r] = d1

Next ==
    /\ UNCHANGED which
    /\ \/ which = "frontier" /\ FrontierNext /\ UNCHANGED <<rvars, tvars, pvars, wvars>>
       \/ which = "recipes" /\ RecipeNext /\ UNCHANGED <<fvars, tvars, pvars, wvars>>
       \/ which = "trajectories" /\ TrajectoriesNext /\ UNCHANGED <<fvars, rvars, pvars, wvars>>
       \/ which = "pages" /\ PageFetchNext /\ UNCHANGED <<fvars, rvars, tvars, wvars>>
       \/ which = "archive" /\ WaybackNext /\ UNCHANGED <<fvars, rvars, tvars, pvars>>

Spec == Init /\ [][Next]_<<which, fvars, rvars, tvars, pvars, wvars>>

=============================================================================
