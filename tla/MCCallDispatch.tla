--------------------------- MODULE MCCallDispatch ---------------------------
(* Instances of CallDispatch for TLC: one organisation with two campaigns. *)
EXTENDS CallDispatch, TLC

CONSTANTS o1, c1, c2, n1, n2, n3, d1, d2, d3, r1, r2

MCOrgOf == c1 :> o1 @@ c2 :> o1
MCOrgLimit == o1 :> 2
\* Two dispatches of the first campaign, one of the second.
MCCampaignOf == d1 :> c1 @@ d2 :> c1 @@ d3 :> c2
MCCampaignLimit == c1 :> 2 @@ c2 :> 1
\* A campaign alone with two dispatches.
MCOrgOf1 == c1 :> o1
MCOrgLimit1 == o1 :> 3
MCCampaignOf1 == [d \in Dispatch |-> c1]
MCCampaignLimitOne == c1 :> 1
\* Two caller ids make an exclusive pool.
MCNumbersPool == [c \in Campaign |-> Number]
\* A pool for the first campaign, a caller id of its own for the second.
MCNumbersMixed == c1 :> {n1, n2} @@ c2 :> {n3}
\* d1 and d2 call for the same campaign everywhere, from the same numbers, and
\* the reporters (the hangup webhook r1, the pipeline r2) report alike.
MCSymmetry ==
    Permutations({d1, d2}) \union Permutations({n1, n2}) \union Permutations(Reporter)
=============================================================================
