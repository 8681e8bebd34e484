------------------------------ MODULE MCCampaign ------------------------------
(* Instances of Campaign for TLC. *)
EXTENDS Campaign, TLC

CONSTANTS a, b, w1, w2

MCSymmetry == Permutations(Contact) \union Permutations(Worker)
=============================================================================
