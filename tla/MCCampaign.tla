------------------------------ MODULE MCCampaign ------------------------------
(* Instances of Campaign for TLC. *)
EXTENDS Campaign, TLC

Interchangeable ==
  Permutations(Campaigns) \cup Permutations(Programmes) \cup Permutations(Callers)
=============================================================================
