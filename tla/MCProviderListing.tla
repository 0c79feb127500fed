--------------------------- MODULE MCProviderListing ---------------------------
(* Values for the constants of ProviderListing that a cfg cannot write. *)
EXTENDS ProviderListing

CONSTANTS MinGb, MaxGb

MCConfig ==
  [rewardPerGbPerPeriod |-> 1, minAllocatedGb |-> MinGb, maxAllocatedGb |-> MaxGb,
   challengeResponseTimeout |-> 1]

Symmetric == Permutations(Providers)
=============================================================================
