-------------------------- MODULE MCStorageRegistry --------------------------
(* Values for the constants of StorageRegistry that a cfg cannot write. *)
EXTENDS StorageRegistry

CONSTANTS MaxListLength, MinGb, MaxGb, Rate, Timeout, OtherRate

MCConfig ==
  [rewardPerGbPerPeriod |-> Rate, minAllocatedGb |-> MinGb, maxAllocatedGb |-> MaxGb,
   challengeResponseTimeout |-> Timeout]

(* updateConfig: another reward and a range that shuts small providers out *)
MCOtherConfigs ==
  {[MCConfig EXCEPT !.rewardPerGbPerPeriod = OtherRate, !.minAllocatedGb = MaxGb]}

MCRewardLists == UNION {[1 .. n -> Providers] : n \in 0 .. MaxListLength}

Symmetric == Permutations(Providers) \cup Permutations(ChallengeIds)
=============================================================================
