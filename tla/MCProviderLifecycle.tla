-------------------------- MODULE MCProviderLifecycle --------------------------
(* Values for the constants of OwnerScripts that a cfg cannot write. *)
EXTENDS OwnerScripts

CONSTANTS MaxGb

MCConfig ==
  [rewardPerGbPerPeriod |-> 1, minAllocatedGb |-> 1, maxAllocatedGb |-> MaxGb,
   challengeResponseTimeout |-> 1]
MCMetadata ==
  [endpoint : Endpoints, start : Starts, p2p : SUBSET SUBSET Interfaces,
   named : BOOLEAN]
=============================================================================
