--------------------------- MODULE MCUploadPipeline ---------------------------
(* Values for the constants of UploadPipeline that a cfg cannot write. *)
EXTENDS UploadPipeline

CONSTANTS MaxGb

MCConfig ==
  [rewardPerGbPerPeriod |-> 1, minAllocatedGb |-> 1, maxAllocatedGb |-> MaxGb,
   challengeResponseTimeout |-> 1]
=============================================================================
