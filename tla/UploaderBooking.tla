--------------------------- MODULE UploaderBooking ---------------------------
(***************************************************************************)
(* Uploaders: registerAsUploader books storage against payment;            *)
(* recordFileUpload and removeFileUpload, called by the servers, track how *)
(* many bytes each uploader keeps.                                         *)
(***************************************************************************)
EXTENDS RegistryState

(* mutant: the total before the call is compared *)
OldTotalBooked(caller, amountGb) == TotalBookedGb

(* The booked total once the caller's booking is replaced by amountGb. *)
NewTotalBooked(caller, amountGb) ==
  IF \E i \in DOMAIN uploaderIndex : uploaderIndex[i] = caller
  THEN Plus(Minus(TotalBookedGb, booked[caller]), amountGb)
  ELSE Plus(TotalBookedGb, amountGb)

(* transferred: the coins sent along with the call; all of them are kept. *)
RegisterAsUploader(caller, amountGb, transferred) ==
  /\ AssertNotPaused
  /\ amountGb > 0
  /\ transferred >= Times(amountGb, price)
  /\ TotalAllocatedGb >= NewTotalBooked(caller, amountGb)
  /\ balance + transferred <= MaxBalance
  /\ booked' = [booked EXCEPT ![caller] = amountGb]
  /\ uploaderIndex' = AddToIndex(uploaderIndex, caller)
  /\ balance' = balance + transferred
  /\ UNCHANGED <<clockVars, accessVars, node, metadata, listVars, challenge, stats,
                 usage, received>>

(* The amount is not compared with what the uploader booked. *)
RecordFileUpload(caller, uploader, size) ==
  /\ AssertNotPaused
  /\ caller \in storageAdmins
  /\ size > 0
  /\ IsAllowedUploader(uploader)
  /\ usage[uploader] + size <= MaxUsage
  /\ usage' = [usage EXCEPT ![uploader] = Plus(@, size)]
  /\ UNCHANGED <<clockVars, accessVars, node, metadata, listVars, challenge, stats,
                 booked, uploaderIndex, coinVars>>

RemoveFileUpload(caller, uploader, size) ==
  /\ AssertNotPaused
  /\ caller \in storageAdmins
  /\ size > 0
  /\ usage' = [usage EXCEPT ![uploader] = IF @ > size THEN @ - size ELSE 0]
  /\ UNCHANGED <<clockVars, accessVars, node, metadata, listVars, challenge, stats,
                 booked, uploaderIndex, coinVars>>

UploaderNext ==
  \/ \E caller \in Uploaders, amountGb \in BookingAmounts, transferred \in Payments :
       RegisterAsUploader(caller, amountGb, transferred)
  \/ \E caller \in Operators, uploader \in Uploaders, size \in FileSizes :
       \/ RecordFileUpload(caller, uploader, size)
       \/ RemoveFileUpload(caller, uploader, size)
=============================================================================
