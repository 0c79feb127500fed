---------------------------- MODULE UploadPipeline ----------------------------
(***************************************************************************)
(* An upload from end to end: the page that books and sends                *)
(* (front/src/pages/StoreFiles.jsx, lib/uploadToProvider.js), the servers  *)
(* that store and report (server/src/api.rs, contract.rs, sc_client.rs),   *)
(* and the contract, whose actions are those of UploaderBooking.           *)
(*                                                                         *)
(* Page and servers do not call the contract, they SEND it operations.  An *)
(* operation executes later, reverts, or expires; the page waits for its   *)
(* booking, the servers wait for nothing.  Meanwhile providers and the     *)
(* contract's administrator go on.                                         *)
(***************************************************************************)
EXTENDS StorageRegistry

CONSTANTS
  User,              \* the uploader behind the page
  Servers,           \* the selected providers' servers: addresses that call the contract
  MaxIds,            \* bound of the files of all attempts
  MaxFiles,          \* bound of the files of one dialog
  FileBytes, BytesPerGb,
  CanAwait           \* whether an operation of the wallet has waitFinalExecution: TRUE, FALSE

ASSUME PipelineAssumption ==
  /\ User \in Uploaders /\ Servers \subseteq Operators /\ IsFiniteSet(Servers)
  /\ FileBytes \in U64 \ {0} /\ BytesPerGb \in Nat \ {0}
  /\ CanAwait \subseteq BOOLEAN
  /\ MaxIds \in Nat \ {0} /\ MaxFiles \in Nat \ {0}

(* Every attempt draws a fresh id for every file: numbered here in order. *)
Ids == 1 .. MaxIds

VARIABLES
  phase,       \* of the page: closed, open, booking, paying, waiting for the chain, sending
  files,       \* how many files the dialog is about
  quote,       \* uploaderBooking: what is to be booked, what is booked already
  batch,       \* the ids of the confirmed files
  used,        \* how many ids were given out
  request,     \* how far each server is with each file
  answer,      \* what the page knows of it
  stored,      \* the files on the servers' disks
  pending,     \* operations that were sent to the chain
  myFiles,     \* the page's own list of hosted files
  charged      \* history: the bookings that were executed, by their batch

pageVars     == <<phase, files, quote, batch, used>>
serverVars   == <<request, stored>>
pipelineVars == <<pageVars, serverVars, answer, pending, myFiles, charged>>
everything   == <<vars, pipelineVars>>

NoAnswer == [q \in Ids \X Servers |-> "none"]

NoQuote == [need |-> 0, booked |-> 0]

(* GB to book for the files of the dialog, rounded up *)
NeedGb == (files * FileBytes + BytesPerGb - 1) \div BytesPerGb

PipelineInit ==
  /\ Init
  /\ phase = "closed" /\ files = 0 /\ quote = NoQuote /\ batch = {} /\ used = 0
  /\ request = [q \in Ids \X Servers |-> "none"]
  /\ answer = NoAnswer
  /\ stored = {} /\ pending = {} /\ myFiles = {} /\ charged = {}

-----------------------------------------------------------------------------
(* The page *)

OpenDialog(n) ==
  /\ phase = "closed"
  /\ phase' = "open" /\ files' = n /\ quote' = NoQuote
  /\ UNCHANGED <<vars, batch, used, serverVars, answer, pending, myFiles, charged>>

CancelDialog ==
  /\ phase = "open"
  /\ phase' = "closed" /\ quote' = NoQuote
  /\ UNCHANGED <<vars, files, batch, used, serverVars, answer, pending, myFiles, charged>>

(* The browser closes or reloads the page, in the middle of anything. *)
Reload ==
  /\ phase # "closed"
  /\ phase' = "closed" /\ files' = 0 /\ quote' = NoQuote /\ batch' = {} /\ answer' = NoAnswer
  /\ UNCHANGED <<vars, used, serverVars, pending, myFiles, charged>>

(* Reads of the contract: one that fails is answered with zero. *)
AvailableGb ==
  IF TotalAllocatedGb > TotalBookedGb THEN TotalAllocatedGb - TotalBookedGb ELSE 0

BookedAnswers    == {booked[User], 0}
PriceAnswers     == {price, 0}
AvailableAnswers == {AvailableGb, 0}

(* The dialog's effect ends, with amounts that may be stale when they are used. *)
ReadQuote ==
  /\ phase = "open" /\ quote = NoQuote
  /\ \E b \in BookedAnswers :
       quote' = [need |-> IF NeedGb > b THEN NeedGb ELSE 0, booked |-> b]
  /\ UNCHANGED <<vars, phase, files, batch, used, serverVars, answer, pending, myFiles,
                 charged>>

(* The button.  It can be pressed before the quote is known, and again     *)
(* after an attempt that failed: the dialog and its quote are still there. *)
Confirm ==
  /\ phase = "open" /\ used + files <= MaxIds
  /\ batch' = used + 1 .. used + files /\ used' = used + files
  /\ phase' = IF quote.need > 0 THEN "booking" ELSE "sending"
  /\ UNCHANGED <<vars, files, quote, serverVars, answer, pending, myFiles, charged>>

(* The attempt ends with a message; the dialog stays open. *)
GiveUp ==
  /\ phase' = "open" /\ batch' = {} /\ answer' = NoAnswer
  /\ UNCHANGED <<vars, files, quote, used, serverVars, pending, myFiles, charged>>

(* The balance or the capacity is too small, a read failed, or the wallet refused. *)
BookingFails == phase \in {"booking", "paying"} /\ GiveUp

(* The answer of getGlobalStorageUsage leaves room for it. *)
CapacitySuffices ==
  /\ phase = "booking"
  /\ \E available \in AvailableAnswers : quote.need <= available + quote.booked
  /\ phase' = "paying"
  /\ UNCHANGED <<vars, files, quote, batch, used, serverVars, answer, pending, myFiles, charged>>

Booking(coins) == [call |-> "book", amount |-> quote.need, coins |-> coins, of |-> batch]

(* registerAsUploaderWithTransfer, which reads the price again.  It waits  *)
(* only for an operation that can be waited for.                           *)
SendBooking ==
  /\ phase = "paying"
  /\ \E pricePerGb \in PriceAnswers :
       /\ quote.need * pricePerGb > 0
       /\ pending' = pending \cup {Booking(quote.need * pricePerGb)}
  /\ \E canAwait \in CanAwait : phase' = IF canAwait THEN "waiting" ELSE "sending"
  /\ UNCHANGED <<vars, files, quote, batch, used, serverVars, answer, myFiles, charged>>

(* waitFinalExecution returns; whether the call succeeded is not looked at. *)
BookingFinal ==
  /\ phase = "waiting"
  /\ \A op \in pending : op.call = "book" => op.of # batch
  /\ phase' = "sending"
  /\ UNCHANGED <<vars, files, quote, batch, used, serverVars, answer, pending, myFiles,
                 charged>>

(* ... or throws, perhaps before the operation is executed. *)
BookingUnknown == phase = "waiting" /\ GiveUp

Sent(id) == \A s \in Servers : answer[<<id, s>>] # "none"

Answered(id) == \A s \in Servers : answer[<<id, s>>] \in {"ok", "failed"}

(* mutant: every server the file was sent to *)
EveryServer(id) == Servers

Succeeded(id) == {s \in Servers : answer[<<id, s>>] = "ok"}

(* uploadFileToProviders: to all servers at once, one file after the other *)
SendFile(id) ==
  /\ phase = "sending" /\ id \in batch /\ ~Sent(id)
  /\ \A other \in batch : Sent(other) => Answered(other)
  /\ request' = [q \in Ids \X Servers |-> IF q[1] = id THEN "received" ELSE request[q]]
  /\ answer' = [q \in Ids \X Servers |-> IF q[1] = id THEN "waiting" ELSE answer[q]]
  /\ UNCHANGED <<vars, pageVars, stored, pending, myFiles, charged>>

AllAnswered == \A id \in batch : Sent(id) /\ Answered(id)

(* The entries of the batch, also those of files nobody took *)
Entries == {[id |-> id, uploadedTo |-> Succeeded(id)] : id \in batch}

AddStoredFiles(entries) == myFiles' = myFiles \cup entries

FinishUpload ==
  /\ phase = "sending" /\ AllAnswered
  /\ \E id \in batch : Succeeded(id) # {}
  /\ AddStoredFiles(Entries)
  /\ phase' = "closed" /\ files' = 0 /\ quote' = NoQuote /\ batch' = {} /\ answer' = NoAnswer
  /\ UNCHANGED <<vars, used, serverVars, pending, charged>>

(* "Aucun prélèvement" *)
NobodyTookIt ==
  /\ phase = "sending" /\ AllAnswered
  /\ \A id \in batch : Succeeded(id) = {}
  /\ GiveUp

(* The connection breaks: the page counts the server as failed. *)
LoseAnswer(id, s) ==
  /\ answer[<<id, s>>] = "waiting"
  /\ answer' = [answer EXCEPT ![<<id, s>>] = "failed"]
  /\ UNCHANGED <<vars, pageVars, serverVars, pending, myFiles, charged>>

-----------------------------------------------------------------------------
(* The servers *)

(* An error response reaches the page if it still waits. *)
RejectRequest(id, s) ==
  /\ request' = [request EXCEPT ![<<id, s>>] = "over"]
  /\ answer' = [answer EXCEPT ![<<id, s>>] = IF @ = "waiting" THEN "failed" ELSE @]
  /\ UNCHANGED <<vars, pageVars, stored, pending, myFiles, charged>>

(* mutant: a negative answer of the contract is let through *)
NotRefused(u) == TRUE

Allowed(u) == IsAllowedUploader(u)

(* getIsAllowedUploader, read from the contract at this moment *)
CheckUploader(id, s) ==
  /\ request[<<id, s>>] = "received"
  /\ Allowed(User)
  /\ request' = [request EXCEPT ![<<id, s>>] = "allowed"]
  /\ UNCHANGED <<vars, pageVars, stored, answer, pending, myFiles, charged>>

(* 401: a header is missing, or the wallet's signature does not verify. *)
Unauthorized(id, s) == request[<<id, s>>] = "received" /\ RejectRequest(id, s)

(* 403, 503, or put fails *)
Refused(id, s) ==
  /\ request[<<id, s>>] \in {"received", "allowed"}
  /\ RejectRequest(id, s)

(* Storage::put, whose steps are in BlobStorage *)
Put(id, s) ==
  /\ request[<<id, s>>] = "allowed"
  /\ stored' = stored \cup {<<id, s>>}
  /\ request' = [request EXCEPT ![<<id, s>>] = "stored"]
  /\ UNCHANGED <<vars, pageVars, answer, pending, myFiles, charged>>

Record(id, s) == [call |-> "record", id |-> id, server |-> s]

(* mutant: reported before it is stored *)
ReadyToRecord(q) == request[q] = "allowed"

Unrecorded(q) == request[q] = "stored"

(* record_file_upload, which is sent or not (no client, or an error that   *)
(* is only logged), and 201.                                               *)
Report(id, s) ==
  /\ Unrecorded(<<id, s>>)
  /\ \/ pending' = pending \cup {Record(id, s)}
     \/ UNCHANGED pending
  /\ request' = [request EXCEPT ![<<id, s>>] = "over"]
  /\ answer' = [answer EXCEPT ![<<id, s>>] = IF @ = "waiting" THEN "ok" ELSE @]
  /\ UNCHANGED <<vars, pageVars, stored, myFiles, charged>>

(* The server stops: the request is forgotten, the file stays. *)
Stop(s) ==
  /\ \E id \in Ids : request[<<id, s>>] \notin {"none", "over"}
  /\ request' = [q \in Ids \X Servers |->
       IF q[2] = s /\ request[q] # "none" THEN "over" ELSE request[q]]
  /\ UNCHANGED <<vars, pageVars, stored, answer, pending, myFiles, charged>>

-----------------------------------------------------------------------------
(* The chain *)

ExecuteBooking(op) ==
  /\ op.call = "book"
  /\ RegisterAsUploader(User, op.amount, op.coins)
  /\ pending' = pending \ {op}
  /\ charged' = charged \cup op.of
  /\ UNCHANGED <<pageVars, serverVars, answer, myFiles>>

ExecuteRecord(op) ==
  /\ op.call = "record"
  /\ RecordFileUpload(op.server, User, FileBytes)
  /\ pending' = pending \ {op}
  /\ UNCHANGED <<pageVars, serverVars, answer, myFiles, charged>>

(* It reverts, runs out of gas, or expires without being included. *)
OperationFails(op) ==
  /\ pending' = pending \ {op}
  /\ UNCHANGED <<vars, pageVars, serverVars, answer, myFiles, charged>>

(* Everybody else's calls, and time *)
RegistryStep == Next /\ UNCHANGED pipelineVars

-----------------------------------------------------------------------------
PageNext ==
  \/ \E n \in 1 .. MaxFiles : OpenDialog(n)
  \/ \E id \in Ids : SendFile(id)
  \/ Reload \/ CancelDialog \/ ReadQuote \/ Confirm \/ BookingFails \/ CapacitySuffices
  \/ SendBooking \/ BookingFinal \/ BookingUnknown \/ FinishUpload \/ NobodyTookIt

ServerNext ==
  \E s \in Servers :
    \/ \E id \in Ids :
         \/ CheckUploader(id, s) \/ Unauthorized(id, s) \/ Refused(id, s)
         \/ Put(id, s) \/ Report(id, s) \/ LoseAnswer(id, s)
    \/ Stop(s)

ChainNext ==
  \/ \E op \in pending : ExecuteBooking(op) \/ ExecuteRecord(op) \/ OperationFails(op)
  \/ RegistryStep

PipelineNext == PageNext \/ ServerNext \/ ChainNext

PipelineSpec == PipelineInit /\ [][PipelineNext]_everything

-----------------------------------------------------------------------------
(* What the contract charges to the user's account was stored: the usage   *)
(* recorded, with the records that are still on their way, never exceeds   *)
(* the replicas on the servers' disks, whatever is lost, refused, retried  *)
(* or stopped halfway (upload, recordFileUpload).                          *)
UsageIsStored ==
  LET records == {op \in pending : op.call = "record"}
  IN  usage[User] + FileBytes * Cardinality(records) <= FileBytes * Cardinality(stored)

(* The list of hosted files names a server only for a file that server     *)
(* has, also after answers were lost and attempts repeated (entries'       *)
(* uploadedTo, from which MyFiles downloads).                              *)
ListedServersHaveIt ==
  \A e \in myFiles : \A s \in e.uploadedTo : <<e.id, s>> \in stored

(* Nobody stores for free: a file is on a disk only if its uploader holds  *)
(* a booking now, however bookings, refusals and checks interleave.  (The  *)
(* user is no storage admin here.)                                         *)
StoredIsBooked == stored # {} => booked[User] > 0

-----------------------------------------------------------------------------
(* "on ne prélève les MAS qu'après succès" (StoreFiles.jsx:274), and       *)
(* "Aucun prélèvement" (StoreFiles.jsx:291) when no server took the file.  *)
(* The booking was paid before the first file was sent.                    *)
NothingTakenOnFailure == [][NobodyTookIt => batch \cap charged = {}]_everything
=============================================================================
