----------------------------- MODULE BlobStorage -----------------------------
(***************************************************************************)
(* Storage::put of the server (server/src/storage.rs) and the upload       *)
(* handler around it (server/src/api.rs).                                  *)
(*                                                                         *)
(* put takes no lock and does not await: it measures the directory, checks *)
(* the limit, writes the data file and then the .meta file, one file       *)
(* system call after the other, on a worker thread of the runtime.  Puts   *)
(* on different threads interleave between any two calls, and the server   *)
(* may stop between any two.  The files survive, the requests do not.      *)
(*                                                                         *)
(* A file's content is the sequence of the uploads its bytes came from, so *)
(* that a file two uploads wrote into can be told from a whole one.        *)
(***************************************************************************)
EXTENDS Integers, Sequences, FiniteSets, FiniteSetsExt

CONSTANTS
  Uploads,         \* POST /upload requests that pass authentication
  Names,           \* namespace/id pairs
  Sizes,           \* body lengths
  Threads,         \* worker threads of the runtime
  StorageLimit,    \* storage_limit_bytes
  MetaSize,        \* length of a .meta file
  NoFile, Empty, Mixed, \* a file that is absent, just created, overwritten half
  NoUpload,        \* a thread without work
  NoRequest        \* an upload that was not sent yet

ASSUME StorageAssumption ==
  /\ Sizes \subseteq Nat /\ Sizes # {} /\ StorageLimit \in Nat /\ MetaSize \in Nat
  /\ IsFiniteSet(Sizes) /\ IsFiniteSet(Names) /\ IsFiniteSet(Threads) /\ Threads # {}
  /\ {NoFile, Empty, Mixed, NoUpload} \cap Uploads = {} /\ NoFile \notin Seq(Uploads)

Files == Names \X {"data", "meta"}

VARIABLES
  data,       \* the data files
  meta,       \* the .meta files: the upload they describe
  status,     \* how far each request is
  request,    \* the name and the size each request asks for
  thread,     \* the upload each thread works on
  unread,     \* the files a thread's total_size has still to visit
  current,    \* the bytes it has counted so far
  opened      \* the uploads that ever created or truncated a data file
vars == <<data, meta, status, request, thread, unread, current, opened>>

walkVars == <<unread, current>>

-----------------------------------------------------------------------------
(* Files *)

FileSize(f) ==
  IF f[2] = "data" THEN IF data[f[1]] = NoFile THEN 0 ELSE Len(data[f[1]])
  ELSE IF meta[f[1]] \in {NoFile, Empty} THEN 0 ELSE MetaSize

TotalSize == MapThenSumSet(FileSize, Files)

(* Writing u's bytes from the start of a file that holds old: what is  *)
(* longer than the new bytes stays.                                    *)
Overwrite(old, u, size) ==
  [i \in 1 .. IF Len(old) > size THEN Len(old) ELSE size |-> IF i <= size THEN u ELSE old[i]]

(* A .meta file written after another upload's, both opened before: the *)
(* later JSON, or neither if the lengths differ.                        *)
MetaAfter(old, u) == IF old = Empty THEN {u} ELSE {u, Mixed}

-----------------------------------------------------------------------------
Init ==
  /\ data = [n \in Names |-> NoFile] /\ meta = [n \in Names |-> NoFile]
  /\ status = [u \in Uploads |-> "new"]
  /\ request = [u \in Uploads |-> NoRequest]
  /\ thread = [t \in Threads |-> NoUpload]
  /\ unread = [t \in Threads |-> {}] /\ current = [t \in Threads |-> 0]
  /\ opened = [n \in Names |-> {}]

Running(t, phase) == thread[t] # NoUpload /\ status[thread[t]] = phase

(* An authenticated request reaches put: total_size opens the directory. *)
BeginPut(t, u, name, size) ==
  /\ thread[t] = NoUpload /\ status[u] = "new"
  /\ thread' = [thread EXCEPT ![t] = u]
  /\ status' = [status EXCEPT ![u] = "measuring"]
  /\ request' = [request EXCEPT ![u] = [name |-> name, size |-> size]]
  /\ unread' = [unread EXCEPT ![t] = Files]
  /\ current' = [current EXCEPT ![t] = 0]
  /\ UNCHANGED <<data, meta, opened>>

(* total_size adds the length of one more file. *)
MeasureFile(t, f) ==
  /\ Running(t, "measuring") /\ f \in unread[t]
  /\ unread' = [unread EXCEPT ![t] = @ \ {f}]
  /\ current' = [current EXCEPT ![t] = @ + FileSize(f)]
  /\ UNCHANGED <<data, meta, status, request, thread, opened>>

(* mutant: the size of the upload is left out of the check *)
FitsAlready(t) == current[t] <= StorageLimit

Fits(t) == current[t] + request[thread[t]].size <= StorageLimit

(* The upload of a thread that leaves put without storing it *)
Refuse(t) ==
  /\ status' = [status EXCEPT ![thread[t]] = "refused"]
  /\ thread' = [thread EXCEPT ![t] = NoUpload]

CheckLimit(t) ==
  /\ Running(t, "measuring") /\ unread[t] = {}
  /\ \/ ~Fits(t) /\ Refuse(t)
     \/ Fits(t) /\ status' = [status EXCEPT ![thread[t]] = "admitted"] /\ UNCHANGED thread
  /\ current' = [current EXCEPT ![t] = 0]
  /\ UNCHANGED <<data, meta, request, unread, opened>>

(* fs::write of the data file: create or truncate, then write. *)
OpenData(t) ==
  LET name == request[thread[t]].name
  IN  /\ Running(t, "admitted")
      /\ data' = [data EXCEPT ![name] = <<>>]
      /\ opened' = [opened EXCEPT ![name] = @ \cup {thread[t]}]
      /\ status' = [status EXCEPT ![thread[t]] = "writing"]
      /\ UNCHANGED <<meta, request, thread, walkVars>>

WriteData(t) ==
  LET u == thread[t]
      name == request[u].name
  IN  /\ Running(t, "writing")
      /\ data' = [data EXCEPT ![name] = Overwrite(@, u, request[u].size)]
      /\ status' = [status EXCEPT ![u] = "written"]
      /\ UNCHANGED <<meta, request, thread, walkVars, opened>>

(* fs::write of the .meta file. *)
OpenMeta(t) ==
  /\ Running(t, "written")
  /\ meta' = [meta EXCEPT ![request[thread[t]].name] = Empty]
  /\ status' = [status EXCEPT ![thread[t]] = "describing"]
  /\ UNCHANGED <<data, request, thread, walkVars, opened>>

(* The put is over; the thread is free while the contract call is awaited. *)
WriteMeta(t) ==
  LET u == thread[t]
      name == request[u].name
  IN  /\ Running(t, "describing")
      /\ \E m \in MetaAfter(meta[name], u) : meta' = [meta EXCEPT ![name] = m]
      /\ status' = [status EXCEPT ![u] = "stored"]
      /\ thread' = [thread EXCEPT ![t] = NoUpload]
      /\ UNCHANGED <<data, request, walkVars, opened>>

(* mutant: the error of the first fs::write is dropped *)
FailCallIgnored(t) ==
  /\ Running(t, "admitted") \/ Running(t, "writing")
  /\ status' = [status EXCEPT ![thread[t]] = "written"]
  /\ UNCHANGED <<data, meta, request, thread, walkVars, opened>>

(* A file system call fails, while put measures or writes: it returns the  *)
(* error, and what is written stays.  (Of a write that fails, or is cut    *)
(* off by a stop, nothing is kept.)                                        *)
FailCall(t) ==
  /\ \E phase \in {"measuring", "admitted", "writing", "written", "describing"} :
       Running(t, phase)
  /\ Refuse(t)
  /\ unread' = [unread EXCEPT ![t] = {}] /\ current' = [current EXCEPT ![t] = 0]
  /\ UNCHANGED <<data, meta, request, opened>>

(* record_file_upload returned, with success or not: 201 in either case. *)
Respond(u) ==
  /\ status[u] = "stored"
  /\ status' = [status EXCEPT ![u] = "created"]
  /\ UNCHANGED <<data, meta, request, thread, walkVars, opened>>

(* The server stops and starts again. *)
Restart ==
  /\ status' = [u \in Uploads |->
       IF status[u] \in {"new", "created", "refused"} THEN status[u] ELSE "lost"]
  /\ thread' = [t \in Threads |-> NoUpload]
  /\ unread' = [t \in Threads |-> {}] /\ current' = [t \in Threads |-> 0]
  /\ UNCHANGED <<data, meta, request, opened>>

Next ==
  \/ \E t \in Threads :
       \/ \E u \in Uploads, name \in Names, size \in Sizes : BeginPut(t, u, name, size)
       \/ \E f \in Files : MeasureFile(t, f)
       \/ CheckLimit(t) \/ OpenData(t) \/ WriteData(t) \/ OpenMeta(t) \/ WriteMeta(t)
       \/ FailCall(t)
  \/ \E u \in Uploads : Respond(u)
  \/ Restart

Spec == Init /\ [][Next]_vars

-----------------------------------------------------------------------------
Phases == {"new", "measuring", "admitted", "writing", "written", "describing",
           "stored", "created", "refused", "lost"}

TypeOK ==
  /\ data \in [Names -> Seq(Uploads) \cup {NoFile}]
  /\ meta \in [Names -> Uploads \cup {NoFile, Empty, Mixed}]
  /\ status \in [Uploads -> Phases]
  /\ request \in [Uploads -> [name : Names, size : Sizes] \cup {NoRequest}]
  /\ thread \in [Threads -> Uploads \cup {NoUpload}]
  /\ unread \in [Threads -> SUBSET Files] /\ current \in [Threads -> Nat]
  /\ opened \in [Names -> SUBSET Uploads]

(* The limit is only overshot by what other threads were writing when the  *)
(* last upload was measured: one upload for every other thread, and the    *)
(* .meta files, which the check never counts in advance (Storage::put).    *)
OvershootBounded ==
  TotalSize <= StorageLimit + (Cardinality(Threads) - 1) * Max(Sizes)
                            + Cardinality(Threads) * MetaSize

(* A file that one upload alone ever opened is, once that upload was       *)
(* stored, complete and described by it, whatever the other uploads do and *)
(* however often the server restarts.                                      *)
StoredIntact ==
  \A u \in Uploads : status[u] \in {"stored", "created"} =>
    LET name == request[u].name
    IN  opened[name] = {u} =>
          /\ data[name] = [i \in 1 .. request[u].size |-> u]
          /\ meta[name] = u

(* The uploader a listing names really opened the data file: a stop        *)
(* between the two files leaves data without an uploader, never an         *)
(* uploader without data (put writes the .meta file last).                 *)
ListedAfterData == \A n \in Names : meta[n] \in Uploads => meta[n] \in opened[n]
=============================================================================
