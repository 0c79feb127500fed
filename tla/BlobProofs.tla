------------------------------ MODULE BlobProofs ------------------------------
(***************************************************************************)
(* What the server's storage keeps, for any number of uploads, names and   *)
(* threads: a stored file is whole, a listing names nobody whose bytes     *)
(* were never written, and the limit is overshot by a known amount only,   *)
(* although nothing orders the threads between two file system calls.      *)
(***************************************************************************)
EXTENDS BlobStorage, SumTheorems, SequenceTheorems

Writing == {"admitted", "writing", "written", "describing"}

(* A thread has an upload of its own, which is being put. *)
ThreadsWork ==
  \A t \in Threads : thread[t] # NoUpload =>
    /\ status[thread[t]] \in {"measuring"} \cup Writing
    /\ \A s \in Threads : thread[s] = thread[t] => s = t

(* Who opened a data file asked for its name, and got past the check. *)
OpenedByRequest ==
  /\ \A u \in Uploads : status[u] # "new" => request[u] \in [name : Names, size : Sizes]
  /\ \A n \in Names : \A u \in opened[n] :
       /\ request[u].name = n
       /\ status[u] \notin {"new", "measuring", "admitted"}
       /\ data[n] \in Seq(Uploads)
  /\ \A u \in Uploads :
       status[u] \in {"writing", "written", "describing", "stored", "created"} =>
         u \in opened[request[u].name]

Whole(u) == [i \in 1 .. request[u].size |-> u]

(* A file nobody else opened follows the steps of its upload. *)
AloneIsWhole ==
  \A n \in Names : \A u \in Uploads : opened[n] = {u} =>
    /\ status[u] = "writing" => data[n] = <<>>
    /\ status[u] \in {"written", "describing", "stored", "created"} => data[n] = Whole(u)
    /\ status[u] = "describing" => meta[n] = Empty
    /\ status[u] \in {"stored", "created"} => meta[n] = u

BlobInv == TypeOK /\ ThreadsWork /\ OpenedByRequest /\ AloneIsWhole /\ ListedAfterData

(* The upload a thread is at, and the file it asked for *)
LEMMA RunningUpload ==
  ASSUME TypeOK, OpenedByRequest, NEW t \in Threads, NEW phase \in Phases \ {"new"},
         Running(t, phase)
  PROVE  /\ thread[t] \in Uploads /\ status[thread[t]] = phase
         /\ request[thread[t]] \in [name : Names, size : Sizes]
         /\ request[thread[t]].name \in Names /\ request[thread[t]].size \in Nat
         /\ request[thread[t]].size \in Sizes
<1>1. thread[t] \in Uploads /\ status[thread[t]] = phase
  BY DEF Running, TypeOK
<1>2. request[thread[t]] \in [name : Names, size : Sizes]
  BY <1>1 DEF TypeOK, OpenedByRequest
<1>3. QED
  BY <1>1, <1>2, StorageAssumption

LEMMA OverwriteType ==
  ASSUME NEW old \in Seq(Uploads), NEW u \in Uploads, NEW size \in Nat
  PROVE  /\ Overwrite(old, u, size) \in Seq(Uploads)
         /\ Len(Overwrite(old, u, size)) \in Nat
         /\ Len(Overwrite(old, u, size)) <= Len(old) + size
         /\ old = <<>> => Overwrite(old, u, size) = [i \in 1 .. size |-> u]
<1> DEFINE n == IF Len(old) > size THEN Len(old) ELSE size
<1>1. n \in Nat /\ n <= Len(old) + size
  BY LenProperties
<1>2. Overwrite(old, u, size) \in [1 .. n -> Uploads]
  <2>1. \A i \in 1 .. n : i > size => old[i] \in Uploads
    BY ElementOfSeq
  <2>2. QED
    BY <2>1 DEF Overwrite
<1>3. Overwrite(old, u, size) \in Seq(Uploads)
  BY <1>1, <1>2, SeqDef
<1>4. Len(Overwrite(old, u, size)) = n
  <2>1. DOMAIN Overwrite(old, u, size) = 1 .. n
    BY <1>2
  <2>2. DOMAIN Overwrite(old, u, size) = 1 .. Len(Overwrite(old, u, size))
    BY <1>3, LenProperties
  <2> HIDE DEF n
  <2>3. QED
    BY <1>1, <1>3, <2>1, <2>2, LenProperties
<1>5. old = <<>> => Overwrite(old, u, size) = [i \in 1 .. size |-> u]
  BY DEF Overwrite
<1> HIDE DEF n
<1>6. QED
  BY <1>1, <1>3, <1>4, <1>5

LEMMA InitBlob == Init => BlobInv
<1> SUFFICES ASSUME Init PROVE BlobInv
  OBVIOUS
<1>1. TypeOK
  BY DEF Init, TypeOK, Phases
<1>2. ThreadsWork /\ OpenedByRequest /\ AloneIsWhole /\ ListedAfterData
  BY StorageAssumption
     DEF Init, ThreadsWork, OpenedByRequest, AloneIsWhole, ListedAfterData
<1>3. QED
  BY <1>1, <1>2 DEF BlobInv

LEMMA BeginBlob ==
  ASSUME BlobInv, NEW t \in Threads, NEW u \in Uploads, NEW name \in Names, NEW size \in Sizes,
         BeginPut(t, u, name, size)
  PROVE  BlobInv'
<1> USE DEF BlobInv, BeginPut
<1>1. TypeOK'
  BY DEF TypeOK, Phases
<1>2. ThreadsWork'
  BY StorageAssumption DEF TypeOK, ThreadsWork, Writing
<1>3. /\ request'[u] = [name |-> name, size |-> size] /\ status'[u] = "measuring"
      /\ \A v \in Uploads \ {u} : request'[v] = request[v] /\ status'[v] = status[v]
  BY DEF TypeOK
<1>4. \A n \in Names : u \notin opened[n]
  BY DEF OpenedByRequest
<1>5. \A n \in Names : opened[n] \subseteq Uploads
  BY DEF TypeOK
<1>6. OpenedByRequest'
  BY <1>3, <1>4, <1>5 DEF OpenedByRequest
<1>7. AloneIsWhole'
  <2>1. \A v \in Uploads \ {u} : Whole(v)' = Whole(v)
    BY <1>3 DEF Whole
  <2>2. \A n \in Names, v \in Uploads : opened'[n] = {v} => opened[n] = {v} /\ v # u
    BY <1>4
  <2>3. QED
    BY <1>3, <2>1, <2>2 DEF AloneIsWhole
<1>8. ListedAfterData'
  BY DEF ListedAfterData
<1>9. QED
  BY <1>1, <1>2, <1>6, <1>7, <1>8

(* Steps that write no file: a request may move on, or end. *)
LEMMA QuietBlob ==
  ASSUME BlobInv, TypeOK', ThreadsWork', UNCHANGED <<data, meta, request, opened>>,
         \A u \in Uploads :
           \/ status'[u] = status[u]
           \/ status[u] = "measuring" /\ status'[u] = "admitted"
           \/ status[u] # "new" /\ status'[u] \in {"refused", "lost"}
           \/ status[u] = "stored" /\ status'[u] = "created"
  PROVE  BlobInv'
<1> USE DEF BlobInv
<1>1. \A n \in Names : opened[n] \subseteq Uploads
  BY DEF TypeOK
<1>2. OpenedByRequest'
  BY <1>1 DEF OpenedByRequest
<1>3. AloneIsWhole'
  BY DEF AloneIsWhole, Whole
<1>4. ListedAfterData'
  BY DEF ListedAfterData
<1>5. QED
  BY <1>2, <1>3, <1>4

LEMMA MeasureBlob ==
  ASSUME BlobInv, NEW t \in Threads, NEW f \in Files, MeasureFile(t, f)
  PROVE  BlobInv'
<1> USE DEF BlobInv, MeasureFile
<1>1. FileSize(f) \in Nat
  <2>1. f[1] \in Names
    BY DEF Files
  <2>2. data[f[1]] \in Seq(Uploads) \cup {NoFile}
    BY <2>1 DEF TypeOK
  <2>3. data[f[1]] # NoFile => Len(data[f[1]]) \in Nat
    BY <2>2, LenProperties
  <2>4. QED
    BY <2>3, StorageAssumption DEF FileSize
<1>2. TypeOK' /\ ThreadsWork'
  BY <1>1 DEF TypeOK, ThreadsWork
<1>3. QED
  BY <1>2, QuietBlob

LEMMA EndsBlob ==
  ASSUME BlobInv, \/ \E t \in Threads : CheckLimit(t) \/ FailCall(t)
                  \/ \E u \in Uploads : Respond(u)
                  \/ Restart
  PROVE  BlobInv'
<1> USE DEF BlobInv
<1> DEFINE Moves == \A u \in Uploads :
             \/ status'[u] = status[u]
             \/ status[u] = "measuring" /\ status'[u] = "admitted"
             \/ status[u] # "new" /\ status'[u] \in {"refused", "lost"}
             \/ status[u] = "stored" /\ status'[u] = "created"
<1>1. UNCHANGED <<data, meta, request, opened>>
  BY DEF CheckLimit, FailCall, Respond, Restart, walkVars
<1>2. ASSUME NEW t \in Threads, thread[t] \in Uploads, Refuse(t),
             status[thread[t]] \in {"measuring"} \cup Writing
      PROVE  /\ thread' \in [Threads -> Uploads \cup {NoUpload}] /\ status' \in [Uploads -> Phases]
             /\ Moves /\ ThreadsWork'
  <2>1. thread' \in [Threads -> Uploads \cup {NoUpload}] /\ status' \in [Uploads -> Phases]
    BY <1>2 DEF Refuse, TypeOK, Phases
  <2>2. Moves
    BY <1>2 DEF Refuse, TypeOK, Writing
  <2>3. ThreadsWork'
    BY <1>2 DEF Refuse, TypeOK, ThreadsWork
  <2>4. QED
    BY <2>1, <2>2, <2>3
<1>3. ASSUME NEW t \in Threads, CheckLimit(t)
      PROVE  TypeOK' /\ Moves /\ ThreadsWork'
  <2>1. thread[t] \in Uploads /\ status[thread[t]] = "measuring"
    BY <1>3 DEF CheckLimit, Running, TypeOK
  <2>2. current' \in [Threads -> Nat]
    BY <1>3 DEF CheckLimit, TypeOK
  <2>3. CASE Refuse(t)
    BY <1>1, <1>2, <1>3, <2>1, <2>2, <2>3 DEF CheckLimit, TypeOK
  <2>4. CASE status' = [status EXCEPT ![thread[t]] = "admitted"] /\ UNCHANGED thread
    <3>1. TypeOK' /\ Moves
      BY <1>1, <1>3, <2>1, <2>2, <2>4 DEF CheckLimit, TypeOK, Phases
    <3>2. ThreadsWork'
      BY <2>1, <2>4 DEF TypeOK, ThreadsWork, Writing
    <3>3. QED
      BY <3>1, <3>2
  <2>5. QED
    BY <1>3, <2>3, <2>4 DEF CheckLimit
<1>4. ASSUME NEW t \in Threads, FailCall(t)
      PROVE  TypeOK' /\ Moves /\ ThreadsWork'
  <2>1. thread[t] \in Uploads /\ status[thread[t]] \in {"measuring"} \cup Writing
    BY <1>4 DEF FailCall, Running, TypeOK, Writing
  <2>2. unread' \in [Threads -> SUBSET Files] /\ current' \in [Threads -> Nat]
    BY <1>4 DEF FailCall, TypeOK
  <2>3. QED
    BY <1>1, <1>2, <1>4, <2>1, <2>2 DEF FailCall, TypeOK
<1>5. ASSUME NEW u \in Uploads, Respond(u)
      PROVE  TypeOK' /\ Moves /\ ThreadsWork'
  <2>1. TypeOK' /\ Moves
    BY <1>5 DEF Respond, walkVars, TypeOK, Phases
  <2>2. ThreadsWork'
    BY <1>5, StorageAssumption DEF Respond, TypeOK, ThreadsWork, Writing
  <2>3. QED
    BY <2>1, <2>2
<1>6. ASSUME Restart
      PROVE  TypeOK' /\ Moves /\ ThreadsWork'
  BY <1>6 DEF Restart, TypeOK, Phases, ThreadsWork
<1> HIDE DEF Moves
<1>7. TypeOK' /\ Moves /\ ThreadsWork'
  BY <1>3, <1>4, <1>5, <1>6
<1>8. QED
  BY <1>1, <1>7, QuietBlob DEF Moves

LEMMA OpenDataBlob ==
  ASSUME BlobInv, NEW t \in Threads, OpenData(t)
  PROVE  BlobInv'
<1> USE DEF BlobInv
<1> DEFINE u == thread[t]
           n == request[u].name
<1>1. u \in Uploads /\ status[u] = "admitted" /\ n \in Names
  BY RunningUpload DEF OpenData, Phases
<1>2. /\ data' = [data EXCEPT ![n] = <<>>] /\ opened' = [opened EXCEPT ![n] = @ \cup {u}]
      /\ status' = [status EXCEPT ![u] = "writing"]
      /\ UNCHANGED <<meta, request, thread, unread, current>>
  BY DEF OpenData, walkVars
<1> HIDE DEF u, n
<1>3. TypeOK'
  BY <1>1, <1>2 DEF TypeOK, Phases
<1>4. ThreadsWork'
  BY <1>1, <1>2 DEF TypeOK, ThreadsWork, Writing
<1>5. \A m \in Names : opened[m] \subseteq Uploads /\ u \notin opened[m]
  BY <1>1 DEF TypeOK, OpenedByRequest
<1>6. OpenedByRequest'
  <2>1. \A v \in Uploads : status'[v] # "new" => request'[v] \in [name : Names, size : Sizes]
    BY <1>1, <1>2 DEF TypeOK, OpenedByRequest
  <2>2. ASSUME NEW m \in Names, NEW v \in opened'[m]
        PROVE  /\ request'[v].name = m
               /\ status'[v] \notin {"new", "measuring", "admitted"}
               /\ data'[m] \in Seq(Uploads)
    <3>1. CASE v = u
      BY <1>1, <1>2, <1>5, <2>2, <3>1 DEF TypeOK, n
    <3>2. CASE v # u
      BY <1>1, <1>2, <1>5, <2>2, <3>2 DEF TypeOK, OpenedByRequest
    <3>3. QED
      BY <3>1, <3>2
  <2>3. ASSUME NEW v \in Uploads,
               status'[v] \in {"writing", "written", "describing", "stored", "created"}
        PROVE  v \in opened'[request'[v].name]
    <3>1. CASE v = u
      BY <1>1, <1>2, <3>1 DEF TypeOK, n
    <3>2. CASE v # u
      BY <1>1, <1>2, <2>3, <3>2 DEF TypeOK, OpenedByRequest
    <3>3. QED
      BY <3>1, <3>2
  <2>4. QED
    BY <2>1, <2>2, <2>3 DEF OpenedByRequest
<1>7. AloneIsWhole'
  <2> SUFFICES ASSUME NEW m \in Names, NEW v \in Uploads, opened'[m] = {v}
               PROVE  /\ status'[v] = "writing" => data'[m] = <<>>
                      /\ status'[v] \in {"written", "describing", "stored", "created"} =>
                           data'[m] = Whole(v)'
                      /\ status'[v] = "describing" => meta'[m] = Empty
                      /\ status'[v] \in {"stored", "created"} => meta'[m] = v
    BY DEF AloneIsWhole
  <2>1. CASE m = n
    <3>1. v = u
      <4>1. u \in opened'[n]
        BY <1>1, <1>2 DEF TypeOK
      <4>2. QED
        BY <2>1, <4>1
    <3>2. QED
      BY <1>1, <1>2, <2>1, <3>1 DEF TypeOK
  <2>2. CASE m # n
    <3>1. opened[m] = {v} /\ data'[m] = data[m] /\ meta'[m] = meta[m]
      BY <1>1, <1>2, <2>2 DEF TypeOK
    <3>2. v # u
      BY <1>5, <3>1
    <3>3. status'[v] = status[v] /\ Whole(v)' = Whole(v)
      BY <1>1, <1>2, <3>2 DEF TypeOK, Whole
    <3>4. QED
      BY <3>1, <3>3 DEF AloneIsWhole
  <2>3. QED
    BY <2>1, <2>2
<1>8. ListedAfterData'
  BY <1>1, <1>2 DEF TypeOK, ListedAfterData
<1>9. QED
  BY <1>3, <1>4, <1>6, <1>7, <1>8

(* A write to a name: of an upload that opened the data file before. *)
LEMMA WritesBlob ==
  ASSUME BlobInv, NEW t \in Threads, WriteData(t) \/ OpenMeta(t) \/ WriteMeta(t)
  PROVE  BlobInv'
<1> USE DEF BlobInv
<1> DEFINE u == thread[t]
           n == request[u].name
<1>1. /\ u \in Uploads /\ n \in Names /\ request[u].size \in Nat
      /\ status[u] \in {"writing", "written", "describing"}
  BY RunningUpload DEF WriteData, OpenMeta, WriteMeta, Phases
<1>2. u \in opened[n] /\ data[n] \in Seq(Uploads)
  BY <1>1 DEF OpenedByRequest
<1>3. /\ \A m \in Names \ {n} : data'[m] = data[m] /\ meta'[m] = meta[m]
      /\ \A v \in Uploads \ {u} : status'[v] = status[v]
      /\ UNCHANGED <<request, opened, unread, current>>
  BY <1>1 DEF WriteData, OpenMeta, WriteMeta, TypeOK, walkVars
<1> HIDE DEF u, n
<1>4. CASE WriteData(t)
  <2>1. /\ data' = [data EXCEPT ![n] = Overwrite(@, u, request[u].size)]
        /\ status' = [status EXCEPT ![u] = "written"] /\ status[u] = "writing"
        /\ UNCHANGED <<meta, thread>>
    BY <1>4 DEF WriteData, Running, u, n
  <2>2. /\ data'[n] \in Seq(Uploads)
        /\ data[n] = <<>> => data'[n] = Whole(u)
    BY <1>1, <1>2, <2>1, OverwriteType DEF TypeOK, Whole
  <2>3. TypeOK' /\ ThreadsWork'
    BY <1>1, <1>3, <2>1, <2>2 DEF TypeOK, Phases, ThreadsWork, Writing
  <2>4. OpenedByRequest'
    BY <1>1, <1>2, <1>3, <2>1, <2>2 DEF TypeOK, OpenedByRequest
  <2>5. ASSUME NEW m \in Names, NEW v \in Uploads, opened'[m] = {v}
        PROVE  /\ status'[v] = "writing" => data'[m] = <<>>
               /\ status'[v] \in {"written", "describing", "stored", "created"} =>
                    data'[m] = Whole(v)'
               /\ status'[v] = "describing" => meta'[m] = Empty
               /\ status'[v] \in {"stored", "created"} => meta'[m] = v
    <3>1. Whole(v)' = Whole(v)
      BY <1>3 DEF Whole
    <3>2. CASE m = n
      <4>1. v = u
        BY <1>2, <1>3, <2>5, <3>2
      <4>2. status'[u] = "written"
        BY <1>1, <2>1 DEF TypeOK
      <4>3. data[n] = <<>>
        BY <1>1, <1>3, <2>1, <2>5, <3>2, <4>1 DEF AloneIsWhole
      <4>4. QED
        BY <2>2, <3>1, <3>2, <4>1, <4>2, <4>3
    <3>3. CASE m # n
      <4>1. v # u
        BY <1>1, <1>3, <2>5, <3>3 DEF OpenedByRequest, n
      <4>2. QED
        BY <1>3, <2>5, <3>1, <3>3, <4>1 DEF AloneIsWhole
    <3>4. QED
      BY <3>2, <3>3
  <2>6. AloneIsWhole'
    BY <2>5 DEF AloneIsWhole
  <2>7. ListedAfterData'
    BY <1>3, <2>1 DEF ListedAfterData
  <2>8. QED
    BY <2>3, <2>4, <2>6, <2>7
<1>5. CASE OpenMeta(t) \/ WriteMeta(t)
  <2>1. data' = data /\ thread' \in [Threads -> Uploads \cup {NoUpload}]
    BY <1>5 DEF OpenMeta, WriteMeta, TypeOK
  <2>2. \/ /\ OpenMeta(t) /\ status[u] = "written" /\ thread' = thread
           /\ status' = [status EXCEPT ![u] = "describing"]
           /\ meta' = [meta EXCEPT ![n] = Empty]
        \/ /\ WriteMeta(t) /\ status[u] = "describing"
           /\ thread' = [thread EXCEPT ![t] = NoUpload]
           /\ status' = [status EXCEPT ![u] = "stored"]
           /\ \E x \in MetaAfter(meta[n], u) : meta' = [meta EXCEPT ![n] = x]
    BY <1>5 DEF OpenMeta, WriteMeta, Running, u, n
  <2>3. /\ status' \in [Uploads -> Phases] /\ meta' \in [Names -> Uploads \cup {NoFile, Empty, Mixed}]
        /\ status'[u] \in {"describing", "stored"}
    <3>1. status' \in [Uploads -> Phases] /\ status'[u] \in {"describing", "stored"}
      BY <1>1, <2>2 DEF TypeOK, Phases
    <3>2. \A x \in MetaAfter(meta[n], u) : x \in Uploads \cup {NoFile, Empty, Mixed}
      BY <1>1 DEF MetaAfter
    <3>3. meta' \in [Names -> Uploads \cup {NoFile, Empty, Mixed}]
      BY <1>1, <2>2, <3>2 DEF TypeOK
    <3>4. QED
      BY <3>1, <3>3
  <2>4. TypeOK'
    BY <1>3, <2>1, <2>3 DEF TypeOK
  <2>5. ThreadsWork'
    <3>1. thread[t] = u
      BY DEF u
    <3>2. CASE OpenMeta(t) /\ thread' = thread
      BY <1>1, <1>3, <2>3, <3>1, <3>2 DEF OpenMeta, TypeOK, ThreadsWork, Writing
    <3>3. CASE thread' = [thread EXCEPT ![t] = NoUpload]
      <4>1. \A s \in Threads : thread'[s] # NoUpload => s # t /\ thread'[s] = thread[s]
        BY <3>3 DEF TypeOK
      <4>2. \A s \in Threads : thread'[s] # NoUpload => thread[s] \in Uploads \ {u}
        BY <3>1, <4>1 DEF TypeOK, ThreadsWork
      <4>3. \A s \in Threads : thread'[s] # NoUpload => status'[thread[s]] = status[thread[s]]
        BY <1>3, <4>2
      <4>4. QED
        BY <4>1, <4>3 DEF ThreadsWork
    <3>4. QED
      BY <2>2, <3>2, <3>3
  <2>6. OpenedByRequest'
    BY <1>1, <1>2, <1>3, <2>1, <2>3 DEF TypeOK, OpenedByRequest, n
  <2>7. ASSUME NEW m \in Names, NEW v \in Uploads, opened'[m] = {v}
        PROVE  /\ status'[v] = "writing" => data'[m] = <<>>
               /\ status'[v] \in {"written", "describing", "stored", "created"} =>
                    data'[m] = Whole(v)'
               /\ status'[v] = "describing" => meta'[m] = Empty
               /\ status'[v] \in {"stored", "created"} => meta'[m] = v
    <3>1. Whole(v)' = Whole(v) /\ opened[m] = {v}
      BY <1>3, <2>7 DEF Whole
    <3>2. CASE m = n
      <4>1. v = u
        BY <1>2, <1>3, <2>7, <3>2
      <4>2. data[n] = Whole(u)
        BY <1>1, <2>2, <3>1, <3>2, <4>1 DEF AloneIsWhole
      <4>3. CASE OpenMeta(t) /\ status'[u] = "describing"
        <5>1. meta'[n] = Empty
          BY <1>1, <2>2, <2>3, <4>3 DEF TypeOK
        <5>2. QED
          BY <2>1, <3>1, <3>2, <4>1, <4>2, <4>3, <5>1
      <4>4. CASE WriteMeta(t) /\ status'[u] = "stored"
        <5>1. meta'[n] = u
          <6>1. status[u] = "describing"
            BY <1>1, <2>2, <4>4 DEF TypeOK
          <6>2. meta[n] = Empty
            BY <1>1, <3>1, <3>2, <4>1, <6>1 DEF AloneIsWhole
          <6>3. QED
            BY <1>1, <2>2, <6>1, <6>2 DEF TypeOK, MetaAfter
        <5>2. QED
          BY <2>1, <3>1, <3>2, <4>1, <4>2, <4>4, <5>1
      <4>5. QED
        BY <1>1, <2>2, <4>3, <4>4 DEF TypeOK
    <3>3. CASE m # n
      <4>1. v # u
        BY <1>1, <3>1, <3>3 DEF OpenedByRequest, n
      <4>2. QED
        BY <1>3, <3>1, <3>3, <4>1 DEF AloneIsWhole
    <3>4. QED
      BY <3>2, <3>3
  <2>8. AloneIsWhole'
    BY <2>7 DEF AloneIsWhole
  <2>9. ListedAfterData'
    <3>1. meta'[n] \in {Empty, Mixed, u}
      BY <1>1, <2>2 DEF TypeOK, MetaAfter
    <3>2. QED
      BY <1>2, <1>3, <3>1, StorageAssumption DEF ListedAfterData
  <2>10. QED
    BY <2>4, <2>5, <2>6, <2>8, <2>9
<1>6. QED
  BY <1>4, <1>5

LEMMA StepBlob == BlobInv /\ [Next]_vars => BlobInv'
<1> SUFFICES ASSUME BlobInv, [Next]_vars PROVE BlobInv'
  OBVIOUS
<1>1. CASE Next
  BY <1>1, BeginBlob, MeasureBlob, EndsBlob, OpenDataBlob, WritesBlob DEF Next
<1>2. CASE UNCHANGED vars
  BY <1>2 DEF vars, walkVars, BlobInv, TypeOK, ThreadsWork, OpenedByRequest, AloneIsWhole,
     Whole, ListedAfterData
<1>3. QED
  BY <1>1, <1>2

(* The stored file is whole and described by its upload unless another     *)
(* upload opened the same name, for any number of threads and restarts.    *)
THEOREM StoredIntactCorrect == Spec => []StoredIntact
<1>1. BlobInv => StoredIntact
  <2> SUFFICES ASSUME BlobInv, NEW u \in Uploads, status[u] \in {"stored", "created"},
                      opened[request[u].name] = {u}
               PROVE  data[request[u].name] = Whole(u) /\ meta[request[u].name] = u
    BY DEF StoredIntact, Whole
  <2>1. request[u].name \in Names
    BY DEF BlobInv, OpenedByRequest
  <2>2. QED
    BY <2>1 DEF BlobInv, AloneIsWhole
<1>2. QED
  BY <1>1, InitBlob, StepBlob, PTL DEF Spec

(* A listing names no uploader that did not open the data file before.     *)
THEOREM ListedAfterDataCorrect == Spec => []ListedAfterData
<1>1. BlobInv => ListedAfterData
  BY DEF BlobInv
<1>2. QED
  BY <1>1, InitBlob, StepBlob, PTL DEF Spec

-----------------------------------------------------------------------------
(* How far the limit can be overshot *)

Share  == Max(Sizes) + MetaSize
Others == (Cardinality(Threads) - 1) * Share

Lengths == [f \in Files |-> FileSize(f)]

(* What a thread may still write.  Of one that is still measuring that is  *)
(* unknown: if it began before others (rank < limit) it is given a share,  *)
(* otherwise what it measures will tell.                                   *)
Due(s, rank, limit) ==
  IF thread[s] = NoUpload THEN 0
  ELSE IF status[thread[s]] = "measuring" THEN IF rank[s] < limit THEN Share ELSE 0
  ELSE IF status[thread[s]] \in {"admitted", "writing"} THEN request[thread[s]].size + MetaSize
  ELSE MetaSize

Dues(rank, limit) == [s \in Threads |-> Due(s, rank, limit)]

(* The threads are ranked by when they began, and somebody was the last to *)
(* begin of those that passed the check, limit being its rank.  What is on *)
(* the disk, and is still to come of whoever began before, is bounded by   *)
(* what that one measured; and the same will hold of whoever began later   *)
(* and still measures, when it passes.                                     *)
Gap(rank, limit) ==
  /\ \A s, t \in Threads :
       Running(s, "measuring") /\ Running(t, "measuring") /\ rank[s] = rank[t] => s = t
  /\ SumOf(Lengths, Files) + SumOf(Dues(rank, limit), Threads)
       <= StorageLimit + Others + MetaSize
  /\ \A t \in Threads : Running(t, "measuring") /\ rank[t] >= limit =>
       SumOf(Lengths, Files \ unread[t]) + SumOf(Dues(rank, rank[t]), Threads \ {t})
         <= current[t] + Others

GapInv == \E rank \in [Threads -> Nat], limit \in Nat : Gap(rank, limit)

LEMMA Constants ==
  /\ IsFiniteSet(Files) /\ IsFiniteSet(Threads)
  /\ Cardinality(Threads) \in Nat /\ Cardinality(Threads) >= 1
  /\ MetaSize \in Nat /\ StorageLimit \in Nat /\ Max(Sizes) \in Nat
  /\ Share \in Nat /\ Others \in Nat
  /\ \A x \in Sizes : x \in Nat /\ x <= Max(Sizes)
<1>1. IsFiniteSet(Files)
  <2>1. IsFiniteSet({"data"} \cup {"meta"})
    BY FS_Singleton, FS_AddElement
  <2>2. QED
    BY <2>1, FS_Product, StorageAssumption DEF Files
<1>2. IsFiniteSet(Threads) /\ Cardinality(Threads) \in Nat /\ Cardinality(Threads) # 0
  BY FS_CardinalityType, FS_EmptySet, StorageAssumption
<1>3. Max(Sizes) \in Nat /\ \A x \in Sizes : x \in Nat /\ x <= Max(Sizes)
  <2>1. \A x \in Sizes : x \in Int
    BY StorageAssumption
  <2>2. Max(Sizes) \in Sizes /\ \A x \in Sizes : x <= Max(Sizes)
    BY <2>1, MaxIsLargest, StorageAssumption
  <2>3. QED
    BY <2>2, StorageAssumption
<1>4. MetaSize \in Nat /\ StorageLimit \in Nat
  BY StorageAssumption
<1>5. Share \in Nat
  BY <1>3, <1>4 DEF Share
<1>6. Others \in Nat
  <2>1. \A n \in Nat \ {0}, k \in Nat : (n - 1) * k \in Nat
    OBVIOUS
  <2>2. QED
    BY <1>2, <1>5, <2>1 DEF Others
<1>7. QED
  BY <1>1, <1>2, <1>3, <1>4, <1>5, <1>6

LEMMA LengthsAreNat ==
  ASSUME TypeOK, NEW f \in Files
  PROVE  FileSize(f) \in Nat
<1>1. f[1] \in Names
  BY DEF Files
<1>2. data[f[1]] \in Seq(Uploads) \cup {NoFile}
  BY <1>1 DEF TypeOK
<1>3. data[f[1]] # NoFile => Len(data[f[1]]) \in Nat
  BY <1>2, LenProperties
<1>4. QED
  BY <1>3, Constants DEF FileSize

LEMMA DuesAreNat ==
  ASSUME BlobInv, NEW rank \in [Threads -> Nat], NEW limit \in Nat, NEW s \in Threads
  PROVE  Due(s, rank, limit) \in Nat /\ Due(s, rank, limit) <= Share
<1>1. CASE thread[s] = NoUpload \/ status[thread[s]] \notin {"admitted", "writing"}
  BY <1>1, Constants DEF Due, Share
<1>2. CASE thread[s] # NoUpload /\ status[thread[s]] \in {"admitted", "writing"}
  <2>1. request[thread[s]].size \in Sizes
    BY <1>2, RunningUpload DEF BlobInv, Running, Phases
  <2>2. QED
    BY <1>2, <2>1, Constants DEF Due, Share
<1>3. QED
  BY <1>1, <1>2

(* The summands are naturals. *)
NumbersOK ==
  /\ \A f \in Files : Lengths[f] = FileSize(f) /\ FileSize(f) \in Nat
  /\ \A rank \in [Threads -> Nat], limit \in Nat : \A s \in Threads :
       /\ Dues(rank, limit)[s] = Due(s, rank, limit)
       /\ Due(s, rank, limit) \in Nat /\ Due(s, rank, limit) <= Share

LEMMA Numbers == BlobInv => NumbersOK
<1> SUFFICES ASSUME BlobInv PROVE NumbersOK
  OBVIOUS
<1>1. \A f \in Files : Lengths[f] = FileSize(f) /\ FileSize(f) \in Nat
  BY LengthsAreNat DEF BlobInv, Lengths
<1>2. ASSUME NEW rank \in [Threads -> Nat], NEW limit \in Nat, NEW s \in Threads
      PROVE  /\ Dues(rank, limit)[s] = Due(s, rank, limit)
             /\ Due(s, rank, limit) \in Nat /\ Due(s, rank, limit) <= Share
  BY DuesAreNat DEF Dues
<1>3. QED
  BY <1>1, <1>2 DEF NumbersOK

LEMMA SumsAreNat ==
  ASSUME NumbersOK, NEW rank \in [Threads -> Nat], NEW limit \in Nat,
         NEW F \in SUBSET Files, NEW S \in SUBSET Threads
  PROVE  /\ SumOf(Lengths, F) \in Nat /\ SumOf(Dues(rank, limit), S) \in Nat
         /\ IsFiniteSet(F) /\ IsFiniteSet(S)
<1>1. IsFiniteSet(F) /\ IsFiniteSet(S)
  BY Constants, FS_Subset
<1>2. \A f \in F : Lengths[f] \in Nat
  BY DEF NumbersOK
<1>3. \A s \in S : Dues(rank, limit)[s] \in Nat
  BY DEF NumbersOK
<1>4. QED
  BY <1>1, <1>2, <1>3, SumNat

(* One file and one due change, and what the file gains the due loses. *)
LEMMA SumsShrink ==
  ASSUME NEW f1, NEW f2, NEW d1, NEW d2, NEW F, NEW S, IsFiniteSet(F), IsFiniteSet(S),
         NEW g, NEW t \in S,
         \A f \in F : f1[f] \in Nat /\ f2[f] \in Nat /\ (f # g => f2[f] = f1[f]),
         \A s \in S : d1[s] \in Nat /\ d2[s] \in Nat /\ (s # t => d2[s] = d1[s]),
         d2[t] <= d1[t],
         g \in F => f2[g] + d2[t] <= f1[g] + d1[t]
  PROVE  SumOf(f2, F) + SumOf(d2, S) <= SumOf(f1, F) + SumOf(d1, S)
<1>1. /\ SumOf(f1, F) \in Nat /\ SumOf(f2, F) \in Nat
      /\ SumOf(d1, S) \in Nat /\ SumOf(d2, S) \in Nat
  BY SumNat
<1>2. SumOf(d2, S) = SumOf(d1, S) + d2[t] - d1[t]
  BY SumChange
<1>3. CASE g \in F
  <2>1. SumOf(f2, F) = SumOf(f1, F) + f2[g] - f1[g]
    BY <1>3, SumChange
  <2>2. f1[g] \in Nat /\ f2[g] \in Nat /\ d1[t] \in Nat /\ d2[t] \in Nat
    BY <1>3
  <2>3. QED
    BY <1>1, <1>2, <1>3, <2>1, <2>2
<1>4. CASE g \notin F
  <2>1. SumOf(f2, F) = SumOf(f1, F)
    BY <1>4, SumSame
  <2>2. d1[t] \in Nat /\ d2[t] \in Nat
    OBVIOUS
  <2>3. QED
    BY <1>1, <1>2, <2>1, <2>2
<1>5. QED
  BY <1>3, <1>4

(* A step of a thread that is past the check keeps the gap. *)
LEMMA GapShrinks ==
  ASSUME TypeOK, NumbersOK, NumbersOK', NEW rank \in [Threads -> Nat], NEW limit \in Nat,
         Gap(rank, limit),
         NEW t \in Threads, NEW g, ~Running(t, "measuring"),
         UNCHANGED <<unread, current>>,
         \A f \in Files : f # g => FileSize(f)' = FileSize(f),
         \A s \in Threads : Running(s, "measuring")' => Running(s, "measuring"),
         \A m \in Nat :
           /\ \A s \in Threads : s # t => Due(s, rank, m)' = Due(s, rank, m)
           /\ Due(t, rank, m)' <= Due(t, rank, m)
           /\ g \in Files => FileSize(g)' + Due(t, rank, m)' <= FileSize(g) + Due(t, rank, m)
  PROVE  Gap(rank, limit)'
<1>1. ASSUME NEW F \in SUBSET Files, NEW S \in SUBSET Threads, t \in S, NEW m \in Nat
      PROVE  /\ SumOf(Lengths', F) + SumOf(Dues(rank, m)', S)
                  <= SumOf(Lengths, F) + SumOf(Dues(rank, m), S)
             /\ SumOf(Lengths', F) \in Int /\ SumOf(Dues(rank, m)', S) \in Int
             /\ SumOf(Lengths, F) \in Int /\ SumOf(Dues(rank, m), S) \in Int
  <2>1. IsFiniteSet(F) /\ IsFiniteSet(S)
    BY Constants, FS_Subset
  <2>2. \A f \in F : /\ Lengths[f] \in Nat /\ Lengths'[f] \in Nat
                     /\ f # g => Lengths'[f] = Lengths[f]
    BY DEF NumbersOK
  <2>3. \A s \in S : /\ Dues(rank, m)[s] \in Nat /\ Dues(rank, m)'[s] \in Nat
                     /\ s # t => Dues(rank, m)'[s] = Dues(rank, m)[s]
    BY DEF NumbersOK
  <2>4. /\ Dues(rank, m)'[t] <= Dues(rank, m)[t]
        /\ g \in F => Lengths'[g] + Dues(rank, m)'[t] <= Lengths[g] + Dues(rank, m)[t]
    BY DEF NumbersOK
  <2>5. SumOf(Lengths', F) + SumOf(Dues(rank, m)', S)
          <= SumOf(Lengths, F) + SumOf(Dues(rank, m), S)
    BY <1>1, <2>1, <2>2, <2>3, <2>4, SumsShrink
  <2>6. /\ SumOf(Lengths', F) \in Int /\ SumOf(Dues(rank, m)', S) \in Int
        /\ SumOf(Lengths, F) \in Int /\ SumOf(Dues(rank, m), S) \in Int
    BY <2>1, <2>2, <2>3, SumInt
  <2>7. QED
    BY <2>5, <2>6
<1>2. SumOf(Lengths', Files) + SumOf(Dues(rank, limit)', Threads)
        <= StorageLimit + Others + MetaSize
  <2>1. SumOf(Lengths, Files) + SumOf(Dues(rank, limit), Threads)
          <= StorageLimit + Others + MetaSize
    BY DEF Gap
  <2>2. QED
    BY <1>1, <2>1, Constants
<1>3. ASSUME NEW s \in Threads, Running(s, "measuring")', rank[s] >= limit
      PROVE  SumOf(Lengths', Files \ unread'[s]) + SumOf(Dues(rank, rank[s])', Threads \ {s})
               <= current'[s] + Others
  <2>1. Running(s, "measuring") /\ s # t
    BY <1>3
  <2>2. SumOf(Lengths, Files \ unread[s]) + SumOf(Dues(rank, rank[s]), Threads \ {s})
          <= current[s] + Others
    BY <1>3, <2>1 DEF Gap
  <2> DEFINE F == Files \ unread[s]
             S == Threads \ {s}
  <2>3. F \in SUBSET Files /\ S \in SUBSET Threads /\ t \in S /\ rank[s] \in Nat
    BY <2>1
  <2> HIDE DEF F, S
  <2>4. /\ SumOf(Lengths', F) + SumOf(Dues(rank, rank[s])', S)
             <= SumOf(Lengths, F) + SumOf(Dues(rank, rank[s]), S)
        /\ SumOf(Lengths', F) \in Int /\ SumOf(Dues(rank, rank[s])', S) \in Int
        /\ SumOf(Lengths, F) \in Int /\ SumOf(Dues(rank, rank[s]), S) \in Int
    BY <1>1, <2>3
  <2>5. current'[s] = current[s] /\ unread'[s] = unread[s]
    OBVIOUS
  <2>6. current[s] \in Nat
    BY DEF TypeOK
  <2>7. SumOf(Lengths', F) + SumOf(Dues(rank, rank[s])', S) <= current[s] + Others
    BY <2>2, <2>4, <2>6, Constants DEF F, S
  <2>8. QED
    BY <2>5, <2>7 DEF F, S
<1>4. \A s1, s2 \in Threads :
        Running(s1, "measuring")' /\ Running(s2, "measuring")' /\ rank[s1] = rank[s2] => s1 = s2
  BY DEF Gap
<1>5. QED
  BY <1>2, <1>3, <1>4 DEF Gap

(* So does a step that writes no file and lets no due grow. *)
LEMMA GapDrops ==
  ASSUME TypeOK, NumbersOK, NumbersOK', NEW rank \in [Threads -> Nat], NEW limit \in Nat,
         Gap(rank, limit),
         \A f \in Files : FileSize(f)' = FileSize(f),
         \A s \in Threads : Running(s, "measuring")' =>
           Running(s, "measuring") /\ unread'[s] = unread[s] /\ current'[s] = current[s],
         \A m \in Nat : \A s \in Threads : Due(s, rank, m)' <= Due(s, rank, m)
  PROVE  Gap(rank, limit)'
<1>1. ASSUME NEW F \in SUBSET Files, NEW S \in SUBSET Threads, NEW m \in Nat
      PROVE  /\ SumOf(Lengths', F) = SumOf(Lengths, F)
             /\ SumOf(Dues(rank, m)', S) <= SumOf(Dues(rank, m), S)
             /\ SumOf(Lengths, F) \in Int
             /\ SumOf(Dues(rank, m)', S) \in Int /\ SumOf(Dues(rank, m), S) \in Int
  <2>1. IsFiniteSet(F) /\ IsFiniteSet(S)
    BY Constants, FS_Subset
  <2>2. \A f \in F : Lengths[f] \in Nat /\ Lengths'[f] = Lengths[f]
    BY DEF NumbersOK
  <2>3. \A s \in S : /\ Dues(rank, m)[s] \in Nat /\ Dues(rank, m)'[s] \in Nat
                     /\ Dues(rank, m)'[s] <= Dues(rank, m)[s]
    BY DEF NumbersOK
  <2>4. SumOf(Lengths', F) = SumOf(Lengths, F)
    BY <2>1, <2>2, SumSame
  <2>5. SumOf(Dues(rank, m)', S) <= SumOf(Dues(rank, m), S)
    BY <2>1, <2>3, SumMono
  <2>6. /\ SumOf(Lengths, F) \in Int
        /\ SumOf(Dues(rank, m)', S) \in Int /\ SumOf(Dues(rank, m), S) \in Int
    BY <2>1, <2>2, <2>3, SumInt
  <2>7. QED
    BY <2>4, <2>5, <2>6
<1>2. SumOf(Lengths', Files) + SumOf(Dues(rank, limit)', Threads)
        <= StorageLimit + Others + MetaSize
  <2>1. SumOf(Lengths, Files) + SumOf(Dues(rank, limit), Threads)
          <= StorageLimit + Others + MetaSize
    BY DEF Gap
  <2>2. QED
    BY <1>1, <2>1, Constants
<1>3. ASSUME NEW s \in Threads, Running(s, "measuring")', rank[s] >= limit
      PROVE  SumOf(Lengths', Files \ unread'[s]) + SumOf(Dues(rank, rank[s])', Threads \ {s})
               <= current'[s] + Others
  <2>1. SumOf(Lengths, Files \ unread[s]) + SumOf(Dues(rank, rank[s]), Threads \ {s})
          <= current[s] + Others
    BY <1>3 DEF Gap
  <2>2. current[s] \in Nat /\ rank[s] \in Nat
    BY DEF TypeOK
  <2> DEFINE F == Files \ unread[s]
             S == Threads \ {s}
  <2>3. F \in SUBSET Files /\ S \in SUBSET Threads
    OBVIOUS
  <2> HIDE DEF F, S
  <2>4. SumOf(Lengths', F) + SumOf(Dues(rank, rank[s])', S) <= current[s] + Others
    BY <1>1, <2>1, <2>2, <2>3, Constants DEF F, S
  <2>5. QED
    BY <1>3, <2>4 DEF F, S
<1>4. \A s1, s2 \in Threads :
        Running(s1, "measuring")' /\ Running(s2, "measuring")' /\ rank[s1] = rank[s2] => s1 = s2
  BY DEF Gap
<1>5. QED
  BY <1>2, <1>3, <1>4 DEF Gap

(* At first there are no files, and nobody writes. *)
LEMMA InitGap == Init => GapInv
<1> SUFFICES ASSUME Init PROVE GapInv
  OBVIOUS
<1> DEFINE rank == [s \in Threads |-> 0]
<1>1. \A s \in Threads : ~Running(s, "measuring") /\ Dues(rank, 0)[s] = 0
  BY DEF Init, Running, Dues, Due
<1>2. \A f \in Files : Lengths[f] = 0
  BY DEF Init, Lengths, FileSize, Files
<1>3. SumOf(Lengths, Files) = 0 /\ SumOf(Dues(rank, 0), Threads) = 0
  BY <1>1, <1>2, Constants, SumZero
<1>4. rank \in [Threads -> Nat] /\ 0 \in Nat
  OBVIOUS
<1> HIDE DEF rank
<1>5. Gap(rank, 0)
  BY <1>1, <1>3, Constants DEF Gap
<1>6. QED
  BY <1>4, <1>5 DEF GapInv

(* Who begins is ranked above everybody; what it will measure leaves out   *)
(* at most a share for every other thread.                                 *)
LEMMA BeginGap ==
  ASSUME BlobInv, NumbersOK, NumbersOK', GapInv,
         NEW t \in Threads, NEW u \in Uploads, NEW name \in Names, NEW size \in Sizes,
         BeginPut(t, u, name, size)
  PROVE  GapInv'
<1> USE DEF BlobInv
<1>1. PICK rank \in [Threads -> Nat], limit \in Nat : Gap(rank, limit)
  BY DEF GapInv
<1> DEFINE top == limit + SumOf(rank, Threads) + 1
           ranks == [rank EXCEPT ![t] = top]
<1>2. top \in Nat /\ limit < top /\ \A s \in Threads : rank[s] < top
  <2>1. \A s \in Threads : rank[s] \in Nat
    OBVIOUS
  <2>2. SumOf(rank, Threads) \in Nat /\ \A s \in Threads : rank[s] <= SumOf(rank, Threads)
    BY <2>1, Constants, SumNat
  <2>3. QED
    BY <2>1, <2>2
<1> HIDE DEF top
<1>3. /\ ranks \in [Threads -> Nat] /\ ranks[t] = top
      /\ \A s \in Threads : s # t => ranks[s] = rank[s]
  BY <1>2
<1> HIDE DEF ranks
<1>4. /\ thread[t] = NoUpload /\ thread'[t] = u /\ status'[u] = "measuring"
      /\ \A s \in Threads : s # t => /\ thread'[s] = thread[s]
                                     /\ unread'[s] = unread[s] /\ current'[s] = current[s]
      /\ unread'[t] = Files /\ current'[t] = 0
      /\ UNCHANGED <<data, meta>>
  BY DEF BeginPut, TypeOK
<1>5. \A s \in Threads : s # t /\ thread[s] # NoUpload =>
        /\ status'[thread[s]] = status[thread[s]] /\ request'[thread[s]] = request[thread[s]]
  <2>1. \A s \in Threads : thread[s] # u
    BY StorageAssumption DEF BeginPut, ThreadsWork, Writing
  <2>2. QED
    BY <2>1 DEF BeginPut, TypeOK
<1>6. ASSUME NEW m \in Nat, m <= top
      PROVE  \A s \in Threads : Dues(ranks, m)'[s] <= Dues(rank, m)[s]
  <2>1. Due(t, ranks, m)' = 0
    BY <1>2, <1>3, <1>4, <1>6 DEF Due
  <2>2. ASSUME NEW s \in Threads, s # t
        PROVE  Due(s, ranks, m)' = Due(s, rank, m)
    BY <1>3, <1>4, <1>5, <2>2 DEF Due
  <2>3. /\ \A s \in Threads : Dues(rank, m)[s] = Due(s, rank, m) /\ Due(s, rank, m) \in Nat
    BY DEF NumbersOK
  <2>4. \A s \in Threads : Dues(ranks, m)'[s] = Due(s, ranks, m)'
    BY <1>3 DEF NumbersOK
  <2>5. ASSUME NEW s \in Threads
        PROVE  Dues(ranks, m)'[s] <= Dues(rank, m)[s]
    <3>1. CASE s = t
      BY <3>1, <2>1, <2>3, <2>4
    <3>2. CASE s # t
      <4>1. Due(s, ranks, m)' = Due(s, rank, m)
        BY <2>2, <3>2
      <4>2. QED
        BY <4>1, <2>3, <2>4
    <3>3. QED
      BY <3>1, <3>2
  <2>6. QED
    BY <2>5
<1>7. \A f \in Files : Lengths'[f] = Lengths[f]
  BY <1>4 DEF Lengths, FileSize
<1>8. ASSUME NEW F \in SUBSET Files, NEW S \in SUBSET Threads, NEW m \in Nat, m <= top
      PROVE  /\ SumOf(Lengths', F) = SumOf(Lengths, F)
             /\ SumOf(Dues(ranks, m)', S) <= SumOf(Dues(rank, m), S)
             /\ SumOf(Lengths, F) \in Int
             /\ SumOf(Dues(ranks, m)', S) \in Int /\ SumOf(Dues(rank, m), S) \in Int
  <2>1. IsFiniteSet(F) /\ IsFiniteSet(S)
    BY Constants, FS_Subset
  <2>2. \A s \in S : /\ Dues(rank, m)[s] \in Nat /\ Dues(ranks, m)'[s] \in Nat
                     /\ Dues(ranks, m)'[s] <= Dues(rank, m)[s]
    BY <1>3, <1>6, <1>8 DEF NumbersOK
  <2>3. \A f \in F : Lengths[f] \in Int /\ Lengths'[f] = Lengths[f]
    BY <1>7 DEF NumbersOK
  <2>4. SumOf(Lengths', F) = SumOf(Lengths, F) /\ SumOf(Lengths, F) \in Int
    BY <2>1, <2>3, SumSame, SumInt
  <2>5. SumOf(Dues(ranks, m)', S) <= SumOf(Dues(rank, m), S)
    BY <2>1, <2>2, SumMono
  <2>6. SumOf(Dues(ranks, m)', S) \in Int /\ SumOf(Dues(rank, m), S) \in Int
    BY <2>1, <2>2, SumInt
  <2>7. QED
    BY <2>4, <2>5, <2>6
<1>9. SumOf(Lengths', Files) + SumOf(Dues(ranks, limit)', Threads)
        <= StorageLimit + Others + MetaSize
  <2>1. SumOf(Lengths, Files) + SumOf(Dues(rank, limit), Threads)
          <= StorageLimit + Others + MetaSize
    BY <1>1 DEF Gap
  <2>2. limit <= top
    BY <1>2
  <2>3. QED
    BY <1>8, <2>1, <2>2, Constants
<1>10. ASSUME NEW s \in Threads, s # t, Running(s, "measuring")', ranks[s] >= limit
       PROVE  SumOf(Lengths', Files \ unread'[s]) + SumOf(Dues(ranks, ranks[s])', Threads \ {s})
                <= current'[s] + Others
  <2>1. Running(s, "measuring") /\ ranks[s] = rank[s]
    BY <1>3, <1>4, <1>5, <1>10 DEF Running
  <2>2. SumOf(Lengths, Files \ unread[s]) + SumOf(Dues(rank, rank[s]), Threads \ {s})
          <= current[s] + Others
    BY <1>1, <1>10, <2>1 DEF Gap
  <2>3. current[s] \in Nat /\ rank[s] \in Nat /\ rank[s] <= top
    BY <1>2 DEF TypeOK
  <2> DEFINE F == Files \ unread[s]
             S == Threads \ {s}
  <2>4. F \in SUBSET Files /\ S \in SUBSET Threads
    OBVIOUS
  <2> HIDE DEF F, S
  <2>5. SumOf(Lengths', F) + SumOf(Dues(ranks, rank[s])', S) <= current[s] + Others
    BY <1>8, <2>2, <2>3, <2>4, Constants DEF F, S
  <2>6. QED
    BY <1>4, <1>10, <2>1, <2>5 DEF F, S
<1>11. SumOf(Lengths', Files \ unread'[t]) + SumOf(Dues(ranks, ranks[t])', Threads \ {t})
         <= current'[t] + Others
  <2> DEFINE S == Threads \ {t}
  <2>1. Files \ unread'[t] = {}
    BY <1>4
  <2>2. SumOf(Lengths', Files \ unread'[t]) = 0
    BY <2>1, SumEmpty
  <2>3. IsFiniteSet(S) /\ Cardinality(S) = Cardinality(Threads) - 1
    BY Constants, FS_RemoveElement
  <2>4. \A s \in S : Dues(ranks, top)'[s] \in Int /\ Dues(ranks, top)'[s] <= Share
    BY <1>2, <1>3 DEF NumbersOK
  <2>5. SumOf(Dues(ranks, top)', S) <= Others /\ SumOf(Dues(ranks, top)', S) \in Int
    BY <2>3, <2>4, Constants, SumAtMost, SumInt DEF Others
  <2>6. QED
    BY <1>3, <1>4, <2>2, <2>5, Constants
<1>12. ASSUME NEW s1 \in Threads, NEW s2 \in Threads, Running(s1, "measuring")',
              Running(s2, "measuring")', ranks[s1] = ranks[s2]
       PROVE  s1 = s2
  <2>1. \A s \in Threads : s # t /\ Running(s, "measuring")' => Running(s, "measuring")
    BY <1>4, <1>5 DEF Running
  <2>2. \A s \in Threads : s # t => ranks[s] # ranks[t]
    BY <1>2, <1>3
  <2>3. QED
    BY <1>1, <1>3, <1>12, <2>1, <2>2 DEF Gap
<1>13. Gap(ranks, limit)'
  BY <1>9, <1>10, <1>11, <1>12 DEF Gap
<1>14. QED
  BY <1>3, <1>13 DEF GapInv

(* Who measures a file knows its length from then on. *)
LEMMA MeasureGap ==
  ASSUME BlobInv, NumbersOK, NumbersOK', GapInv, NEW t \in Threads, NEW f \in Files,
         MeasureFile(t, f)
  PROVE  GapInv'
<1> USE DEF BlobInv
<1>1. PICK rank \in [Threads -> Nat], limit \in Nat : Gap(rank, limit)
  BY DEF GapInv
<1>2. /\ UNCHANGED <<data, meta, status, request, thread>>
      /\ Running(t, "measuring") /\ f \in unread[t]
      /\ unread'[t] = unread[t] \ {f} /\ current'[t] = current[t] + FileSize(f)
      /\ \A s \in Threads : s # t => unread'[s] = unread[s] /\ current'[s] = current[s]
  BY DEF MeasureFile, TypeOK
<1>3. Lengths' = Lengths /\ \A m : Dues(rank, m)' = Dues(rank, m)
  BY <1>2 DEF Lengths, FileSize, Dues, Due
<1>4. \A s \in Threads : Running(s, "measuring")' <=> Running(s, "measuring")
  BY <1>2 DEF Running
<1>5. ASSUME NEW s \in Threads, Running(s, "measuring"), rank[s] >= limit
      PROVE  SumOf(Lengths, Files \ unread'[s]) + SumOf(Dues(rank, rank[s]), Threads \ {s})
               <= current'[s] + Others
  <2>1. SumOf(Lengths, Files \ unread[s]) + SumOf(Dues(rank, rank[s]), Threads \ {s})
          <= current[s] + Others
    BY <1>1, <1>5 DEF Gap
  <2>2. CASE s # t
    BY <1>2, <2>1, <2>2
  <2>3. CASE s = t
    <3> DEFINE F == Files \ unread[t]
    <3>1. Files \ unread'[t] = F \cup {f} /\ f \notin F /\ F \in SUBSET Files
      BY <1>2
    <3> HIDE DEF F
    <3>2. \A g \in F \cup {f} : Lengths[g] \in Int
      BY <3>1 DEF NumbersOK
    <3>3. IsFiniteSet(F)
      BY <3>1, Constants, FS_Subset
    <3>4. SumOf(Lengths, F \cup {f}) = Lengths[f] + SumOf(Lengths, F)
      BY <3>1, <3>2, <3>3, SumJoin
    <3>5. Lengths[f] = FileSize(f) /\ FileSize(f) \in Nat
      BY DEF NumbersOK
    <3>6. rank[t] \in Nat /\ Threads \ {t} \in SUBSET Threads
      OBVIOUS
    <3>7. SumOf(Lengths, F) \in Nat /\ SumOf(Dues(rank, rank[t]), Threads \ {t}) \in Nat
      BY <3>1, <3>6, SumsAreNat
    <3>8. SumOf(Lengths, F) + SumOf(Dues(rank, rank[t]), Threads \ {t}) <= current[t] + Others
      BY <2>1, <2>3 DEF F
    <3>9. current[t] \in Nat
      BY DEF TypeOK
    <3>10. SumOf(Lengths, F \cup {f}) + SumOf(Dues(rank, rank[t]), Threads \ {t})
             <= current[t] + FileSize(f) + Others
      BY <3>4, <3>5, <3>7, <3>8, <3>9, Constants
    <3>11. QED
      BY <1>2, <2>3, <3>1, <3>10
  <2>4. QED
    BY <2>2, <2>3
<1>6. Gap(rank, limit)'
  BY <1>1, <1>3, <1>4, <1>5 DEF Gap
<1>7. QED
  BY <1>6 DEF GapInv

(* Who passes becomes the last of those that passed, or had been given a   *)
(* share already.                                                          *)
LEMMA PassGap ==
  ASSUME BlobInv, NumbersOK, NumbersOK', GapInv, NEW t \in Threads,
         Running(t, "measuring"), unread[t] = {}, Fits(t),
         status' = [status EXCEPT ![thread[t]] = "admitted"],
         current' = [current EXCEPT ![t] = 0],
         UNCHANGED <<data, meta, request, thread, unread>>
  PROVE  GapInv'
<1> USE DEF BlobInv
<1>1. PICK rank \in [Threads -> Nat], limit \in Nat : Gap(rank, limit)
  BY DEF GapInv
<1> DEFINE size == request[thread[t]].size
<1>2. thread[t] \in Uploads /\ thread[t] # NoUpload /\ size \in Nat /\ size <= Max(Sizes)
  BY RunningUpload, Constants DEF Phases, Running
<1>3. /\ status'[thread[t]] = "admitted"
      /\ \A s \in Threads : s # t /\ thread[s] # NoUpload =>
           thread[s] # thread[t] /\ status'[thread[s]] = status[thread[s]]
      /\ \A s \in Threads : s # t => current'[s] = current[s]
  BY <1>2 DEF TypeOK, ThreadsWork
<1>4. ~Running(t, "measuring")'
      /\ \A s \in Threads : s # t => (Running(s, "measuring")' <=> Running(s, "measuring"))
  BY <1>3 DEF Running
<1> HIDE DEF size
<1>5. \A m \in Nat : Due(t, rank, m)' = size + MetaSize
                     /\ \A s \in Threads : s # t => Due(s, rank, m)' = Due(s, rank, m)
  BY <1>2, <1>3 DEF Due, size
<1>6. \A m \in Nat : rank[t] < m => Due(t, rank, m) = Share
  BY <1>2 DEF Due, Running
<1>7. Lengths' = Lengths
  BY DEF Lengths, FileSize
<1>8. \A m \in Nat : \A s \in Threads :
        /\ Dues(rank, m)[s] = Due(s, rank, m) /\ Due(s, rank, m) \in Nat
        /\ Dues(rank, m)'[s] = Due(s, rank, m)' /\ Due(s, rank, m)' \in Nat
  BY DEF NumbersOK
<1>9. ASSUME NEW S \in SUBSET Threads, NEW m \in Nat, rank[t] < m
      PROVE  SumOf(Dues(rank, m)', S) <= SumOf(Dues(rank, m), S)
  <2>1. \A s \in S : Dues(rank, m)'[s] <= Dues(rank, m)[s]
    <3>1. size + MetaSize <= Share
      BY <1>2, Constants DEF Share
    <3>2. QED
      BY <1>5, <1>6, <1>8, <1>9, <3>1
  <2>2. IsFiniteSet(S)
    BY Constants, FS_Subset
  <2>3. \A s \in Threads : Dues(rank, m)[s] \in Int /\ Dues(rank, m)'[s] \in Int
    <3>1. \A s \in Threads : Due(s, rank, m) \in Int /\ Due(s, rank, m)' \in Int
      BY <1>8
    <3>2. QED
      BY <1>8, <3>1
  <2>4. QED
    BY <2>1, <2>2, <2>3, SumMono
<1>10. ASSUME NEW s \in Threads, Running(s, "measuring")', rank[s] >= limit, rank[s] > rank[t]
       PROVE  SumOf(Lengths', Files \ unread'[s]) + SumOf(Dues(rank, rank[s])', Threads \ {s})
                <= current'[s] + Others
  <2>1. Running(s, "measuring") /\ s # t /\ current'[s] = current[s] /\ unread'[s] = unread[s]
    BY <1>3, <1>4, <1>10
  <2>2. SumOf(Lengths, Files \ unread[s]) + SumOf(Dues(rank, rank[s]), Threads \ {s})
          <= current[s] + Others
    BY <1>1, <1>10, <2>1 DEF Gap
  <2> DEFINE F == Files \ unread[s]
             S == Threads \ {s}
  <2>3. F \in SUBSET Files /\ S \in SUBSET Threads /\ rank[s] \in Nat /\ current[s] \in Nat
    BY DEF TypeOK
  <2> HIDE DEF F, S
  <2>4. SumOf(Dues(rank, rank[s])', S) <= SumOf(Dues(rank, rank[s]), S)
    BY <1>9, <1>10, <2>3
  <2>5. /\ SumOf(Lengths, F) \in Nat /\ SumOf(Dues(rank, rank[s]), S) \in Nat
        /\ SumOf(Dues(rank, rank[s])', S) \in Nat
    <3>1. IsFiniteSet(S) /\ \A x \in S : Dues(rank, rank[s])'[x] \in Nat
      BY <1>8, <2>3, Constants, FS_Subset
    <3>2. QED
      BY <2>3, <3>1, SumsAreNat, SumNat
  <2>6. SumOf(Lengths, F) + SumOf(Dues(rank, rank[s])', S) <= current[s] + Others
    BY <2>2, <2>3, <2>4, <2>5, Constants DEF F, S
  <2>7. QED
    BY <1>7, <2>1, <2>6 DEF F, S
<1>11. \A s1, s2 \in Threads :
         Running(s1, "measuring")' /\ Running(s2, "measuring")' /\ rank[s1] = rank[s2] => s1 = s2
  BY <1>1, <1>4 DEF Gap
<1>12. rank[t] \in Nat /\ \A s \in Threads : rank[s] \in Nat
  OBVIOUS
<1>13. CASE rank[t] < limit
  <2>1. SumOf(Lengths, Files) + SumOf(Dues(rank, limit), Threads)
          <= StorageLimit + Others + MetaSize
    BY <1>1 DEF Gap
  <2>2. SumOf(Dues(rank, limit)', Threads) <= SumOf(Dues(rank, limit), Threads)
    BY <1>9, <1>13
  <2>3. SumOf(Lengths, Files) \in Nat /\ SumOf(Dues(rank, limit), Threads) \in Nat
    BY SumsAreNat
  <2>4. SumOf(Dues(rank, limit)', Threads) \in Nat
    BY <1>8, Constants, SumNat
  <2>5. SumOf(Lengths', Files) + SumOf(Dues(rank, limit)', Threads)
          <= StorageLimit + Others + MetaSize
    BY <1>7, <2>1, <2>2, <2>3, <2>4, Constants
  <2>6. \A s \in Threads : rank[s] >= limit => rank[s] > rank[t]
    BY <1>12, <1>13
  <2>7. Gap(rank, limit)'
    BY <1>10, <1>11, <2>5, <2>6 DEF Gap
  <2>8. QED
    BY <2>7 DEF GapInv
<1>14. CASE rank[t] >= limit
  <2> DEFINE m == rank[t]
             S == Threads \ {t}
  <2>1. SumOf(Lengths, Files) + SumOf(Dues(rank, m), S) <= current[t] + Others
    <3>1. Files \ unread[t] = Files
      OBVIOUS
    <3>2. SumOf(Lengths, Files \ unread[t]) + SumOf(Dues(rank, rank[t]), Threads \ {t})
            <= current[t] + Others
      BY <1>1, <1>14 DEF Gap
    <3>3. QED
      BY <3>1, <3>2
  <2>2. current[t] + size <= StorageLimit /\ current[t] \in Nat
    BY DEF Fits, size, TypeOK
  <2>3. IsFiniteSet(S) /\ S \in SUBSET Threads /\ m \in Nat
    BY Constants, FS_Subset
  <2>4. SumOf(Dues(rank, m)', Threads) = Dues(rank, m)'[t] + SumOf(Dues(rank, m)', S)
    <3>1. \A s \in Threads : Dues(rank, m)'[s] \in Int
      <4>1. \A s \in Threads : Due(s, rank, m)' \in Int
        BY <1>8, <2>3
      <4>2. QED
        BY <1>8, <2>3, <4>1
    <3> DEFINE D == Dues(rank, m)'
    <3>2. (\A s \in Threads : D[s] \in Int) /\ IsFiniteSet(Threads)
      BY <3>1, Constants
    <3> HIDE DEF D
    <3>3. SumOf(D, Threads) = D[t] + SumOf(D, S)
      BY <3>2, SumRemove
    <3>4. QED
      BY <3>3 DEF D
  <2> HIDE DEF m
  <2>5. SumOf(Dues(rank, m)', S) = SumOf(Dues(rank, m), S)
    <3>1. \A s \in S : Dues(rank, m)'[s] = Dues(rank, m)[s]
      BY <1>5, <1>8, <2>3
    <3> HIDE DEF S
    <3>2. QED
      BY <2>3, <3>1, SumSame
  <2>6. Dues(rank, m)'[t] = size + MetaSize
    BY <1>5, <1>8, <2>3
  <2> HIDE DEF S
  <2>7. SumOf(Lengths, Files) \in Nat /\ SumOf(Dues(rank, m), S) \in Nat
    BY <2>3, SumsAreNat
  <2>8. SumOf(Lengths', Files) + SumOf(Dues(rank, m)', Threads)
          <= StorageLimit + Others + MetaSize
    BY <1>2, <1>7, <2>1, <2>2, <2>4, <2>5, <2>6, <2>7, Constants
  <2>9. \A s \in Threads : Running(s, "measuring")' /\ rank[s] >= m =>
          rank[s] >= limit /\ rank[s] > rank[t]
    <3>1. \A s \in Threads : Running(s, "measuring")' => rank[s] # rank[t]
      BY <1>1, <1>4 DEF Gap
    <3>2. QED
      BY <1>12, <1>14, <3>1 DEF m
  <2>10. Gap(rank, m)'
    BY <1>10, <1>11, <2>8, <2>9 DEF Gap
  <2>11. QED
    BY <2>3, <2>10 DEF GapInv
<1>15. QED
  BY <1>12, <1>13, <1>14

(* A thread that is past the check takes the next step of its put, and the *)
(* file it asked for, if that grows, grows by no more than what was due.   *)
LEMMA WriteGap ==
  ASSUME BlobInv, NumbersOK, NumbersOK', GapInv, NEW t \in Threads,
         OpenData(t) \/ WriteData(t) \/ OpenMeta(t) \/ WriteMeta(t)
  PROVE  GapInv'
<1> USE DEF BlobInv
<1>1. PICK rank \in [Threads -> Nat], limit \in Nat : Gap(rank, limit)
  BY DEF GapInv
<1>2. PICK phase \in Writing : Running(t, phase)
  BY DEF OpenData, WriteData, OpenMeta, WriteMeta, Writing
<1>3. PICK u \in Uploads, name \in Names, size \in Nat :
        /\ thread[t] = u /\ request[u].name = name /\ request[u].size = size
        /\ u # NoUpload /\ status[u] = phase /\ phase # "measuring"
        /\ ~Running(t, "measuring")
  BY <1>2, RunningUpload DEF Phases, Running, Writing
<1>4. UNCHANGED <<request, unread, current>>
  BY DEF OpenData, WriteData, OpenMeta, WriteMeta, walkVars
<1>5. PICK next \in Phases \ {"measuring"} :
        /\ status' = [status EXCEPT ![u] = next]
        /\ phase = "admitted" => next = "writing"
        /\ phase = "writing" => next = "written"
        /\ phase = "written" => next = "describing"
        /\ phase = "describing" => next = "stored" /\ thread' = [thread EXCEPT ![t] = NoUpload]
        /\ thread' = thread \/ thread' = [thread EXCEPT ![t] = NoUpload]
  BY <1>2, <1>3 DEF OpenData, WriteData, OpenMeta, WriteMeta, Phases, Running
<1>6. /\ status'[u] = next
      /\ \A s \in Threads : s # t => thread'[s] = thread[s]
      /\ \A s \in Threads : s # t /\ thread[s] # NoUpload =>
           status'[thread[s]] = status[thread[s]]
      /\ thread'[t] \in {u, NoUpload} /\ thread[t] = u
  BY <1>3, <1>5 DEF TypeOK, ThreadsWork
<1>7. \A s \in Threads : Running(s, "measuring")' => Running(s, "measuring")
  BY <1>5, <1>6 DEF Running
<1>8. \A m \in Nat : \A s \in Threads : s # t => Due(s, rank, m)' = Due(s, rank, m)
  BY <1>4, <1>6 DEF Due
<1>9. ASSUME NEW m \in Nat
      PROVE  /\ phase \in {"admitted", "writing"} => Due(t, rank, m) = size + MetaSize
             /\ phase \in {"written", "describing"} => Due(t, rank, m) = MetaSize
             /\ phase = "admitted" => Due(t, rank, m)' \in {0, size + MetaSize}
             /\ phase \in {"writing", "written"} => Due(t, rank, m)' \in {0, MetaSize}
             /\ phase = "describing" => Due(t, rank, m)' = 0
  <2>1. /\ phase \in {"admitted", "writing"} => Due(t, rank, m) = size + MetaSize
        /\ phase \in {"written", "describing"} => Due(t, rank, m) = MetaSize
    BY <1>3 DEF Due
  <2>2. thread'[t] = NoUpload => Due(t, rank, m)' = 0
    BY DEF Due
  <2>3. phase = "describing" => thread'[t] = NoUpload
    BY <1>5 DEF TypeOK
  <2>4. ASSUME thread'[t] = u
        PROVE  /\ phase = "admitted" => Due(t, rank, m)' = size + MetaSize
               /\ phase \in {"writing", "written"} => Due(t, rank, m)' = MetaSize
    BY <1>3, <1>4, <1>5, <1>6, <2>4 DEF Due
  <2>5. QED
    BY <1>6, <2>1, <2>2, <2>3, <2>4
<1>10. ASSUME NEW g, \A f \in Files : f # g => FileSize(f)' = FileSize(f),
              \A m \in Nat :
                /\ Due(t, rank, m)' <= Due(t, rank, m)
                /\ g \in Files => FileSize(g)' + Due(t, rank, m)' <= FileSize(g) + Due(t, rank, m)
       PROVE  GapInv'
  <2>1. Gap(rank, limit)'
    BY <1>1, <1>3, <1>4, <1>7, <1>8, <1>10, GapShrinks
  <2>2. QED
    BY <2>1 DEF GapInv
<1>11. \A f \in Files : f = <<f[1], f[2]>> /\ f[1] \in Names /\ f[2] \in {"data", "meta"}
  BY DEF Files
<1> DEFINE d == <<name, "data">>
           e == <<name, "meta">>
<1>12. /\ d \in Files /\ e \in Files /\ d[1] = name /\ d[2] = "data"
       /\ e[1] = name /\ e[2] = "meta"
  BY <1>3 DEF Files
<1>13. FileSize(d) \in Nat /\ FileSize(e) \in Nat /\ MetaSize \in Nat
  BY <1>12, Constants DEF NumbersOK
<1>14. \A f \in Files :
         /\ f # d /\ meta' = meta /\ (\A n \in Names \ {name} : data'[n] = data[n]) =>
              FileSize(f)' = FileSize(f)
         /\ f # e /\ data' = data /\ (\A n \in Names \ {name} : meta'[n] = meta[n]) =>
              FileSize(f)' = FileSize(f)
  BY <1>11 DEF FileSize
<1>15. CASE OpenData(t)
  <2>1. phase = "admitted"
    BY <1>3, <1>15 DEF OpenData, Running
  <2>2. /\ data'[name] = <<>> /\ meta' = meta
        /\ \A n \in Names \ {name} : data'[n] = data[n]
    BY <1>3, <1>15 DEF OpenData, TypeOK
  <2>3. FileSize(d)' = 0
    <3>1. Len(<<>>) = 0
      OBVIOUS
    <3>2. QED
      BY <1>12, <2>2, <3>1 DEF FileSize
  <2> HIDE DEF d
  <2>4. \A f \in Files : f # d => FileSize(f)' = FileSize(f)
    BY <1>14, <2>2
  <2>5. \A m \in Nat :
          /\ Due(t, rank, m)' <= Due(t, rank, m)
          /\ FileSize(d)' + Due(t, rank, m)' <= FileSize(d) + Due(t, rank, m)
    BY <1>3, <1>9, <1>13, <2>1, <2>3
  <2>6. QED
    BY <1>10, <2>4, <2>5
<1>16. CASE WriteData(t)
  <2>1. phase = "writing"
    BY <1>3, <1>16 DEF WriteData, Running
  <2>2. data[name] \in Seq(Uploads)
    BY <1>3, <2>1 DEF OpenedByRequest
  <2>3. /\ data'[name] = Overwrite(data[name], u, size) /\ meta' = meta
        /\ \A n \in Names \ {name} : data'[n] = data[n]
    BY <1>3, <1>16 DEF WriteData, TypeOK
  <2>4. /\ Overwrite(data[name], u, size) \in Seq(Uploads)
        /\ Len(Overwrite(data[name], u, size)) <= Len(data[name]) + size
        /\ Len(Overwrite(data[name], u, size)) \in Nat
    BY <1>3, <2>2, OverwriteType
  <2>5. FileSize(d)' <= FileSize(d) + size /\ FileSize(d)' \in Nat
    <3>1. data[name] # NoFile
      BY <2>2, StorageAssumption
    <3>2. FileSize(d)' \in {0, Len(Overwrite(data[name], u, size))}
      BY <1>12, <2>3 DEF FileSize
    <3>3. FileSize(d) = Len(data[name]) /\ Len(data[name]) \in Nat
      BY <1>12, <2>2, <3>1, LenProperties DEF FileSize
    <3> HIDE DEF d
    <3>4. QED
      BY <1>3, <2>4, <3>2, <3>3
  <2> HIDE DEF d
  <2>6. \A f \in Files : f # d => FileSize(f)' = FileSize(f)
    BY <1>14, <2>3
  <2>7. \A m \in Nat :
          /\ Due(t, rank, m)' <= Due(t, rank, m)
          /\ FileSize(d)' + Due(t, rank, m)' <= FileSize(d) + Due(t, rank, m)
    BY <1>3, <1>9, <1>13, <2>1, <2>5
  <2>8. QED
    BY <1>10, <2>6, <2>7
<1>17. CASE OpenMeta(t)
  <2>1. phase = "written"
    BY <1>3, <1>17 DEF OpenMeta, Running
  <2>2. /\ meta'[name] = Empty /\ data' = data
        /\ \A n \in Names \ {name} : meta'[n] = meta[n]
    BY <1>3, <1>17 DEF OpenMeta, TypeOK
  <2>3. FileSize(e)' = 0
    BY <1>12, <2>2 DEF FileSize
  <2> HIDE DEF e
  <2>4. \A f \in Files : f # e => FileSize(f)' = FileSize(f)
    BY <1>14, <2>2
  <2>5. \A m \in Nat :
          /\ Due(t, rank, m)' <= Due(t, rank, m)
          /\ FileSize(e)' + Due(t, rank, m)' <= FileSize(e) + Due(t, rank, m)
    BY <1>3, <1>9, <1>13, <2>1, <2>3
  <2>6. QED
    BY <1>10, <2>4, <2>5
<1>18. CASE WriteMeta(t)
  <2>1. phase = "describing"
    BY <1>3, <1>18 DEF WriteMeta, Running
  <2>2. /\ data' = data /\ \A n \in Names \ {name} : meta'[n] = meta[n]
    BY <1>3, <1>18 DEF WriteMeta, TypeOK
  <2>3. FileSize(e)' \in {0, MetaSize}
    BY <1>12 DEF FileSize
  <2> HIDE DEF e
  <2>4. \A f \in Files : f # e => FileSize(f)' = FileSize(f)
    BY <1>14, <2>2
  <2>5. \A m \in Nat :
          /\ Due(t, rank, m)' <= Due(t, rank, m)
          /\ FileSize(e)' + Due(t, rank, m)' <= FileSize(e) + Due(t, rank, m)
    BY <1>9, <1>13, <2>1, <2>3
  <2>6. QED
    BY <1>10, <2>4, <2>5
<1>19. QED
  BY <1>15, <1>16, <1>17, <1>18

LEMMA StepGap == BlobInv /\ BlobInv' /\ GapInv /\ [Next]_vars => GapInv'
<1> SUFFICES ASSUME BlobInv, NumbersOK, NumbersOK', GapInv, [Next]_vars PROVE GapInv'
  BY Numbers, PTL
<1> USE DEF BlobInv
<1>1. ASSUME NEW t \in Threads, NEW u \in Uploads, NEW name \in Names, NEW size \in Sizes,
             BeginPut(t, u, name, size)
      PROVE  GapInv'
  BY <1>1, BeginGap
<1>2. ASSUME NEW t \in Threads, NEW f \in Files, MeasureFile(t, f) PROVE GapInv'
  BY <1>2, MeasureGap
<1>3. ASSUME NEW t \in Threads,
             OpenData(t) \/ WriteData(t) \/ OpenMeta(t) \/ WriteMeta(t)
      PROVE  GapInv'
  BY <1>3, WriteGap
<1>4. ASSUME UNCHANGED <<data, meta, request>>,
             \A s \in Threads :
               \/ thread'[s] = NoUpload
               \/ /\ thread'[s] = thread[s] /\ status'[thread[s]] = status[thread[s]]
                  /\ unread'[s] = unread[s] /\ current'[s] = current[s]
      PROVE  GapInv'
  <2>1. PICK rank \in [Threads -> Nat], limit \in Nat : Gap(rank, limit)
    BY DEF GapInv
  <2>2. \A f \in Files : FileSize(f)' = FileSize(f)
    BY <1>4 DEF FileSize
  <2>3. \A s \in Threads : Running(s, "measuring")' =>
          Running(s, "measuring") /\ unread'[s] = unread[s] /\ current'[s] = current[s]
    BY <1>4 DEF Running
  <2>4. ASSUME NEW m \in Nat, NEW s \in Threads
        PROVE  Due(s, rank, m)' <= Due(s, rank, m)
    <3>1. Due(s, rank, m) \in Nat
      BY DEF NumbersOK
    <3>2. CASE thread'[s] = NoUpload
      BY <3>1, <3>2 DEF Due
    <3>3. CASE thread'[s] = thread[s] /\ status'[thread[s]] = status[thread[s]]
      <4>1. Due(s, rank, m)' = Due(s, rank, m)
        BY <1>4, <3>3 DEF Due
      <4>2. QED
        BY <3>1, <4>1
    <3>4. QED
      BY <1>4, <3>2, <3>3
  <2>5. Gap(rank, limit)'
    BY <2>1, <2>2, <2>3, <2>4, GapDrops
  <2>6. QED
    BY <2>5 DEF GapInv
<1>5. ASSUME NEW t \in Threads, CheckLimit(t) PROVE GapInv'
  <2>1. CASE Fits(t)
    BY <1>5, <2>1, PassGap DEF CheckLimit
  <2>2. CASE ~Fits(t)
    BY <1>4, <1>5, <2>2 DEF CheckLimit, Refuse, TypeOK, ThreadsWork
  <2>3. QED
    BY <2>1, <2>2
<1>6. ASSUME NEW t \in Threads, FailCall(t) PROVE GapInv'
  BY <1>4, <1>6 DEF FailCall, Refuse, TypeOK, ThreadsWork
<1>7. ASSUME NEW u \in Uploads, Respond(u) PROVE GapInv'
  BY <1>4, <1>7 DEF Respond, TypeOK, ThreadsWork, walkVars, Writing
<1>8. CASE Restart
  BY <1>4, <1>8 DEF Restart
<1>9. CASE UNCHANGED vars
  BY <1>4, <1>9 DEF vars
<1>10. QED
  BY <1>1, <1>2, <1>3, <1>5, <1>6, <1>7, <1>8, <1>9 DEF Next

LEMMA GapBounds == BlobInv /\ GapInv => OvershootBounded
<1> SUFFICES ASSUME BlobInv, GapInv PROVE OvershootBounded
  OBVIOUS
<1>1. PICK rank \in [Threads -> Nat], limit \in Nat : Gap(rank, limit)
  BY DEF GapInv
<1>2. SumOf(Lengths, Files) \in Nat /\ SumOf(Dues(rank, limit), Threads) \in Nat
  BY Numbers, SumsAreNat
<1>3. SumOf(Lengths, Files) <= StorageLimit + Others + MetaSize
  BY <1>1, <1>2, Constants DEF Gap
<1>4. TotalSize = SumOf(Lengths, Files)
  BY DEF TotalSize, MapThenSumSet, MapThenFoldSet, SumOf, Lengths
<1>5. Others + MetaSize = (Cardinality(Threads) - 1) * Max(Sizes) + Cardinality(Threads) * MetaSize
  <2>1. \A n \in Nat, a \in Nat, b \in Nat : (n - 1) * (a + b) + b = (n - 1) * a + n * b
    OBVIOUS
  <2>2. QED
    BY <2>1, Constants DEF Others, Share
<1>6. QED
  BY <1>2, <1>3, <1>4, <1>5, Constants DEF OvershootBounded

(* However many puts measure and write at once, and whenever they fail or  *)
(* the server restarts, the files exceed the limit by no more than one     *)
(* upload for every other thread and the .meta files (Storage::put).       *)
THEOREM OvershootBoundedCorrect == Spec => []OvershootBounded
<1>1. Init => BlobInv /\ GapInv
  BY InitBlob, InitGap
<1>2. BlobInv /\ GapInv /\ [Next]_vars => (BlobInv /\ GapInv)'
  BY StepBlob, StepGap
<1>3. QED
  BY <1>1, <1>2, GapBounds, PTL DEF Spec
=============================================================================
