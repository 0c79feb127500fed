---------------------------- MODULE LifecycleProofs ----------------------------
(***************************************************************************)
(* What server, page and scripts bring about in the contract, for any      *)
(* number of starts, forms and scripts: operations that are late, lost or  *)
(* executed in another order leave no old addresses that nobody answers    *)
(* for.  All of it is about ScriptsSpec, where every actor takes part.     *)
(***************************************************************************)
EXTENDS OwnerScripts, TLAPS

(* The entry of the provider, as far as the actors depend on it *)
Entry ==
  /\ node \in [Providers -> NodeRecord \cup {NoNode}]
  /\ metadata = [a \in Providers |-> metadata[a]]
  /\ period \in Periods
  /\ node[Self] = NoNode => metadata[Self] = NoMetadata

Tasks == {"off", "waiting", "checking", "comparing", "registering", "updating",
          "published", "skipped", "failed"}

ServerType ==
  /\ running \in BOOLEAN /\ start \in 0 .. MaxStarts /\ task \in Tasks
  /\ disturbed \in BOOLEAN
  /\ running <=> task # "off"
  /\ running => start >= 1

ScriptType ==
  /\ script \in {"none", "register", "setup", "addresses"} /\ mixed \in BOOLEAN
  /\ line \in {"asking", "registered", "publishing", "published", "done"}
  /\ line \in {"asking", "registered"} => script \in {"register", "setup"}
  /\ line \in {"publishing", "published"} => script \in {"setup", "addresses"}

(* Nobody acts for a start that is still to come; and an update or a new   *)
(* allocation is under way only for a provider with a record.              *)
OpsInv ==
  /\ \A op \in pending :
       /\ op.by \in 0 .. ByScript /\ (op.by \in Starts => op.by <= start)
       /\ op.call = "allocate" => op.by = ByScript
       /\ op.call = "allocate" \/ (op.call = "update" /\ op.by \in Starts) => node[Self] # NoNode
  /\ task \in {"comparing", "updating"} => node[Self] # NoNode

(* A start sends its operation at the end of its task.  Until that one is  *)
(* executed nothing is claimed; afterwards the entry stays as it was left. *)
FreshInv ==
  /\ task \notin {"off", "published", "failed"} => \A op \in pending : op.by # start
  /\ task = "published" => \A op \in pending : op.by = start => op.meta = wanted
  /\ FreshUnlessDisturbed

(* The operations of the script that runs, in whatever order: the first of *)
(* its two leaves a record, the second leaves its metadata.                *)
ScriptInv ==
  script # "none" /\ ~mixed =>
    /\ line = "asking" => \A op \in pending : op.by # ByScript
    /\ \A op \in pending : op.by = ByScript /\ op.call # "allocate" => op.meta = meta
    /\ script # "addresses" /\ line # "asking" =>
         \/ node[Self] # NoNode
         \/ \E op \in pending : op.by = ByScript /\ op.call \in {"register", "allocate"}
    /\ script # "register" /\ line \in {"published", "done"} =>
         \/ node[Self] # NoNode /\ metadata[Self] = meta
         \/ \E op \in pending : op.by = ByScript /\ op.call = "update"

LifecycleInv == Entry /\ ServerType /\ ScriptType /\ OpsInv /\ FreshInv /\ ScriptInv

LEMMA ByScriptIsNoStart ==
  /\ MaxStarts \in Nat /\ ByScript \in Nat /\ ByScript \notin Starts /\ ByScript # 0
  /\ Self \in Providers /\ LimitGb \in U64
BY LifecycleAssumption DEF ByScript, Starts

LEMMA InitLifecycle == ScriptsInit => LifecycleInv
<1> SUFFICES ASSUME ScriptsInit PROVE LifecycleInv
  OBVIOUS
<1> USE DEF ScriptsInit, LifecycleInit, Init
<1>1. Entry
  BY ClockAssumption, ByScriptIsNoStart DEF Entry, Periods
<1>2. ServerType
  <2>1. running = FALSE /\ start = 0 /\ task = "off" /\ disturbed = FALSE
    OBVIOUS
  <2>2. 0 \in 0 .. MaxStarts
    BY ByScriptIsNoStart
  <2>3. "off" \in Tasks /\ running \in BOOLEAN /\ disturbed \in BOOLEAN
    BY <2>1 DEF Tasks
  <2>4. ~running
    BY <2>1
  <2>5. QED
    BY <2>1, <2>2, <2>3, <2>4, Zenon DEF ServerType
<1>3. ScriptType
  BY DEF ScriptType
<1>4. OpsInv
  BY DEF OpsInv
<1>5. FreshInv /\ ScriptInv
  BY DEF FreshInv, ScriptInv, FreshUnlessDisturbed
<1>6. QED
  BY <1>1, <1>2, <1>3, <1>4, <1>5 DEF LifecycleInv

-----------------------------------------------------------------------------
(* The provider's entry *)

(* A record, once there, stays. *)
Kept == Entry' /\ (node[Self] # NoNode => node'[Self] # NoNode)

SameEntry == UNCHANGED <<node, metadata, period>>

LEMMA SameIsKept == Entry /\ SameEntry => Kept
BY DEF Entry, SameEntry, Kept

LEMMA PeriodIsU64 == Periods \subseteq U64
BY ModAssumption, ClockAssumption DEF Periods, U64, NeverChallenged

LEMMA RegisterKept ==
  ASSUME Entry, NEW gb \in U64, NEW m, RegisterStorageNode(Self, gb, m)
  PROVE  /\ Kept /\ node[Self] = NoNode /\ node'[Self] # NoNode
         /\ metadata'[Self] = m
<1>1. period \in U64 /\ NeverChallenged \in U64 /\ 0 \in U64
  BY PeriodIsU64, ModAssumption DEF Entry, U64, NeverChallenged
<1>2. NewNode(gb) \in NodeRecord
  BY <1>1 DEF NewNode, NodeRecord
<1>3. NewNode(gb) # NoNode
  BY <1>2, AbsentAssumption
<1>4. node' = [node EXCEPT ![Self] = NewNode(gb)] /\ period' = period /\ node[Self] = NoNode
  BY DEF RegisterStorageNode, clockVars
<1>5. Self \in Providers
  BY ByScriptIsNoStart
<1>6. node' \in [Providers -> NodeRecord \cup {NoNode}] /\ node'[Self] # NoNode
  <2> HIDE DEF NewNode
  <2>1. QED
    BY <1>2, <1>3, <1>4, <1>5 DEF Entry
<1>7. metadata'[Self] = m /\ metadata' = [a \in Providers |-> metadata'[a]]
  BY <1>4, <1>5 DEF Entry, RegisterStorageNode
<1>8. QED
  BY <1>4, <1>6, <1>7 DEF Kept, Entry

LEMMA UpdateKept ==
  ASSUME Entry, NEW m, UpdateProviderMetadata(Self, m)
  PROVE  Kept /\ node[Self] # NoNode /\ node' = node /\ metadata'[Self] = m
BY ByScriptIsNoStart DEF Entry, Kept, UpdateProviderMetadata, clockVars

LEMMA AllocationKept ==
  ASSUME Entry, NEW gb \in U64, UpdateStorageAllocation(Self, gb)
  PROVE  Kept /\ node[Self] # NoNode /\ metadata' = metadata
<1>1. /\ node[Self] # NoNode /\ period' = period /\ metadata' = metadata
      /\ node' = [node EXCEPT ![Self].allocatedGb = gb]
  BY DEF UpdateStorageAllocation, clockVars
<1>2. node[Self] \in NodeRecord
  BY <1>1, ByScriptIsNoStart DEF Entry
<1>3. [node[Self] EXCEPT !.allocatedGb = gb] \in NodeRecord
  BY <1>2 DEF NodeRecord
<1>4. node' \in [Providers -> NodeRecord \cup {NoNode}] /\ node'[Self] \in NodeRecord
  BY <1>1, <1>3, ByScriptIsNoStart DEF Entry
<1>5. QED
  BY <1>1, <1>4, AbsentAssumption DEF Entry, Kept

LEMMA UnregisterKept ==
  ASSUME Entry, UnregisterStorageNode(Self)
  PROVE  Kept /\ metadata' = metadata
<1>1. /\ node[Self] # NoNode /\ period' = period /\ metadata' = metadata
      /\ node' = [node EXCEPT ![Self].active = FALSE]
  BY DEF UnregisterStorageNode, clockVars, Active, Registered
<1>2. node[Self] \in NodeRecord
  BY <1>1, ByScriptIsNoStart DEF Entry
<1>3. [node[Self] EXCEPT !.active = FALSE] \in NodeRecord
  BY <1>2 DEF NodeRecord
<1>4. node' \in [Providers -> NodeRecord \cup {NoNode}] /\ node'[Self] \in NodeRecord
  BY <1>1, <1>3, ByScriptIsNoStart DEF Entry
<1>5. QED
  BY <1>1, <1>4, AbsentAssumption DEF Entry, Kept

LEMMA OwnerKept ==
  ASSUME Entry, OwnerStep
  PROVE  Kept /\ metadata' = metadata
<1>1. ASSUME NEW gb \in Allocations, UpdateStorageAllocation(Self, gb) PROVE Kept /\ metadata' = metadata
  BY <1>1, AllocationKept, ArgumentAssumption
<1>2. ASSUME AdminNext PROVE Kept /\ metadata' = metadata
  <2>1. SameEntry
    BY <1>2
       DEF AdminNext, UpdateConfig, AddChallenger, RemoveChallenger, SetChallenger, AddStorageAdmin,
           RemoveStorageAdmin, SetStorageAdmins, SetUploaderPricePerGbAdmin, SetPaused,
           TransferAdmin, SameEntry, clockVars
  <2>2. QED
    BY <2>1, SameIsKept DEF SameEntry
<1>3. ASSUME Tick PROVE Kept /\ metadata' = metadata
  BY <1>3 DEF Tick, Entry, Kept
<1>4. QED
  BY <1>1, <1>2, <1>3, UnregisterKept DEF OwnerStep

LEMMA ExecuteKept ==
  ASSUME Entry, NEW op, Execute(op)
  PROVE  /\ Kept /\ node'[Self] # NoNode /\ metadata'[Self] = op.meta
         /\ op.call = "register" => node[Self] = NoNode
         /\ op.call \in {"register", "update"}
<1>1. CASE op.call = "register" /\ RegisterStorageNode(Self, LimitGb, op.meta)
  BY <1>1, RegisterKept, ByScriptIsNoStart
<1>2. CASE op.call = "update" /\ UpdateProviderMetadata(Self, op.meta)
  BY <1>2, UpdateKept
<1>3. QED
  BY <1>1, <1>2 DEF Execute

-----------------------------------------------------------------------------
(* Server, page, owner and administrator *)

ServerInv == ServerType /\ OpsInv /\ FreshInv

(* Steps of the task, and of others as long as they send nothing new for   *)
(* this start and do not touch the entry                                   *)
LEMMA TaskKeeps ==
  ASSUME LifecycleInv, Kept, UNCHANGED <<node, metadata, disturbed>>,
         ServerType',
         start' = start, pending' = pending,
         task' = "published" => wanted' = wanted,
         task' \in {"comparing", "updating"} => node[Self] # NoNode,
         \/ task' = task
         \/ task' = "off"
         \/ task \notin {"off", "published", "failed"} /\ task' # "published"
         \/ /\ task = "comparing" /\ task' = "published" /\ metadata[Self] = wanted
  PROVE  ServerInv'
<1> USE DEF LifecycleInv
<1>1. OpsInv'
  BY DEF OpsInv
<1>2. FreshInv'
  <2>1. CASE task' = task
    BY <2>1 DEF FreshInv, FreshUnlessDisturbed
  <2>2. CASE task' = "off"
    BY <2>2 DEF FreshInv, FreshUnlessDisturbed
  <2>3. CASE task \notin {"off", "published", "failed"} /\ task' # "published"
    BY <2>3 DEF FreshInv, FreshUnlessDisturbed
  <2>4. CASE task = "comparing" /\ task' = "published" /\ metadata[Self] = wanted
    BY <2>4 DEF FreshInv, FreshUnlessDisturbed, OpsInv
  <2>5. QED
    BY <2>1, <2>2, <2>3, <2>4
<1>3. QED
  BY <1>1, <1>2 DEF ServerInv

LEMMA StartKeeps ==
  ASSUME LifecycleInv, Start
  PROVE  ServerInv'
<1> USE DEF LifecycleInv, Start, vars
<1>1. ServerType'
  <2>1. start' \in 0 .. MaxStarts /\ start' >= 1
    BY ByScriptIsNoStart DEF ServerType
  <2>2. task' \in Tasks /\ task' # "off" /\ running' = TRUE /\ disturbed' \in BOOLEAN
    BY DEF ServerType, Tasks
  <2>3. running'
    BY <2>2
  <2>4. QED
    BY <2>1, <2>2, <2>3, Zenon DEF ServerType
<1>2. start' \in Starts /\ start \in Nat /\ start' = start + 1
  BY ByScriptIsNoStart DEF ServerType, Starts
<1>3. \A op \in pending : op.by # start' /\ (op.by \in Starts => op.by <= start')
  BY <1>2, ByScriptIsNoStart DEF OpsInv, Starts
<1>4. OpsInv'
  BY <1>3 DEF OpsInv
<1>5. FreshInv'
  BY <1>3 DEF FreshInv, FreshUnlessDisturbed
<1>6. QED
  BY <1>1, <1>4, <1>5 DEF ServerInv

LEMMA StopKeeps ==
  ASSUME LifecycleInv, Stop
  PROVE  ServerInv'
<1> USE DEF LifecycleInv, Stop, vars
<1>1. ServerType'
  BY DEF ServerType, Tasks
<1>2. OpsInv'
  BY DEF OpsInv
<1>3. FreshInv'
  BY DEF FreshInv, FreshUnlessDisturbed
<1>4. QED
  BY <1>1, <1>2, <1>3 DEF ServerInv

LEMMA StepOfTaskKeeps ==
  ASSUME LifecycleInv, Kept, TakeAddresses \/ Skip \/ Check \/ Compare
  PROVE  ServerInv'
<1> USE DEF LifecycleInv
<1>1. /\ UNCHANGED <<node, metadata, disturbed, start, running, pending>>
      /\ task' = "published" => wanted' = wanted
  BY DEF TakeAddresses, Skip, Check, Compare, TaskStep, vars
<1>2. task' \in Tasks \ {"off"} /\ task # "off"
  BY DEF TakeAddresses, Skip, Check, Compare, TaskStep, Tasks
<1>3. ServerType'
  BY <1>1, <1>2 DEF ServerType
<1>4. \/ task \notin {"off", "published", "failed"} /\ task' # "published"
      \/ task = "comparing" /\ task' = "published" /\ metadata[Self] = wanted
  BY DEF TakeAddresses, Skip, Check, Compare, TaskStep, Differs
<1>5. task' \in {"comparing", "updating"} => node[Self] # NoNode
  BY DEF TakeAddresses, Skip, Check, Compare, TaskStep, RegisteredAnswers, OpsInv
<1>6. QED
  BY <1>1, <1>3, <1>4, <1>5, TaskKeeps

LEMMA SendKeeps ==
  ASSUME LifecycleInv, Register \/ Update
  PROVE  ServerInv'
<1> USE DEF LifecycleInv
<1> DEFINE call == IF task = "registering" THEN "register" ELSE "update"
           op == [call |-> call, by |-> start, meta |-> wanted]
<1>1. /\ UNCHANGED <<node, metadata, disturbed, start, running, wanted>>
      /\ task \in {"registering", "updating"}
      /\ \/ task' \in {"published", "failed"} /\ pending' = pending \cup {op}
         \/ task' = "failed" /\ pending' = pending
  BY DEF Register, Update, Send, vars
<1>2. op.call \in {"register", "update"} /\ op.by = start /\ op.meta = wanted
  OBVIOUS
<1>3. op.call = "update" => node[Self] # NoNode
  BY <1>1 DEF OpsInv
<1> HIDE DEF op
<1>4. ServerType'
  BY <1>1 DEF ServerType, Tasks
<1>5. OpsInv'
  <2>1. start \in 0 .. ByScript
    BY ByScriptIsNoStart DEF ServerType, ByScript
  <2>2. start <= start
    BY <2>1
  <2>3. QED
    BY <1>1, <1>2, <1>3, <2>1, <2>2 DEF OpsInv
<1>6. FreshInv'
  BY <1>1, <1>2 DEF FreshInv, FreshUnlessDisturbed
<1>7. QED
  BY <1>4, <1>5, <1>6 DEF ServerInv

(* An operation of nobody's start is sent. *)
LEMMA OtherSendKeeps ==
  ASSUME LifecycleInv, UNCHANGED <<node, metadata, serverVars, disturbed>>,
         NEW op, pending' = pending \cup {op}, op.by \in {0, ByScript},
         op.call = "allocate" => op.by = ByScript /\ node[Self] # NoNode
  PROVE  ServerInv'
<1> USE DEF LifecycleInv, serverVars
<1>1. ServerType'
  BY DEF ServerType
<1>2. op.by \in 0 .. ByScript /\ op.by \notin Starts
  BY ByScriptIsNoStart DEF Starts
<1>3. OpsInv'
  BY <1>2 DEF OpsInv
<1>4. task # "off" => op.by # start
  BY <1>2, ByScriptIsNoStart DEF ServerType, Starts
<1>5. FreshInv'
  BY <1>4 DEF FreshInv, FreshUnlessDisturbed
<1>6. QED
  BY <1>1, <1>3, <1>5 DEF ServerInv

(* An operation leaves the queue: executed, or without an effect. *)
LEMMA ExecuteKeeps ==
  ASSUME LifecycleInv, Kept, NEW op \in pending, Execute(op)
  PROVE  ServerInv'
<1> USE DEF LifecycleInv
<1>1. /\ node'[Self] # NoNode /\ metadata'[Self] = op.meta
      /\ pending' = pending \ {op} /\ UNCHANGED serverVars
      /\ disturbed' = (disturbed \/ (op.by # start /\ AfterCheck))
  BY ExecuteKept DEF Execute
<1>2. ServerType'
  BY <1>1 DEF ServerType, serverVars
<1>3. OpsInv'
  BY <1>1 DEF OpsInv, serverVars
<1>4. FreshInv'
  <2>1. CASE task = "published" /\ op.by = start
    BY <1>1, <2>1 DEF FreshInv, FreshUnlessDisturbed, serverVars
  <2>2. CASE task = "published" /\ op.by # start
    <3>1. disturbed'
      BY <1>1, <2>2 DEF AfterCheck
    <3>2. QED
      BY <1>1, <2>2, <3>1 DEF FreshInv, FreshUnlessDisturbed, serverVars
  <2>3. CASE task # "published"
    BY <1>1, <2>3 DEF FreshInv, FreshUnlessDisturbed, serverVars
  <2>4. QED
    BY <2>1, <2>2, <2>3
<1>5. QED
  BY <1>2, <1>3, <1>4 DEF ServerInv

LEMMA FailKeeps ==
  ASSUME LifecycleInv, NEW op \in pending, OperationFails(op)
  PROVE  ServerInv'
<1> USE DEF LifecycleInv
<1>1. /\ UNCHANGED <<node, metadata, serverVars>> /\ pending' = pending \ {op}
      /\ disturbed' = (disturbed \/ (op.by = start /\ running))
  BY DEF OperationFails, vars
<1>2. ServerType'
  BY <1>1 DEF ServerType, serverVars
<1>3. OpsInv'
  BY <1>1 DEF OpsInv, serverVars
<1>4. FreshInv'
  <2>1. CASE task = "published" /\ op.by = start
    <3>1. disturbed'
      BY <1>1, <2>1 DEF ServerType
    <3>2. QED
      BY <1>1, <2>1, <3>1 DEF FreshInv, FreshUnlessDisturbed, serverVars
  <2>2. CASE task # "published" \/ op.by # start
    <3>1. disturbed => disturbed'
      BY <1>1
    <3>2. QED
      BY <1>1, <2>2, <3>1 DEF FreshInv, FreshUnlessDisturbed, serverVars
  <2>3. QED
    BY <2>1, <2>2
<1>5. QED
  BY <1>2, <1>3, <1>4 DEF ServerInv

LEMMA OwnerKeeps ==
  ASSUME LifecycleInv, OwnerStep
  PROVE  ServerInv'
<1> USE DEF LifecycleInv
<1>1. /\ node[Self] # NoNode => node'[Self] # NoNode
      /\ metadata' = metadata
  BY OwnerKept DEF Kept
<1>2. UNCHANGED <<serverVars, pending, disturbed>>
  BY DEF OwnerStep, lifecycleVars
<1>3. ServerType' /\ OpsInv'
  BY <1>1, <1>2 DEF ServerType, OpsInv, serverVars
<1>4. FreshInv'
  BY <1>1, <1>2 DEF FreshInv, FreshUnlessDisturbed, serverVars
<1>5. QED
  BY <1>3, <1>4 DEF ServerInv

-----------------------------------------------------------------------------
(* The scripts *)

(* What happens beside the script that runs *)
LEMMA OthersKeepScript ==
  ASSUME LifecycleInv, OthersStep
  PROVE  ScriptType' /\ ScriptInv'
<1> USE DEF LifecycleInv
<1>1. /\ UNCHANGED <<script, line, meta>>
      /\ mixed' = (mixed \/ <<node, metadata>>' # <<node, metadata>>)
  BY DEF OthersStep
<1>2. ScriptType'
  BY <1>1 DEF ScriptType
<1>3. \A op : op.by = ByScript => (op \in pending' <=> op \in pending)
  <2>1. CASE ActorsNext
    <3>1. \/ pending' = pending
          \/ \E op : pending' = pending \cup {op} /\ op.by \in {0, start}
      <4>1. CASE Start \/ Stop \/ OwnerStep \/ FetchServerMetadata \/ \E i \in Interfaces : Listen(i)
        BY <4>1 DEF Start, Stop, OwnerStep, FetchServerMetadata, Listen, lifecycleVars
      <4>2. CASE TakeAddresses \/ Skip \/ Check \/ Compare
        BY <4>2 DEF TakeAddresses, Skip, Check, Compare, TaskStep
      <4>3. CASE Register
        <5> DEFINE op == [call |-> "register", by |-> start, meta |-> wanted]
        <5>1. op.by = start /\ (pending' = pending \/ pending' = pending \cup {op})
          BY <4>3 DEF Register, Send
        <5>2. QED
          BY <5>1
      <4>4. CASE Update
        <5> DEFINE op == [call |-> "update", by |-> start, meta |-> wanted]
        <5>1. op.by = start /\ (pending' = pending \/ pending' = pending \cup {op})
          BY <4>4 DEF Update, Send
        <5>2. QED
          BY <5>1
      <4>5. CASE HandleRegister
        <5> DEFINE op == [call |-> "register", by |-> 0, meta |-> form]
        <5>1. op.by = 0 /\ pending' = pending \cup {op}
          BY <4>5 DEF HandleRegister
        <5>2. QED
          BY <5>1
      <4>6. QED
        BY <2>1, <4>1, <4>2, <4>3, <4>4, <4>5 DEF ActorsNext
    <3>2. start # ByScript
      BY ByScriptIsNoStart DEF ServerType, ByScript
    <3>3. QED
      BY <3>1, <3>2, ByScriptIsNoStart
  <2>2. ASSUME NEW op \in pending, op.by # ByScript, Execute(op) \/ OperationFails(op)
        PROVE  pending' = pending \ {op}
    BY <2>2 DEF Execute, OperationFails
  <2>3. QED
    BY <2>1, <2>2 DEF OthersStep
<1>4. ScriptInv'
  <2>1. SUFFICES ASSUME ~mixed', script # "none" PROVE ScriptInv'
    BY <1>1 DEF ScriptInv
  <2>2. ~mixed /\ node' = node /\ metadata' = metadata
    BY <1>1, <2>1
  <2>3. QED
    BY <1>1, <1>3, <2>1, <2>2 DEF ScriptInv
<1>5. QED
  BY <1>2, <1>4

LEMMA OthersKeepServer ==
  ASSUME LifecycleInv, Kept, OthersStep
  PROVE  ServerInv'
<1> USE DEF LifecycleInv
<1>1. CASE FetchServerMetadata \/ \E i \in Interfaces : Listen(i)
  <2>1. UNCHANGED <<node, metadata, disturbed, start, running, pending, task, wanted>>
    BY <1>1 DEF FetchServerMetadata, Listen, vars, serverVars
  <2>2. ServerType'
    BY <2>1 DEF ServerType
  <2>3. QED
    BY <2>1, <2>2, TaskKeeps DEF OpsInv
<1>2. CASE HandleRegister
  <2> DEFINE op == [call |-> "register", by |-> 0, meta |-> form]
  <2>1. op.by = 0 /\ op.call # "allocate" /\ pending' = pending \cup {op}
    BY <1>2 DEF HandleRegister
  <2>2. UNCHANGED <<node, metadata, serverVars, disturbed>>
    BY <1>2 DEF HandleRegister, vars
  <2> HIDE DEF op
  <2>3. QED
    BY <2>1, <2>2, OtherSendKeeps
<1>3. QED
  BY <1>1, <1>2, StartKeeps, StopKeeps, StepOfTaskKeeps, SendKeeps, ExecuteKeeps, FailKeeps,
     OwnerKeeps DEF OthersStep, ActorsNext

LEMMA RunKeeps ==
  ASSUME LifecycleInv, RunRegisterProvider \/ RunSetup \/ RunUpdateAddresses
  PROVE  ScriptType' /\ ScriptInv'
<1> USE DEF LifecycleInv
<1>1. /\ UNCHANGED <<node, metadata, pending>>
      /\ mixed' = \E op \in pending : op.by = ByScript
      /\ \/ script' \in {"register", "setup"} /\ line' = "asking"
         \/ script' = "addresses" /\ line' = "publishing"
  BY DEF RunRegisterProvider, RunSetup, RunUpdateAddresses, Run, allVars, lifecycleVars, vars
<1>2. ScriptType'
  <2>1. mixed' \in BOOLEAN
    BY <1>1
  <2>2. QED
    BY <1>1, <2>1 DEF ScriptType
<1>3. ~mixed' => \A op \in pending : op.by # ByScript
  BY <1>1
<1>4. ScriptInv'
  BY <1>1, <1>3 DEF ScriptInv
<1>5. QED
  BY <1>2, <1>4

(* Steps of the script that do not touch the contract *)
LEMMA LineKeeps ==
  ASSUME LifecycleInv, ScriptDies \/ Waited \/ PublishWaited
  PROVE  ScriptType' /\ ScriptInv'
<1> USE DEF LifecycleInv
<1>1. UNCHANGED <<node, metadata, pending, mixed>>
  BY DEF ScriptDies, Waited, PublishWaited, allVars, lifecycleVars, vars
<1>2. CASE ScriptDies
  BY <1>1, <1>2 DEF ScriptDies, ScriptType, ScriptInv
<1>3. CASE Waited
  <2>1. /\ line = "registered" /\ UNCHANGED <<script, meta>>
        /\ \/ script = "register" /\ line' = "done" /\ \A op \in pending : op.by # ByScript
           \/ script = "setup" /\ line' = "publishing"
    BY <1>3 DEF Waited
  <2>2. QED
    BY <1>1, <2>1 DEF ScriptType, ScriptInv
<1>4. CASE PublishWaited
  BY <1>1, <1>4 DEF PublishWaited, ScriptType, ScriptInv
<1>5. QED
  BY <1>2, <1>3, <1>4

LEMMA RegisterOrUpdateKeeps ==
  ASSUME LifecycleInv, RegisterOrUpdate
  PROVE  ScriptType' /\ ScriptInv' /\ ServerInv'
<1> USE DEF LifecycleInv
<1>1. PICK exists \in ExistsAnswers :
        ScriptSends(IF exists THEN [call |-> "allocate", by |-> ByScript, meta |-> NoMetadata]
                    ELSE [call |-> "register", by |-> ByScript, meta |-> meta],
                    "registered")
  BY DEF RegisterOrUpdate
<1>2. PICK op : /\ ScriptSends(op, "registered") /\ op.by = ByScript
                /\ \/ op.call = "allocate" /\ node[Self] # NoNode
                   \/ op.call = "register" /\ op.meta = meta
  <2>1. exists => node[Self] # NoNode
    BY DEF ExistsAnswers
  <2>2. CASE exists
    BY <1>1, <2>1, <2>2
  <2>3. CASE ~exists
    BY <1>1, <2>3
  <2>4. QED
    BY <2>2, <2>3
<1>3. /\ UNCHANGED <<node, metadata, serverVars, disturbed, script, meta, mixed>>
      /\ pending' = pending \cup {op} /\ line' = "registered" /\ line = "asking"
  BY <1>2 DEF ScriptSends, RegisterOrUpdate, vars
<1>4. ServerInv'
  BY <1>2, <1>3, OtherSendKeeps
<1>5. ScriptType' /\ ScriptInv'
  BY <1>2, <1>3 DEF ScriptType, ScriptInv
<1>6. QED
  BY <1>4, <1>5

LEMMA PublishKeeps ==
  ASSUME LifecycleInv, Publish
  PROVE  ScriptType' /\ ScriptInv' /\ ServerInv'
<1> USE DEF LifecycleInv
<1> DEFINE op == [call |-> "update", by |-> ByScript, meta |-> meta]
<1>1. /\ UNCHANGED <<node, metadata, serverVars, disturbed, script, meta, mixed>>
      /\ pending' = pending \cup {op} /\ line' = "published" /\ line = "publishing"
  BY DEF Publish, ScriptSends, Published, vars
<1>2. op.call = "update" /\ op.by = ByScript /\ op.meta = meta
  OBVIOUS
<1>3. op \in pending'
  BY <1>1
<1> HIDE DEF op
<1>4. ServerInv'
  BY <1>1, <1>2, OtherSendKeeps
<1>5. ScriptType' /\ ScriptInv'
  BY <1>1, <1>2, <1>3 DEF ScriptType, ScriptInv
<1>6. QED
  BY <1>4, <1>5

(* An operation of the script is executed: whichever of the two it is, the *)
(* record is there afterwards, and a registration cannot come second.      *)
LEMMA OwnKeeps ==
  ASSUME LifecycleInv, Kept, NEW op \in pending, OwnOperation(op)
  PROVE  ScriptType' /\ ScriptInv' /\ ServerInv'
<1> USE DEF LifecycleInv
<1>1. UNCHANGED <<script, line, meta>> /\ op.by = ByScript
  BY DEF OwnOperation
<1>2. CASE OperationFails(op) /\ mixed' = TRUE
  <2>1. ScriptType'
    BY <1>1, <1>2 DEF ScriptType
  <2>2. mixed'
    BY <1>2
  <2>3. ScriptInv'
    BY <2>2 DEF ScriptInv
  <2>4. QED
    BY <1>2, <2>1, <2>3, FailKeeps
<1>3. CASE Execute(op) /\ UNCHANGED mixed
  <2>1. ServerInv'
    BY <1>3, ExecuteKeeps
  <2>2. /\ node'[Self] # NoNode /\ metadata'[Self] = op.meta /\ pending' = pending \ {op}
        /\ op.call \in {"register", "update"} /\ (op.call = "register" => node[Self] = NoNode)
    BY <1>3, ExecuteKept DEF Execute
  <2>3. ScriptType'
    BY <1>1, <1>3 DEF ScriptType
  <2>4. ScriptInv'
    BY <1>1, <1>3, <2>2 DEF ScriptInv
  <2>5. QED
    BY <2>1, <2>3, <2>4
<1>4. CASE ExecuteAllocation(op) /\ UNCHANGED mixed
  <2>1. /\ node[Self] # NoNode /\ node'[Self] # NoNode /\ metadata' = metadata
        /\ pending' = pending \ {op} /\ op.call = "allocate" /\ UNCHANGED serverVars
        /\ disturbed' = (disturbed \/ AfterCheck)
    BY <1>4, AllocationKept, ByScriptIsNoStart DEF ExecuteAllocation, Kept
  <2>2. ScriptType'
    BY <1>1, <1>4 DEF ScriptType
  <2>3. ScriptInv'
    BY <1>1, <1>4, <2>1 DEF ScriptInv
  <2>4. ServerType' /\ OpsInv'
    BY <2>1 DEF ServerType, OpsInv, serverVars
  <2>5. FreshInv'
    <3>1. task = "published" => disturbed'
      BY <2>1 DEF AfterCheck
    <3>2. QED
      BY <2>1, <3>1 DEF FreshInv, FreshUnlessDisturbed, serverVars
  <2>6. QED
    BY <2>2, <2>3, <2>4, <2>5 DEF ServerInv
<1>5. QED
  BY <1>2, <1>3, <1>4 DEF OwnOperation

(* What no step of the server is *)
LEMMA IdleServer ==
  ASSUME LifecycleInv, UNCHANGED allVars
  PROVE  Kept /\ ServerInv'
<1> USE DEF LifecycleInv
<1>1. UNCHANGED <<node, metadata, period, pending, serverVars, disturbed>>
  BY DEF allVars, lifecycleVars, vars, clockVars
<1>2. Kept
  BY <1>1, SameIsKept DEF SameEntry
<1>3. ServerInv'
  BY <1>1 DEF ServerInv, ServerType, OpsInv, FreshInv, FreshUnlessDisturbed, serverVars
<1>4. QED
  BY <1>2, <1>3

LEMMA StepKept ==
  ASSUME LifecycleInv, [ScriptsNext]_everything
  PROVE  Kept
<1> USE DEF LifecycleInv
<1>1. ASSUME SameEntry PROVE Kept
  BY <1>1, SameIsKept
<1>2. CASE ActorsNext
  <2>1. CASE OwnerStep
    BY <2>1, OwnerKept
  <2>2. CASE ~OwnerStep
    BY <1>1, <1>2, <2>2
       DEF ActorsNext, Start, Stop, TakeAddresses, Skip, Check, Compare, Register, Update, TaskStep,
           Send, FetchServerMetadata, HandleRegister, Listen, vars, clockVars, SameEntry
  <2>3. QED
    BY <2>1, <2>2
<1>3. ASSUME NEW op, Execute(op) PROVE Kept
  BY <1>3, ExecuteKept
<1>4. ASSUME NEW op, OperationFails(op) PROVE Kept
  BY <1>1, <1>4 DEF OperationFails, vars, clockVars, SameEntry
<1>5. ASSUME NEW op, ExecuteAllocation(op) PROVE Kept
  BY <1>5, AllocationKept, ByScriptIsNoStart DEF ExecuteAllocation
<1>6. CASE RunRegisterProvider \/ RunSetup \/ RunUpdateAddresses \/ ScriptDies \/ Waited \/ PublishWaited
  BY <1>6, IdleServer DEF RunRegisterProvider, RunSetup, RunUpdateAddresses, Run, ScriptDies, Waited,
     PublishWaited
<1>7. CASE RegisterOrUpdate \/ Publish
  BY <1>1, <1>7 DEF RegisterOrUpdate, Publish, ScriptSends, vars, clockVars, SameEntry
<1>8. CASE UNCHANGED everything
  BY <1>8, IdleServer DEF everything
<1>9. QED
  BY <1>2, <1>3, <1>4, <1>5, <1>6, <1>7, <1>8 DEF ScriptsNext, OwnOperation, OthersStep

LEMMA StepLifecycle == LifecycleInv /\ [ScriptsNext]_everything => LifecycleInv'
<1> SUFFICES ASSUME LifecycleInv, [ScriptsNext]_everything PROVE LifecycleInv'
  OBVIOUS
<1>1. Kept
  BY StepKept
<1>2. SUFFICES ScriptType' /\ ScriptInv' /\ ServerInv'
  BY <1>1 DEF LifecycleInv, ServerInv, Kept
<1>3. CASE OthersStep
  BY <1>1, <1>3, OthersKeepScript, OthersKeepServer
<1>4. CASE RunRegisterProvider \/ RunSetup \/ RunUpdateAddresses
  BY <1>4, RunKeeps, IdleServer DEF RunRegisterProvider, RunSetup, RunUpdateAddresses, Run
<1>5. CASE ScriptDies \/ Waited \/ PublishWaited
  BY <1>5, LineKeeps, IdleServer DEF ScriptDies, Waited, PublishWaited
<1>6. CASE UNCHANGED everything
  <2>1. UNCHANGED <<allVars, script, line, meta, mixed, pending, node, metadata>>
    BY <1>6 DEF everything, allVars, lifecycleVars, scriptVars, vars
  <2>2. ScriptType' /\ ScriptInv'
    BY <2>1 DEF LifecycleInv, ScriptType, ScriptInv
  <2>3. QED
    BY <2>1, <2>2, IdleServer
<1>7. QED
  BY <1>1, <1>3, <1>4, <1>5, <1>6, RegisterOrUpdateKeeps, PublishKeeps, OwnKeeps DEF ScriptsNext

LEMMA LifecycleInvHolds == ScriptsSpec => []LifecycleInv
BY InitLifecycle, StepLifecycle, PTL DEF ScriptsSpec

-----------------------------------------------------------------------------
(* THEOREM: a start whose operation is through has its endpoint and        *)
(* addresses in the contract, unless the operation failed or another came  *)
(* in between (the registration task of main.rs).                          *)
THEOREM FreshUnlessDisturbedCorrect == ScriptsSpec => []FreshUnlessDisturbed
<1>1. LifecycleInv => FreshUnlessDisturbed
  BY DEF LifecycleInv, FreshInv
<1>2. QED
  BY LifecycleInvHolds, <1>1, PTL

(* THEOREM: an update of the server never meets a contract without the     *)
(* provider's record (is_node_registered, update_provider_metadata).       *)
THEOREM UpdateHasRecordCorrect == ScriptsSpec => []UpdateHasRecord
<1>1. LifecycleInv => UpdateHasRecord
  BY DEF LifecycleInv, OpsInv, UpdateHasRecord
<1>2. QED
  BY LifecycleInvHolds, <1>1, PTL

(* THEOREM: nor does a new allocation of a script (register-provider.ts,   *)
(* full-setup.ts).                                                         *)
THEOREM AllocationHasRecordCorrect == ScriptsSpec => []AllocationHasRecord
<1>1. LifecycleInv => AllocationHasRecord
  BY DEF LifecycleInv, OpsInv, AllocationHasRecord
<1>2. QED
  BY LifecycleInvHolds, <1>1, PTL

(* THEOREM: what a script reports as done is true, once its operations are *)
(* through, in whatever order they were executed, unless one of them       *)
(* failed or somebody else changed the entry.                              *)
THEOREM DoneIsPublishedCorrect == ScriptsSpec => []DoneIsPublished
<1>1. LifecycleInv => DoneIsPublished
  BY DEF LifecycleInv, ScriptType, ScriptInv, DoneIsPublished
<1>2. QED
  BY LifecycleInvHolds, <1>1, PTL
=============================================================================
