--------------------------- MODULE ProviderLifecycle ---------------------------
(***************************************************************************)
(* How a provider gets into the contract and stays there: the registration *)
(* task of the server (server/src/main.rs, contract.rs), its owner's page  *)
(* (front/src/pages/ProvideStorage.jsx, with /config of api.rs), and the   *)
(* contract, whose actions are those of NodeRegistration.                  *)
(*                                                                         *)
(* Every start of the server draws a new libp2p identity and new ports, so *)
(* the addresses of one start are worth nothing in the next.  Task and     *)
(* page send operations, which execute later, or revert, or expire; nobody *)
(* waits for them, and nothing is sent twice.                              *)
(***************************************************************************)
EXTENDS NodeRegistration, RegistryAdmin

CONSTANTS
  Self,          \* the provider's address
  LimitGb,       \* STORAGE_LIMIT_GB
  Endpoints,     \* what PUBLIC_ENDPOINT or the discovered local address may be
  Interfaces,    \* network interfaces the node listens on
  Loopback,      \* those of them that are local to the machine
  MaxStarts,     \* bound of the starts of the server
  MaxForms,      \* bound of the registrations sent by the page
  NoForm

Starts == 1 .. MaxStarts

(* Provider metadata.  An entry of p2p is ONE string: a set of addresses   *)
(* of a start that were joined into it; the strings name the peer or not.  *)
MetadataOf(e, s, entries, named) ==
  [endpoint |-> e, start |-> s, p2p |-> entries, named |-> named]

ASSUME LifecycleAssumption ==
  /\ Self \in Providers /\ LimitGb \in U64 /\ Loopback \subseteq Interfaces
  /\ MaxStarts \in Nat /\ MaxForms \in Nat
  /\ \A e \in Endpoints, s \in Starts, entries \in SUBSET SUBSET Interfaces,
        named \in BOOLEAN : MetadataOf(e, s, entries, named) \in Metadata

VARIABLES
  running,     \* the server is up
  start,       \* its last start
  endpoint,    \* endpoint_for_contract
  listening,   \* P2pState.listen_addrs
  task,        \* the registration task
  wanted,      \* the metadata it publishes
  form,        \* what the page read from /config
  forms,       \* how many registrations the page has sent
  pending,     \* operations that were sent to the chain
  disturbed    \* history: this start's operation failed, or another one came in between

serverVars    == <<running, start, endpoint, listening, task, wanted>>
pageVars      == <<form, forms>>
lifecycleVars == <<serverVars, pageVars, pending, disturbed>>
allVars       == <<vars, lifecycleVars>>

LifecycleInit ==
  /\ Init
  /\ running = FALSE /\ start = 0 /\ endpoint \in Endpoints /\ listening = {}
  /\ task = "off" /\ wanted = NoMetadata
  /\ form = NoForm /\ forms = 0
  /\ pending = {} /\ disturbed = FALSE

-----------------------------------------------------------------------------
(* The server *)

Start ==
  /\ ~running /\ start < MaxStarts
  /\ running' = TRUE /\ start' = start + 1
  /\ endpoint' \in Endpoints
  /\ task' = "waiting"
  /\ UNCHANGED <<vars, listening, wanted, pageVars, pending, disturbed>>

Stop ==
  /\ running
  /\ running' = FALSE /\ task' = "off" /\ listening' = {} /\ wanted' = NoMetadata
  /\ disturbed' = FALSE
  /\ UNCHANGED <<vars, start, endpoint, pageVars, pending>>

(* SwarmEvent::NewListenAddr, one per interface *)
Listen(i) ==
  /\ running /\ i \notin listening
  /\ listening' = listening \cup {i}
  /\ UNCHANGED <<vars, running, start, endpoint, task, wanted, pageVars, pending, disturbed>>

(* The backoff loop ends with the addresses there are by then. *)
TakeAddresses ==
  /\ task = "waiting" /\ listening # {}
  /\ wanted' = MetadataOf(endpoint, start, {{i} : i \in listening}, TRUE)
  /\ task' = "checking"
  /\ UNCHANGED <<vars, running, start, endpoint, listening, pageVars, pending, disturbed>>

TaskStep(before, after) ==
  /\ task = before /\ task' = after
  /\ UNCHANGED <<vars, running, start, endpoint, listening, wanted, pageVars, pending,
                 disturbed>>

(* "timed out waiting for P2P addresses; skipping registration", or the    *)
(* check fails                                                             *)
Skip == (listening = {} /\ TaskStep("waiting", "skipped")) \/ TaskStep("checking", "skipped")

(* mutant: an answer without a result counts as registered *)
RegisteredOrUnclear == {TRUE}

(* is_node_registered: an answer without a result counts as not registered *)
RegisteredAnswers == {node[Self] # NoNode, FALSE}

Check ==
  \E registered \in RegisteredAnswers :
    TaskStep("checking", IF registered THEN "comparing" ELSE "registering")

(* mutant: only the endpoints are compared *)
EndpointDiffers(current) == current # NoMetadata /\ current.endpoint # wanted.endpoint

Differs(current) == current # wanted

(* get_provider_metadata; an error counts as a difference. *)
Compare ==
  \/ TaskStep("comparing", IF Differs(metadata[Self]) THEN "updating" ELSE "published")
  \/ TaskStep("comparing", "updating")

(* call_sc: the operation is on its way, or an error is logged, with which *)
(* it may be on its way all the same: the error of the answer's stream.    *)
Send(before, op) ==
  /\ task = before
  /\ \/ task' \in {"published", "failed"} /\ pending' = pending \cup {op}
     \/ task' = "failed" /\ UNCHANGED pending
  /\ UNCHANGED <<vars, running, start, endpoint, listening, wanted, pageVars, disturbed>>

Register == Send("registering", [call |-> "register", by |-> start, meta |-> wanted])
Update   == Send("updating", [call |-> "update", by |-> start, meta |-> wanted])

-----------------------------------------------------------------------------
(* The owner's page *)

(* p2p_listen_addr of GET /config: the addresses that are not local, in    *)
(* one string                                                              *)
ConfigAddresses ==
  LET found == listening \ Loopback IN IF found = {} THEN {} ELSE {found}

(* The owner types the endpoint; what /config says does not name the peer. *)
FetchServerMetadata ==
  /\ running /\ forms < MaxForms
  /\ \E e \in Endpoints : form' = MetadataOf(e, start, ConfigAddresses, FALSE)
  /\ UNCHANGED <<vars, serverVars, forms, pending, disturbed>>

HandleRegister ==
  /\ form # NoForm /\ forms < MaxForms
  /\ pending' = pending \cup {[call |-> "register", by |-> 0, meta |-> form]}
  /\ form' = NoForm /\ forms' = forms + 1
  /\ UNCHANGED <<vars, serverVars, disturbed>>

-----------------------------------------------------------------------------
(* The chain *)

AfterCheck == task \notin {"off", "waiting", "checking"}

Execute(op) ==
  /\ \/ op.call = "register" /\ RegisterStorageNode(Self, LimitGb, op.meta)
     \/ op.call = "update" /\ UpdateProviderMetadata(Self, op.meta)
  /\ pending' = pending \ {op}
  /\ disturbed' = (disturbed \/ (op.by # start /\ AfterCheck))
  /\ UNCHANGED <<serverVars, pageVars>>

(* It reverts, runs out of gas, or expires without being included. *)
OperationFails(op) ==
  /\ pending' = pending \ {op}
  /\ disturbed' = (disturbed \/ (op.by = start /\ running))
  /\ UNCHANGED <<vars, serverVars, pageVars>>

(* The owner's other calls, the administrator's, and time *)
OwnerStep ==
  /\ \/ \E gb \in Allocations : UpdateStorageAllocation(Self, gb)
     \/ UnregisterStorageNode(Self)
     \/ AdminNext
     \/ Tick
  /\ UNCHANGED lifecycleVars

-----------------------------------------------------------------------------
ActorsNext ==
  \/ Start \/ Stop \/ TakeAddresses \/ Skip \/ Check \/ Compare \/ Register \/ Update
  \/ FetchServerMetadata \/ HandleRegister \/ OwnerStep
  \/ \E i \in Interfaces : Listen(i)

LifecycleNext ==
  \/ ActorsNext
  \/ \E op \in pending : Execute(op) \/ OperationFails(op)

LifecycleSpec == LifecycleInit /\ [][LifecycleNext]_allVars

-----------------------------------------------------------------------------
(* What a start of the server leads to: once its task is through and its   *)
(* operation is off the chain's queue, the contract knows the provider and *)
(* names the endpoint and addresses of this start, unless that operation   *)
(* failed or one from another start or from the page was executed after    *)
(* the task looked ("refresh the endpoint and P2P addresses",              *)
(* server/README.md).  Nothing else can leave old addresses there.         *)
FreshUnlessDisturbed ==
  (task = "published" /\ ~disturbed /\ \A op \in pending : op.by # start) =>
    node[Self] # NoNode /\ metadata[Self] = wanted

(* The server sends an update only for a provider that has a record, so    *)
(* that it cannot revert for want of one, however stale the answer was     *)
(* that the task acted on (is_node_registered, main.rs).                   *)
UpdateHasRecord ==
  (\E op \in pending : op.call = "update" /\ op.by \in Starts) => node[Self] # NoNode
=============================================================================
