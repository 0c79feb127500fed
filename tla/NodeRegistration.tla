-------------------------- MODULE NodeRegistration --------------------------
(***************************************************************************)
(* Storage providers enter, change and leave: registerStorageNode,         *)
(* updateStorageAllocation, unregisterStorageNode, updateProviderMetadata. *)
(*                                                                         *)
(* An active provider is recorded four times: its node_ entry, the array   *)
(* node_index of every address that ever registered, the dense list        *)
(* node_idx_0 .. node_idx_(total_nodes - 1) of active ones, and the        *)
(* counters of the current period.  A handler must keep them in step.      *)
(***************************************************************************)
EXTENDS RegistryState

ValidAllocation(gb) ==
  gb >= config.minAllocatedGb /\ gb <= config.maxAllocatedGb

NewNode(gb) ==
  [allocatedGb |-> gb, registeredPeriod |-> period,
   totalChallenges |-> 0, passedChallenges |-> 0, pendingRewards |-> 0,
   lastChallengedPeriod |-> NeverChallenged, lastRewardedPeriod |-> period,
   active |-> TRUE]

RegisterStorageNode(caller, gb, meta) ==
  /\ AssertNotPaused
  /\ ValidAllocation(gb)
  /\ node[caller] = NoNode
  /\ node' = [node EXCEPT ![caller] = NewNode(gb)]
  /\ nodeIndex' = AddToIndex(nodeIndex, caller)
  /\ nodeAt' = [nodeAt EXCEPT ![totalNodes] = caller]
  /\ totalNodes' = Plus(totalNodes, 1)
  /\ stats' = [stats EXCEPT ![period].totalGbStored = Plus(@, gb),
                            ![period].activeNodes = Plus(@, 1)]
  /\ metadata' = IF meta = NoMetadata THEN metadata
                 ELSE [metadata EXCEPT ![caller] = meta]
  /\ UNCHANGED <<clockVars, accessVars, challenge, uploaderVars, coinVars>>

(* An inactive provider passes every assert of this handler too. *)
UpdateStorageAllocation(caller, gb) ==
  /\ AssertNotPaused
  /\ ValidAllocation(gb)
  /\ node[caller] # NoNode
  /\ node' = [node EXCEPT ![caller].allocatedGb = gb]
  /\ stats' = [stats EXCEPT ![period].totalGbStored =
                              Plus(Minus(@, node[caller].allocatedGb), gb)]
  /\ UNCHANGED <<clockVars, accessVars, metadata, listVars, challenge,
                 uploaderVars, coinVars>>

(* The positions the removal loop of unregisterStorageNode stops at: the *)
(* first one that holds the caller, if there is one.                     *)
FirstSlotOf(caller) ==
  {i \in U64 : /\ i < totalNodes /\ AddressAt(i) = caller
               /\ \A j \in U64 : j < i => AddressAt(j) # caller}

(* mutant: the swap reads one position too far *)
RemoveFromListPastEnd(caller) ==
  /\ nodeAt' = [i \in U64 |-> IF i \in FirstSlotOf(caller)
                              THEN AddressAt(totalNodes) ELSE nodeAt[i]]
  /\ totalNodes' = Minus(totalNodes, 1)

(* Swap with the last position, then shrink the list; the count is *)
(* decremented whether or not the loop found the caller.           *)
RemoveFromList(caller) ==
  /\ nodeAt' = [i \in U64 |-> IF i \in FirstSlotOf(caller)
                              THEN AddressAt(Minus(totalNodes, 1))
                              ELSE nodeAt[i]]
  /\ totalNodes' = Minus(totalNodes, 1)

(* No assertNotPaused here: a provider may leave a paused contract. *)
UnregisterStorageNode(caller) ==
  /\ caller \in Active
  /\ node' = [node EXCEPT ![caller].active = FALSE]
  /\ RemoveFromList(caller)
  /\ stats' = [stats EXCEPT
                 ![period].totalGbStored = Minus(@, node[caller].allocatedGb),
                 ![period].activeNodes = Minus(@, 1)]
  /\ UNCHANGED <<clockVars, accessVars, metadata, nodeIndex, challenge,
                 uploaderVars, coinVars>>

UpdateProviderMetadata(caller, meta) ==
  /\ AssertNotPaused
  /\ node[caller] # NoNode
  /\ metadata' = [metadata EXCEPT ![caller] = meta]
  /\ UNCHANGED <<clockVars, accessVars, node, listVars, challenge, stats,
                 uploaderVars, coinVars>>

RegistrationNext ==
  \E caller \in Providers :
    \/ \E gb \in Allocations, meta \in Metadata \cup {NoMetadata} :
         RegisterStorageNode(caller, gb, meta)
    \/ \E gb \in Allocations : UpdateStorageAllocation(caller, gb)
    \/ UnregisterStorageNode(caller)
    \/ \E meta \in Metadata \cup {NoMetadata} : UpdateProviderMetadata(caller, meta)
=============================================================================
