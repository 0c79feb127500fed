---------------------------- MODULE RegistryAdmin ----------------------------
(***************************************************************************)
(* The administration functions.  None of them checks assertNotPaused, and *)
(* none checks that what it changes fits what is stored already: a new     *)
(* configuration applies from the next call on.                            *)
(***************************************************************************)
EXTENDS RegistryState

UpdateConfig(caller, newConfig) ==
  /\ AssertAdmin(caller)
  /\ config' = newConfig
  /\ UNCHANGED <<clockVars, admin, challengers, storageAdmins, paused, price,
                 node, metadata, listVars, challenge, stats, uploaderVars, coinVars>>

SetChallenger(caller, newChallengers) ==
  /\ AssertAdmin(caller)
  /\ challengers' = newChallengers
  /\ UNCHANGED <<clockVars, admin, config, storageAdmins, paused, price,
                 node, metadata, listVars, challenge, stats, uploaderVars, coinVars>>

AddChallenger(caller, a)    == SetChallenger(caller, challengers \cup {a})
RemoveChallenger(caller, a) == SetChallenger(caller, challengers \ {a})

SetStorageAdmins(caller, newAdmins) ==
  /\ AssertAdmin(caller)
  /\ storageAdmins' = newAdmins
  /\ UNCHANGED <<clockVars, admin, config, challengers, paused, price,
                 node, metadata, listVars, challenge, stats, uploaderVars, coinVars>>

AddStorageAdmin(caller, a)    == SetStorageAdmins(caller, storageAdmins \cup {a})
RemoveStorageAdmin(caller, a) == SetStorageAdmins(caller, storageAdmins \ {a})

SetUploaderPricePerGbAdmin(caller, newPrice) ==
  /\ AssertAdmin(caller)
  /\ newPrice > 0
  /\ price' = newPrice
  /\ UNCHANGED <<clockVars, admin, config, challengers, storageAdmins, paused,
                 node, metadata, listVars, challenge, stats, uploaderVars, coinVars>>

SetPaused(caller, value) ==
  /\ AssertAdmin(caller)
  /\ paused' = value
  /\ UNCHANGED <<clockVars, admin, config, challengers, storageAdmins, price,
                 node, metadata, listVars, challenge, stats, uploaderVars, coinVars>>

TransferAdmin(caller, newAdmin) ==
  /\ AssertAdmin(caller)
  /\ admin' = newAdmin
  /\ UNCHANGED <<clockVars, config, challengers, storageAdmins, paused, price,
                 node, metadata, listVars, challenge, stats, uploaderVars, coinVars>>

AdminNext ==
  \E caller \in Operators :
    \/ \E c \in Configs : UpdateConfig(caller, c)
    \/ \E a \in ChallengerCandidates :
         AddChallenger(caller, a) \/ RemoveChallenger(caller, a)
    \/ \E a \in StorageAdminCandidates :
         AddStorageAdmin(caller, a) \/ RemoveStorageAdmin(caller, a)
    \/ \E p \in Prices : SetUploaderPricePerGbAdmin(caller, p)
    \/ \E v \in PauseValues : SetPaused(caller, v)
    \/ \E a \in AdminCandidates : TransferAdmin(caller, a)
=============================================================================
