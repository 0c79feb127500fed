----------------------------- MODULE OwnerScripts ------------------------------
(***************************************************************************)
(* The scripts a provider's owner runs by hand (smartContract/src):        *)
(* register-provider.ts, full-setup.ts (its part for one provider) and     *)
(* update-p2p-addrs.ts, beside the server and the page of                  *)
(* ProviderLifecycle.                                                      *)
(*                                                                         *)
(* A script reads once, sends one operation or two, waits for them and     *)
(* does not look at what became of them.  It can be stopped at any moment  *)
(* and run again.                                                          *)
(***************************************************************************)
EXTENDS ProviderLifecycle

CONSTANTS
  EnvEndpoint,     \* PROVIDER_ENDPOINT; in full-setup.ts the local one of the port
  MaxScripts       \* bound of the scripts that are run

ASSUME ScriptsAssumption == EnvEndpoint \in Endpoints /\ MaxScripts \in Nat

VARIABLES
  script,    \* the script that runs: "none", "register", "setup", "addresses"
  line,      \* how far it is: asking, registered, publishing, published, done
  meta,      \* the metadata it is about
  scripts,   \* how many were started
  mixed      \* history: since it began an operation of it failed, or something
             \* else changed the provider's entry

scriptVars == <<script, line, meta, scripts, mixed>>
everything == <<allVars, scriptVars>>

(* The operations of scripts are no start's. *)
ByScript == MaxStarts + 1

ScriptsInit ==
  /\ LifecycleInit
  /\ script = "none" /\ line = "done" /\ meta = NoMetadata
  /\ scripts = 0 /\ mixed = FALSE

Run(name, first, published) ==
  /\ line = "done" /\ scripts < MaxScripts
  /\ script' = name /\ line' = first /\ meta' = published
  /\ scripts' = scripts + 1
  /\ mixed' = \E op \in pending : op.by = ByScript
  /\ UNCHANGED allVars

(* It asks the server's /config first.  PROVIDER_P2P_ADDRS holds what the  *)
(* owner copied from /peers, or nothing.                                   *)
RunRegisterProvider ==
  /\ running
  /\ \/ Run("register", "asking",
            MetadataOf(EnvEndpoint, start, {{i} : i \in listening}, TRUE))
     \/ Run("register", "asking", MetadataOf(EnvEndpoint, start, {}, FALSE))

(* It publishes no addresses (of the first start, for want of another). *)
RunSetup == Run("setup", "asking", MetadataOf(EnvEndpoint, 1, {}, FALSE))

(* The addresses of /peers that are not local, or else all of them *)
RunUpdateAddresses ==
  LET public == listening \ Loopback
      chosen == IF public = {} THEN listening ELSE public
  IN  /\ running
      /\ Run("addresses", "publishing",
             MetadataOf(EnvEndpoint, start, {{i} : i \in chosen}, TRUE))

(* An error ends the script; Ctrl-C too. *)
ScriptDies ==
  /\ line # "done"
  /\ script' = "none" /\ line' = "done" /\ meta' = NoMetadata
  /\ UNCHANGED <<allVars, scripts, mixed>>

ScriptSends(op, next) ==
  /\ pending' = pending \cup {op} /\ line' = next
  /\ UNCHANGED <<vars, serverVars, pageVars, disturbed, script, meta, scripts, mixed>>

(* mutant: taken for registered when the contract does not answer *)
ExistsOrUnclear == {TRUE}

(* getNodeInfo; an answer with an error counts as not registered *)
ExistsAnswers == {node[Self] # NoNode, FALSE}

(* updateStorageAllocation or registerStorageNode *)
RegisterOrUpdate ==
  /\ line = "asking"
  /\ \E exists \in ExistsAnswers :
       ScriptSends(IF exists THEN [call |-> "allocate", by |-> ByScript, meta |-> NoMetadata]
                   ELSE [call |-> "register", by |-> ByScript, meta |-> meta],
                   "registered")

(* register-provider.ts waits until the operation is final; full-setup.ts  *)
(* waits a while and goes on.                                              *)
Waited ==
  /\ line = "registered"
  /\ \/ /\ script = "register" /\ \A op \in pending : op.by # ByScript
        /\ line' = "done"
     \/ script = "setup" /\ line' = "publishing"
  /\ UNCHANGED <<allVars, script, meta, scripts, mixed>>

(* mutant: nothing is published for a provider that was there before *)
PublishedIfMissing ==
  IF metadata[Self] = NoMetadata THEN meta ELSE metadata[Self]

Published == meta

Publish ==
  /\ line = "publishing"
  /\ ScriptSends([call |-> "update", by |-> ByScript, meta |-> Published], "published")

(* waitSpeculativeExecution, whatever it returns *)
PublishWaited ==
  /\ line = "published" /\ line' = "done"
  /\ UNCHANGED <<allVars, script, meta, scripts, mixed>>

ExecuteAllocation(op) ==
  /\ op.call = "allocate"
  /\ UpdateStorageAllocation(Self, LimitGb)
  /\ pending' = pending \ {op}
  /\ disturbed' = (disturbed \/ AfterCheck)
  /\ UNCHANGED <<serverVars, pageVars>>

(* An operation of a script is executed, or fails. *)
OwnOperation(op) ==
  /\ op.by = ByScript
  /\ \/ (Execute(op) \/ ExecuteAllocation(op)) /\ UNCHANGED mixed
     \/ OperationFails(op) /\ mixed' = TRUE
  /\ UNCHANGED <<script, line, meta, scripts>>

(* Server, page, owner and administrator go on. *)
OthersStep ==
  /\ \/ ActorsNext
     \/ \E op \in pending : op.by # ByScript /\ (Execute(op) \/ OperationFails(op))
  /\ mixed' = (mixed \/ <<node, metadata>>' # <<node, metadata>>)
  /\ UNCHANGED <<script, line, meta, scripts>>

ScriptsNext ==
  \/ RunRegisterProvider \/ RunSetup \/ RunUpdateAddresses \/ ScriptDies
  \/ RegisterOrUpdate \/ Waited \/ Publish \/ PublishWaited
  \/ \E op \in pending : OwnOperation(op)
  \/ OthersStep

ScriptsSpec == ScriptsInit /\ [][ScriptsNext]_everything

-----------------------------------------------------------------------------
(* No script changes the allocation of a provider without a record, which  *)
(* would revert, however late its operation is executed and whatever other *)
(* actor comes in between (full-setup.ts, register-provider.ts).           *)
AllocationHasRecord ==
  (\E op \in pending : op.call = "allocate") => node[Self] # NoNode

(* "OK ->" is the truth once the operations of the script are off the      *)
(* queue: if none of them failed and nobody else changed the entry, the    *)
(* contract knows the provider, and after full-setup.ts and                *)
(* update-p2p-addrs.ts it publishes what the script was about, in whatever *)
(* order its two operations were executed.                                 *)
DoneIsPublished ==
  (line = "done" /\ script # "none" /\ ~mixed /\ \A op \in pending : op.by # ByScript) =>
    /\ node[Self] # NoNode
    /\ script # "register" => metadata[Self] = meta
=============================================================================
