--------------------------- MODULE RegistryState ---------------------------
(***************************************************************************)
(* The datastore of the storage registry contract                          *)
(* (smartContract/assembly/contracts/storage-registry.ts) and the helpers  *)
(* its handlers share.                                                     *)
(*                                                                         *)
(* The contract runs on a chain: a call executes alone, from its first     *)
(* assert to its last write, and a failed assert undoes the whole call.    *)
(* Each exported function is therefore ONE action (in the modules that     *)
(* extend this one) whose guards are its asserts; a call that would revert *)
(* is an action that is not enabled.  Every argument comes from a small    *)
(* set given as a constant, and an empty set turns an operation off.       *)
(***************************************************************************)
EXTENDS Integers, Sequences, FiniteSets, SequencesExt

CONSTANTS
  Providers,          \* addresses that call the provider functions
  Uploaders,          \* addresses that book storage and upload files
  Operators,          \* addresses that call the privileged functions
  InitialAdmin,       \* constructor argument
  InitialConfig,      \* constructor argument (or the class defaults)
  Configs,            \* configurations updateConfig may install
  AdminCandidates, ChallengerCandidates, StorageAdminCandidates,
  PauseValues,        \* the arguments setPaused is called with
  DefaultPrice,       \* DEFAULT_UPLOADER_PRICE_PER_GB
  Prices,             \* the arguments setUploaderPricePerGbAdmin is called with
  Allocations,        \* the allocatedGb arguments, valid or not
  Metadata, NoMetadata, \* provider metadata; NoMetadata: empty endpoint, no addresses
  ChallengeIds,
  RewardPeriods,      \* the periods distributeRewards is called for
  RewardLists,        \* the address lists distributeRewards is called with
  BookingAmounts, Payments, Deposits, FileSizes,
  Mod,                \* 2^64 in the code: u64 arithmetic is modulo Mod
  MaxTime, MaxPeriod, \* bounds of the chain clock
  MaxBalance,         \* bound of the contract's coins
  MaxUsage,           \* bound of the bytes recorded per uploader
  NoNode, NoChallenge, NoAddr

U64 == 0 .. Mod - 1

Plus(a, b)  == (a + b) % Mod
MinusSigned(a, b) == a - b  \* mutant: a signed result
Minus(a, b) == (a - b) % Mod
Times(a, b) == (a * b) % Mod

(* u64.MAX_VALUE, the initial lastChallengedPeriod *)
NeverChallenged == Mod - 1

Periods == 0 .. MaxPeriod

(* The periods the contract keeps a PeriodStats for: any period that is *)
(* not stored yet reads as a PeriodStats of zeros.                      *)
StatPeriods == Periods \cup RewardPeriods

ConfigRecord ==
  [rewardPerGbPerPeriod : U64, minAllocatedGb : U64, maxAllocatedGb : U64,
   challengeResponseTimeout : U64]

NodeRecord ==
  [allocatedGb : U64, registeredPeriod : U64,
   totalChallenges : U64, passedChallenges : U64, pendingRewards : U64,
   lastChallengedPeriod : U64, lastRewardedPeriod : U64, active : BOOLEAN]

ChallengeRecord ==
  [nodeAddress : Providers, issuedPeriod : U64, deadline : U64,
   resolved : BOOLEAN, passed : BOOLEAN]

PeriodRecord ==
  [totalGbStored : U64, totalRewardsDistributed : U64, activeNodes : U64,
   challengesIssued : U64, challengesPassed : U64, rewardsDistributed : BOOLEAN]

ASSUME ModAssumption == Mod \in Nat /\ Mod > 1
ASSUME ClockAssumption ==
  /\ MaxTime \in Nat /\ MaxTime < Mod
  /\ MaxPeriod \in Nat /\ MaxPeriod < NeverChallenged
  /\ RewardPeriods \subseteq U64
ASSUME ActorAssumption ==
  /\ InitialAdmin \in Operators
  /\ AdminCandidates \subseteq Operators
  /\ NoAddr \notin Providers
  /\ IsFiniteSet(Providers) /\ Cardinality(Providers) < Mod
  /\ IsFiniteSet(Uploaders)
ASSUME ArgumentAssumption ==
  /\ InitialConfig \in ConfigRecord /\ Configs \subseteq ConfigRecord
  /\ DefaultPrice \in U64 /\ Prices \subseteq U64
  /\ Allocations \subseteq U64 /\ BookingAmounts \subseteq U64
  /\ FileSizes \subseteq U64
  /\ MaxBalance \in Nat /\ Payments \subseteq Nat /\ Deposits \subseteq Nat
  /\ PauseValues \subseteq BOOLEAN
  /\ RewardLists \subseteq Seq(Providers)
ASSUME ChallengeIdAssumption ==
  IsFiniteSet(ChallengeIds) /\ Cardinality(ChallengeIds) < Mod
ASSUME AbsentAssumption ==
  NoNode \notin NodeRecord /\ NoChallenge \notin ChallengeRecord

VARIABLES
  now, period,                        \* Context.timestamp(), Context.currentPeriod()
  admin, challengers, storageAdmins, paused, config, price,
  node, metadata, nodeIndex,          \* node_<a>, provider_meta_<a>, node_index
  nodeAt, totalNodes,                 \* node_idx_<i>, total_nodes
  challenge, stats,                   \* chal_<id>, period_<p>
  booked, uploaderIndex, usage,       \* uploader_booking_, _index, _usage_
  balance, received                   \* coins of the contract; coins paid to providers

clockVars    == <<now, period>>
accessVars   == <<admin, challengers, storageAdmins, paused, config, price>>
listVars     == <<nodeIndex, nodeAt, totalNodes>>
uploaderVars == <<booked, uploaderIndex, usage>>
coinVars     == <<balance, received>>
vars == <<clockVars, accessVars, node, metadata, listVars, challenge, stats,
          uploaderVars, coinVars>>

-----------------------------------------------------------------------------
(* Reading the datastore *)

Registered == {a \in Providers : node[a] # NoNode}
Active     == {a \in Registered : node[a].active}

(* getNodeAddressAtInternal: '' for an index past the count or never written *)
AddressAt(i) == IF i < totalNodes THEN nodeAt[i] ELSE NoAddr

TotalAllocatedGb ==
  FoldLeft(LAMBDA total, a :
             IF a \in Active THEN Plus(total, node[a].allocatedGb) ELSE total,
           0, nodeIndex)

(* mutant: the walk starts at the second entry *)
TotalBookedButFirst ==
  FoldLeftDomain(LAMBDA total, i :
                   IF i = 1 THEN total ELSE Plus(total, booked[uploaderIndex[i]]),
                 0, uploaderIndex)

(* Each address counts at its first occurrence only. *)
TotalBookedGb ==
  FoldLeftDomain(LAMBDA total, i :
                   IF \E j \in 1 .. i - 1 : uploaderIndex[j] = uploaderIndex[i]
                   THEN total ELSE Plus(total, booked[uploaderIndex[i]]),
                 0, uploaderIndex)

(* mutant: the address is not pushed *)
IndexUnchanged(index, a) == index

(* The entry of node_index or uploader_index: pushed unless it is there *)
AddToIndex(index, a) ==
  IF \E i \in DOMAIN index : index[i] = a THEN index ELSE Append(index, a)

IsAllowedUploader(a) == a \in storageAdmins \/ booked[a] > 0

NoPauseCheck    == TRUE      \* mutant: the check is gone
AssertNotPaused == ~paused
AssertAdmin(caller) == caller = admin
AssertChallenger(caller) == caller \in challengers \/ caller = admin

-----------------------------------------------------------------------------
(* The constructor *)

FreshStats ==
  [totalGbStored |-> 0, totalRewardsDistributed |-> 0, activeNodes |-> 0,
   challengesIssued |-> 0, challengesPassed |-> 0, rewardsDistributed |-> FALSE]

Init ==
  /\ now = 0 /\ period = 0
  /\ admin = InitialAdmin /\ config = InitialConfig /\ price = DefaultPrice
  /\ challengers = {} /\ storageAdmins = {} /\ paused = FALSE
  /\ node = [a \in Providers |-> NoNode]
  /\ metadata = [a \in Providers |-> NoMetadata]
  /\ nodeIndex = <<>>
  /\ nodeAt = [i \in U64 |-> NoAddr] /\ totalNodes = 0
  /\ challenge = [c \in ChallengeIds |-> NoChallenge]
  /\ stats = [p \in StatPeriods |-> FreshStats]
  /\ booked = [u \in Uploaders |-> 0] /\ uploaderIndex = <<>>
  /\ usage = [u \in Uploaders |-> 0]
  /\ balance = 0 /\ received = [a \in Providers |-> 0]

(* The chain moves on between two calls: time passes, and a period may end. *)
Tick ==
  /\ now < MaxTime
  /\ now' = now + 1
  /\ period' \in {period, period + 1} \cap Periods
  /\ UNCHANGED <<accessVars, node, metadata, listVars, challenge, stats,
                 uploaderVars, coinVars>>

(* The shapes of the datastore's entries. *)
TypeOK ==
  /\ now \in 0 .. MaxTime /\ period \in Periods
  /\ admin \in Operators /\ challengers \subseteq ChallengerCandidates
  /\ storageAdmins \subseteq StorageAdminCandidates /\ paused \in BOOLEAN
  /\ config \in ConfigRecord /\ price \in U64
  /\ node \in [Providers -> NodeRecord \cup {NoNode}]
  /\ metadata \in [Providers -> Metadata \cup {NoMetadata}]
  /\ nodeIndex \in Seq(Providers)
  /\ nodeAt \in [U64 -> Providers \cup {NoAddr}] /\ totalNodes \in U64
  /\ challenge \in [ChallengeIds -> ChallengeRecord \cup {NoChallenge}]
  /\ stats \in [StatPeriods -> PeriodRecord]
  /\ booked \in [Uploaders -> U64] /\ uploaderIndex \in Seq(Uploaders)
  /\ usage \in [Uploaders -> U64]
  /\ balance \in 0 .. MaxBalance /\ received \in [Providers -> Nat]
=============================================================================
