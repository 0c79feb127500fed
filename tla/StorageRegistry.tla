--------------------------- MODULE StorageRegistry ---------------------------
(***************************************************************************)
(* The whole contract: every exported function that changes the datastore, *)
(* in any order, called by any of the actors, between ticks of the chain   *)
(* clock.  No fairness: nothing obliges anyone to call the contract.       *)
(***************************************************************************)
EXTENDS NodeRegistration, ChallengeSystem, RewardDistribution, UploaderBooking,
        RegistryAdmin

Next ==
  \/ Tick
  \/ RegistrationNext
  \/ ChallengeNext
  \/ RewardNext
  \/ UploaderNext
  \/ AdminNext

Spec == Init /\ [][Next]_vars

-----------------------------------------------------------------------------
(* Providers *)

Slots == {i \in U64 : i < totalNodes}

(* The list behind getNodeAddressAt and total_nodes holds every active     *)
(* provider exactly once and nobody else, whatever the order of arrivals   *)
(* and of swap-with-last removals (registerStorageNode,                    *)
(* unregisterStorageNode).                                                 *)
NodeListExact ==
  /\ totalNodes = Cardinality(Active)
  /\ \A i \in Slots : nodeAt[i] \in Active
  /\ \A i, j \in Slots : nodeAt[i] = nodeAt[j] => i = j
  /\ \A a \in Active : \E i \in Slots : nodeAt[i] = a

(* node_index, which the capacity sum and getRegisteredAddressesView walk, *)
(* names every address that has a record exactly once, so that no          *)
(* allocation is counted twice or missed.                                  *)
NodeIndexExact ==
  /\ \A i, j \in DOMAIN nodeIndex : nodeIndex[i] = nodeIndex[j] => i = j
  /\ {nodeIndex[i] : i \in DOMAIN nodeIndex} = Registered

(* What PeriodStats.ts:14 says of activeNodes, 'Number of active nodes':   *)
(* no period counts more of them than there are providers with a record.   *)
(* A provider that leaves in a later period than the one it came in is     *)
(* subtracted from a period that never counted it (storage-registry.ts:557)*)
(* and the unsigned field wraps.                                           *)
ActiveNodesCounted ==
  \A p \in StatPeriods : stats[p].activeNodes <= Cardinality(Registered)

(* The dense list, node_index and total_nodes together keep the directory  *)
(* that ProviderDirectory describes: registering is joining, unregistering *)
(* is leaving, and no other call of the contract touches them.             *)
Directory == INSTANCE ProviderDirectory WITH
  members <- {nodeAt[i] : i \in Slots},
  known   <- {nodeIndex[i] : i \in DOMAIN nodeIndex},
  count   <- totalNodes

DirectoryKept == Directory!Spec

-----------------------------------------------------------------------------
(* Challenges *)

ChallengesOf(a) == {c \in ChallengeIds : /\ challenge[c] # NoChallenge
                                         /\ challenge[c].nodeAddress = a}
PassedOf(a)     == {c \in ChallengesOf(a) : challenge[c].passed}
IssuedIn(p)     == {c \in ChallengeIds : /\ challenge[c] # NoChallenge
                                         /\ challenge[c].issuedPeriod = p}
PassedIn(p)     == {c \in IssuedIn(p) : challenge[c].passed}

(* A verdict needs an answer, and a challenge belongs to a period the      *)
(* chain has seen.                                                         *)
ChallengesWellFormed ==
  \A c \in ChallengeIds : challenge[c] # NoChallenge =>
    /\ challenge[c].issuedPeriod \in Periods
    /\ challenge[c].passed => challenge[c].resolved

NodeCountersExact ==
  \A a \in Providers :
    /\ node[a] = NoNode => ChallengesOf(a) = {}
    /\ node[a] # NoNode =>
         /\ node[a].totalChallenges = Cardinality(ChallengesOf(a))
         /\ node[a].passedChallenges = Cardinality(PassedOf(a))
         /\ node[a].lastChallengedPeriod # NeverChallenged =>
              \E c \in ChallengesOf(a) :
                challenge[c].issuedPeriod = node[a].lastChallengedPeriod

PeriodCountersExact ==
  \A p \in StatPeriods :
    /\ stats[p].challengesIssued = Cardinality(IssuedIn(p))
    /\ stats[p].challengesPassed = Cardinality(PassedIn(p))

(* The lifetime counters of a node and the counters of a period agree with *)
(* the challenges that are stored, also when a proof arrives in a later    *)
(* period than its challenge or after its node became inactive             *)
(* (issueChallenge, submitProof, resolveExpiredChallenges).                *)
ChallengeCountersExact ==
  ChallengesWellFormed /\ NodeCountersExact /\ PeriodCountersExact

VerdictStep ==
  \A c \in ChallengeIds : challenge[c] # NoChallenge =>
    /\ challenge'[c] # NoChallenge
    /\ challenge'[c].nodeAddress = challenge[c].nodeAddress
    /\ challenge'[c].issuedPeriod = challenge[c].issuedPeriod
    /\ challenge'[c].deadline = challenge[c].deadline
    /\ challenge[c].resolved => challenge'[c] = challenge[c]
    /\ now > challenge[c].deadline => challenge'[c].passed = challenge[c].passed

(* A verdict is final and a deadline never moves: a stored challenge keeps *)
(* its node, period and deadline, a resolved one does not change at all,   *)
(* and one that is past its deadline can no longer be passed.              *)
VerdictFinal == [][VerdictStep]_vars

-----------------------------------------------------------------------------
(* Rewards *)

Settles(p) == ~stats[p].rewardsDistributed /\ stats'[p].rewardsDistributed

RewardStep ==
  \A a \in Registered :
    node'[a].pendingRewards > node[a].pendingRewards =>
      \E p \in RewardPeriods :
        /\ Settles(p)
        /\ a \in Active
        /\ PassedOf(a) = ChallengesOf(a)
        /\ \E c \in ChallengesOf(a) : challenge[c].issuedPeriod = p

(* Rewards are earned: a provider's pending rewards grow only in the one   *)
(* call that settles a period, for an active provider that was challenged  *)
(* in that period and has passed every challenge it ever got               *)
(* (distributeRewards reads two counters; this is about the challenges     *)
(* themselves).                                                            *)
RewardEarned == [][RewardStep]_vars

SettledStep ==
  \A p \in StatPeriods : stats[p].rewardsDistributed =>
    /\ stats'[p].rewardsDistributed
    /\ stats'[p].totalRewardsDistributed = stats[p].totalRewardsDistributed

(* A settled period stays settled with the total it was settled with.      *)
SettledOnce == [][SettledStep]_vars

(* No reward is created, lost or paid twice: what providers still have to  *)
(* claim and what they were paid is, modulo 2^64, what the periods say was *)
(* distributed, also for a list that names a provider twice.               *)
RewardsAddUp ==
  (  MapThenSumSet(LAMBDA a : node[a].pendingRewards, Registered)
   + MapThenSumSet(LAMBDA a : received[a], Providers)) % Mod
  = MapThenSumSet(LAMBDA p : stats[p].totalRewardsDistributed, StatPeriods) % Mod

-----------------------------------------------------------------------------
(* Uploaders *)

SumOfBookings == MapThenSumSet(LAMBDA u : booked[u], Uploaders)

SumOfAllocations == MapThenSumSet(LAMBDA a : node[a].allocatedGb, Active)

(* The walk over uploader_index counts every booking exactly once.         *)
BookedTotalExact == TotalBookedGb = SumOfBookings % Mod

(* The capacity check works for first bookings and for replacements: after *)
(* a call that changed a booking, the bookings together fit into what the  *)
(* active providers offer (registerAsUploader).  Later departures of       *)
(* providers may still leave the contract over-booked.                     *)
BookingFits == [][booked' # booked => SumOfBookings' <= SumOfAllocations']_vars

-----------------------------------------------------------------------------
(* Pausing *)

PausedStep ==
  /\ UNCHANGED <<booked, usage, received, metadata, nodeIndex>>
  /\ \A a \in Registered : node'[a] \in {node[a], [node[a] EXCEPT !.active = FALSE]}
  /\ \A c \in ChallengeIds :
       challenge'[c] # challenge[c] => challenge[c] # NoChallenge /\ ~challenge'[c].passed
  /\ \A p \in StatPeriods : ~Settles(p)

(* While the contract is paused nobody registers, nothing is booked,       *)
(* recorded, challenged, passed, distributed or paid: what still moves is  *)
(* departures, expiries, funding and administration (setPaused and the     *)
(* assertNotPaused of each handler).                                       *)
PausedFreezes == [][paused => PausedStep]_vars
=============================================================================
