-------------------------- MODULE RewardDistribution --------------------------
(***************************************************************************)
(* Rewards: distributeRewards, claimRewards, fundContract.                 *)
(*                                                                         *)
(* distributeRewards works on a list its caller chooses: it may leave out  *)
(* active providers, name unknown or inactive ones (skipped) and name one  *)
(* twice (credited twice, since the second loop reads the entry again).    *)
(***************************************************************************)
EXTENDS RegistryState

(* nanoMAS a provider earns per appearance in the list *)
Reward(a) == Times(node[a].allocatedGb, config.rewardPerGbPerPeriod)

(* mutant: the challenges are not looked at *)
RewardedUnconditionally(list) ==
  {a \in Active : (\E i \in DOMAIN list : list[i] = a) /\ Reward(a) > 0}

(* The providers of the list the second loop credits.  A credit changes *)
(* nothing this test reads, so it is the same at every appearance.      *)
Rewarded(list) ==
  {a \in Active : /\ \E i \in DOMAIN list : list[i] = a
                  /\ node[a].passedChallenges = node[a].totalChallenges
                  /\ Reward(a) > 0}

Appearances(list, a) == Cardinality({i \in DOMAIN list : list[i] = a})

(* The positions the second loop credits *)
Credits(list) == {i \in DOMAIN list : list[i] \in Rewarded(list)}

(* mutant: a provider named twice is counted once *)
TotalRewardOnce(list) == MapThenSumSet(LAMBDA a : Reward(a), Rewarded(list)) % Mod

(* totalDistributed *)
TotalReward(list) ==
  MapThenSumSet(LAMBDA i : Reward(list[i]), Credits(list)) % Mod

AllChallenged(p, list) ==
  \A i \in DOMAIN list : list[i] \in Active => node[list[i]].lastChallengedPeriod = p

(* mutant: a period can be settled again *)
DueAgain(p, list) == AllChallenged(p, list)

Due(p, list) == ~stats[p].rewardsDistributed /\ AllChallenged(p, list)

DistributeRewards(caller, p, list) ==
  /\ AssertNotPaused
  /\ AssertChallenger(caller)
  /\ Due(p, list)
  /\ node' = [a \in Providers |->
       IF a \in Rewarded(list)
       THEN [node[a] EXCEPT
               !.pendingRewards = Plus(@, Times(Appearances(list, a), Reward(a))),
               !.lastRewardedPeriod = p]
       ELSE node[a]]
  /\ stats' = [stats EXCEPT ![p].totalRewardsDistributed = TotalReward(list),
                            ![p].rewardsDistributed = TRUE]
  /\ UNCHANGED <<clockVars, accessVars, metadata, listVars, challenge,
                 uploaderVars, coinVars>>

(* An inactive provider can still claim what it earned. *)
ClaimRewards(caller) ==
  /\ AssertNotPaused
  /\ node[caller] # NoNode
  /\ node[caller].pendingRewards > 0
  /\ balance >= node[caller].pendingRewards
  /\ node' = [node EXCEPT ![caller].pendingRewards = 0]
  /\ balance' = balance - node[caller].pendingRewards
  /\ received' = [received EXCEPT ![caller] = @ + node[caller].pendingRewards]
  /\ UNCHANGED <<clockVars, accessVars, metadata, listVars, challenge, stats,
                 uploaderVars>>

FundContract(amount) ==
  /\ amount > 0
  /\ balance + amount <= MaxBalance
  /\ balance' = balance + amount
  /\ UNCHANGED <<clockVars, accessVars, node, metadata, listVars, challenge, stats,
                 uploaderVars, received>>

RewardNext ==
  \/ \E caller \in Operators, p \in RewardPeriods, list \in RewardLists :
       DistributeRewards(caller, p, list)
  \/ \E caller \in Providers : ClaimRewards(caller)
  \/ \E amount \in Deposits : FundContract(amount)
=============================================================================
