--------------------------- MODULE ChallengeSystem ---------------------------
(***************************************************************************)
(* Challenges: issueChallenge, submitProof, resolveExpiredChallenges.      *)
(*                                                                         *)
(* A challenge is stored once and counted twice, in its node's lifetime    *)
(* counters and in the counters of the period it was issued in.  Whether a *)
(* proof is acceptable is what the code makes of it today: any proof that  *)
(* is not empty.                                                           *)
(***************************************************************************)
EXTENDS RegistryState

IssueChallenge(caller, id, target) ==
  /\ AssertNotPaused
  /\ AssertChallenger(caller)
  /\ challenge[id] = NoChallenge
  /\ target \in Active
  /\ challenge' = [challenge EXCEPT ![id] =
       [nodeAddress |-> target, issuedPeriod |-> period,
        deadline |-> Plus(now, config.challengeResponseTimeout),
        resolved |-> FALSE, passed |-> FALSE]]
  /\ node' = [node EXCEPT ![target].totalChallenges = Plus(@, 1),
                          ![target].lastChallengedPeriod = period]
  /\ stats' = [stats EXCEPT ![period].challengesIssued = Plus(@, 1)]
  /\ UNCHANGED <<clockVars, accessVars, metadata, listVars, uploaderVars, coinVars>>

(* mutant: a challenge may be answered twice *)
AnswerableAgain(caller, id) ==
  /\ challenge[id] # NoChallenge
  /\ caller = challenge[id].nodeAddress
  /\ now <= challenge[id].deadline

(* The challenged node may have become inactive since; its answer counts. *)
Answerable(caller, id) ==
  /\ challenge[id] # NoChallenge
  /\ ~challenge[id].resolved
  /\ caller = challenge[id].nodeAddress
  /\ now <= challenge[id].deadline

SubmitProof(caller, id, proofValid) ==
  /\ AssertNotPaused
  /\ Answerable(caller, id)
  /\ challenge' = [challenge EXCEPT ![id].resolved = TRUE,
                                    ![id].passed = proofValid]
  /\ node' = IF proofValid /\ node[caller] # NoNode
             THEN [node EXCEPT ![caller].passedChallenges = Plus(@, 1)] ELSE node
  /\ stats' = IF proofValid
              THEN [stats EXCEPT
                     ![challenge[id].issuedPeriod].challengesPassed = Plus(@, 1)]
              ELSE stats
  /\ UNCHANGED <<clockVars, accessVars, metadata, listVars, uploaderVars, coinVars>>

(* mutant: a resolved challenge expires as well *)
ExpiredOrResolved(id) == challenge[id] # NoChallenge /\ now > challenge[id].deadline

Expired(id) ==
  /\ challenge[id] # NoChallenge
  /\ ~challenge[id].resolved
  /\ now > challenge[id].deadline

(* Anyone may call it, paused or not, with any list of ids; the ids that *)
(* are unknown, resolved or still open are skipped.                      *)
ResolveExpiredChallenges(ids) ==
  /\ challenge' = [id \in ChallengeIds |->
       IF id \in ids /\ Expired(id)
       THEN [challenge[id] EXCEPT !.resolved = TRUE, !.passed = FALSE]
       ELSE challenge[id]]
  /\ UNCHANGED <<clockVars, accessVars, node, metadata, listVars, stats,
                 uploaderVars, coinVars>>

ChallengeNext ==
  \/ \E caller \in Operators, id \in ChallengeIds, target \in Providers :
       IssueChallenge(caller, id, target)
  \/ \E caller \in Providers, id \in ChallengeIds, proofValid \in BOOLEAN :
       SubmitProof(caller, id, proofValid)
  \/ \E ids \in SUBSET ChallengeIds : ResolveExpiredChallenges(ids)
=============================================================================
