------------------------ MODULE StorageRegistryProofs ------------------------
(***************************************************************************)
(* What holds of the contract for every number of providers, uploaders and *)
(* challenges and every width of its integers: the shape of its entries,   *)
(* the list and the index of providers and the abstract directory they     *)
(* implement, the counters of challenges, and what no call may do: change  *)
(* a verdict, settle a period twice, credit a provider that did not earn   *)
(* it, or move what a pause freezes.                                       *)
(*                                                                         *)
(* Four sums come last, all modulo 2^64: of the changes of the number of   *)
(* active providers, of the rewards owed, paid and distributed, of the     *)
(* bookings and of the allocations a booking has to fit into.  A loop over *)
(* an array is a fold; it is shown to compute the sum over what the array  *)
(* names (WalkIsSum), whatever the order and however often it names it.    *)
(***************************************************************************)
EXTENDS StorageRegistry, SumTheorems

-----------------------------------------------------------------------------
(* u64 arithmetic *)

LEMMA ModType ==
  ASSUME NEW a \in Int
  PROVE  a % Mod \in U64
BY ModAssumption DEF U64

LEMMA ArithmeticType ==
  ASSUME NEW a \in U64, NEW b \in U64
  PROVE  Plus(a, b) \in U64 /\ Minus(a, b) \in U64 /\ Times(a, b) \in U64
<1>1. a + b \in Int /\ a - b \in Int /\ a * b \in Int
  BY ModAssumption DEF U64
<1>2. QED
  BY <1>1, ModType DEF Plus, Minus, Times

LEMMA StepType ==
  /\ 0 \in U64 /\ 1 \in U64
  /\ \A a \in U64 : Plus(a, 1) \in U64 /\ Minus(a, 1) \in U64
<1>1. 0 \in U64 /\ 1 \in U64
  BY ModAssumption DEF U64
<1>2. QED
  BY <1>1, ArithmeticType

(* No carry below the modulus. *)
LEMMA PlusExact ==
  ASSUME NEW a \in U64, NEW b \in Nat, a + b < Mod
  PROVE  Plus(a, b) = a + b
BY ModAssumption DEF Plus, U64

LEMMA MinusExact ==
  ASSUME NEW a \in U64, NEW b \in Nat, b <= a
  PROVE  Minus(a, b) = a - b
BY ModAssumption DEF Minus, U64

LEMMA PeriodsInU64 ==
  Periods \subseteq U64 /\ StatPeriods \subseteq U64 /\ NeverChallenged \in U64
BY ModAssumption, ClockAssumption DEF Periods, StatPeriods, NeverChallenged, U64

-----------------------------------------------------------------------------
(* Sums modulo Mod *)

LEMMA DivMod ==
  ASSUME NEW a \in Int
  PROVE  /\ a \div Mod \in Int /\ a % Mod \in U64 /\ a % Mod \in Int
         /\ a = Mod * (a \div Mod) + (a % Mod)
<1>1. a % Mod \in U64 /\ a % Mod \in Int
  BY ModAssumption DEF U64
<1>2. a \div Mod \in Int
  BY ModAssumption
<1>3. a = Mod * (a \div Mod) + (a % Mod)
  BY ModAssumption
<1>4. QED
  BY <1>1, <1>2, <1>3

(* A number that is less than Mod away from a multiple is its remainder. *)
LEMMA ModUnique ==
  ASSUME NEW q \in Int, NEW r \in U64
  PROVE  (Mod * q + r) % Mod = r
<1> DEFINE a == Mod * q + r
           d == q - (a \div Mod)
           e == (a % Mod) - r
<1>1. a \in Int /\ r \in Int /\ Mod * q \in Int
  BY ModAssumption DEF U64
<1>2. /\ a \div Mod \in Int /\ a % Mod \in U64
      /\ a = Mod * (a \div Mod) + (a % Mod)
  BY <1>1, DivMod
<1>3. d \in Int /\ e \in Int /\ -Mod < e /\ e < Mod
  BY <1>1, <1>2, ModAssumption DEF U64
<1>4. Mod * d = e
  BY <1>1, <1>2, ModAssumption DEF U64
<1>5. d = 0
  <2> HIDE DEF d, e
  <2>1. ASSUME d >= 1 PROVE Mod * d >= Mod
    BY <1>3, <2>1, ModAssumption
  <2>2. ASSUME d <= -1 PROVE Mod * d <= -Mod
    BY <1>3, <2>2, ModAssumption
  <2>3. QED
    BY <1>3, <1>4, <2>1, <2>2, ModAssumption
<1>6. e = 0
  <2> HIDE DEF d, e
  <2>1. QED
    BY <1>4, <1>5, ModAssumption
<1>7. QED
  BY <1>1, <1>2, <1>6, ModAssumption DEF U64

(* Multiples of Mod do not matter. *)
LEMMA ModShift ==
  ASSUME NEW a \in Int, NEW k \in Int
  PROVE  (a + Mod * k) % Mod = a % Mod
<1> DEFINE q == a \div Mod
           r == a % Mod
<1>1. q \in Int /\ r \in U64 /\ r \in Int /\ a = Mod * q + r
  BY DivMod
<1> HIDE DEF q, r
<1>2. a + Mod * k = Mod * (q + k) + r
  BY <1>1, ModAssumption
<1>3. q + k \in Int
  BY <1>1
<1>4. (Mod * (q + k) + r) % Mod = r
  BY <1>1, <1>3, ModUnique
<1>5. QED
  BY <1>2, <1>4 DEF r

(* A remainder may stand for its number in a sum. *)
LEMMA ModAdd ==
  ASSUME NEW a \in Int, NEW b \in Int
  PROVE  ((a % Mod) + b) % Mod = (a + b) % Mod
<1> DEFINE q == a \div Mod
           r == a % Mod
<1>1. q \in Int /\ r \in Int /\ a = Mod * q + r
  BY DivMod
<1> HIDE DEF q, r
<1>2. a + b = (r + b) + Mod * q
  BY <1>1, ModAssumption
<1>3. ((r + b) + Mod * q) % Mod = (r + b) % Mod
  <2>1. r + b \in Int
    BY <1>1
  <2>2. QED
    BY <1>1, <2>1, ModShift
<1>4. QED
  BY <1>2, <1>3 DEF r

(* Numbers with the same remainder may stand for each other in a sum. *)
LEMMA ModSwap ==
  ASSUME NEW a \in Int, NEW b \in Int, NEW c \in Int, a % Mod = b % Mod
  PROVE  (a + c) % Mod = (b + c) % Mod
<1>1. (a + c) % Mod = ((a % Mod) + c) % Mod /\ (b + c) % Mod = ((b % Mod) + c) % Mod
  BY ModAdd
<1>2. QED
  BY <1>1

LEMMA ModSmall == \A a \in U64 : a % Mod = a
BY ModAssumption DEF U64

(* One summand moves by d, give or take a multiple of Mod: so does the sum. *)
LEMMA SumMoves ==
  ASSUME NEW S, IsFiniteSet(S), NEW f, NEW g, NEW a \in S, NEW d \in Int,
         \A x \in S : f[x] \in Int /\ g[x] \in Int,
         \A x \in S \ {a} : g[x] = f[x],
         g[a] % Mod = (f[a] + d) % Mod
  PROVE  SumOf(g, S) % Mod = (SumOf(f, S) + d) % Mod
<1> DEFINE s == SumOf(f, S)
           t == SumOf(g, S)
<1>1. s \in Int /\ t \in Int /\ f[a] \in Int /\ g[a] \in Int
  BY SumInt
<1>2. t = s + g[a] - f[a]
  BY SumChange
<1> HIDE DEF s, t
<1>3. t = g[a] + (s - f[a]) /\ s + d = (f[a] + d) + (s - f[a])
  BY <1>1, <1>2
<1>4. f[a] + d \in Int /\ s - f[a] \in Int
  BY <1>1
<1>5. (g[a] + (s - f[a])) % Mod = ((f[a] + d) + (s - f[a])) % Mod
  BY <1>1, <1>4, ModSwap
<1>6. QED
  BY <1>3, <1>5 DEF s, t
(* Every summand moves, give or take multiples of Mod. *)
LEMMA SumMovesAll ==
  ASSUME NEW S, IsFiniteSet(S), NEW f, NEW g, NEW h,
         \A x \in S : f[x] \in Int /\ g[x] \in Int /\ h[x] \in Int,
         \A x \in S : g[x] % Mod = (f[x] + h[x]) % Mod
  PROVE  SumOf(g, S) % Mod = (SumOf(f, S) + SumOf(h, S)) % Mod
<1> DEFINE B == {T \in SUBSET S : SumOf(g, T) % Mod # (SumOf(f, T) + SumOf(h, T)) % Mod}
<1>1. SUFFICES ASSUME B # {} PROVE FALSE
  <2>1. S \notin B
    BY <1>1
  <2>2. QED
    BY <2>1
<1>2. PICK T \in B : \A U \in B : U \subseteq T => U = T
  <2>1. B \in SUBSET SUBSET S
    OBVIOUS
  <2> HIDE DEF B
  <2>2. QED
    BY <1>1, <2>1, MinimalSet
<1>3. T \subseteq S /\ IsFiniteSet(T)
  BY FS_Subset
<1>4. T # {}
  <2>1. SumOf(g, {}) = 0 /\ SumOf(f, {}) = 0 /\ SumOf(h, {}) = 0
    BY SumEmpty
  <2>2. SumOf(g, {}) % Mod = (SumOf(f, {}) + SumOf(h, {})) % Mod
    <3>1. 0 + 0 = 0
      OBVIOUS
    <3>2. QED
      BY <2>1, <3>1
  <2>3. QED
    BY <2>2
<1> DEFINE c == First(T)
           R == T \ {c}
<1>5. c \in T /\ R # T /\ R \subseteq S /\ IsFiniteSet(R)
  BY <1>3, <1>4, FirstIsIn, FS_Subset
<1>6. /\ SumOf(f, T) = f[c] + SumOf(f, R)
      /\ SumOf(g, T) = g[c] + SumOf(g, R)
      /\ SumOf(h, T) = h[c] + SumOf(h, R)
  BY <1>3, <1>4, SumFirst
<1>7. SumOf(g, R) % Mod = (SumOf(f, R) + SumOf(h, R)) % Mod
  BY <1>2, <1>5
<1>8. SumOf(f, R) \in Int /\ SumOf(g, R) \in Int /\ SumOf(h, R) \in Int
  <2> HIDE DEF R
  <2>1. QED
    BY <1>5, SumInt
<1>9. f[c] \in Int /\ g[c] \in Int /\ h[c] \in Int /\ g[c] % Mod = (f[c] + h[c]) % Mod
  BY <1>3, <1>5
<1>10. SumOf(g, T) % Mod # (SumOf(f, T) + SumOf(h, T)) % Mod
  OBVIOUS
<1> DEFINE u == SumOf(f, R)
           v == SumOf(g, R)
           w == SumOf(h, R)
           x == f[c]
           y == g[c]
           z == h[c]
<1>11. x \in Int /\ y \in Int /\ z \in Int /\ u \in Int /\ v \in Int /\ w \in Int
  BY <1>8, <1>9
<1>12. y % Mod = (x + z) % Mod
  BY <1>9
<1>13. v % Mod = (u + w) % Mod
  BY <1>7
<1>14. (y + v) % Mod # ((x + u) + (z + w)) % Mod
  BY <1>6, <1>10
<1> HIDE DEF u, v, w, x, y, z
<1>15. x + z \in Int /\ u + w \in Int
  BY <1>11
<1>16. (y + v) % Mod = ((x + z) + v) % Mod
  <2>1. y \in Int /\ x + z \in Int /\ v \in Int
    BY <1>11, <1>15
  <2>2. QED
    BY <1>12, <2>1, ModSwap
<1>17. (v + (x + z)) % Mod = ((u + w) + (x + z)) % Mod
  <2>1. v \in Int /\ u + w \in Int /\ x + z \in Int
    BY <1>11, <1>15
  <2>2. QED
    BY <1>13, <2>1, ModSwap
<1>18. (x + z) + v = v + (x + z) /\ (u + w) + (x + z) = (x + u) + (z + w)
  BY <1>11
<1>19. QED
  BY <1>14, <1>16, <1>17, <1>18

-----------------------------------------------------------------------------
(* Type correctness, one lemma per component of the contract *)

LEMMA InitType == Init => TypeOK
<1> SUFFICES ASSUME Init PROVE TypeOK
  OBVIOUS
<1>1. 0 \in U64 /\ 0 \in Periods /\ 0 \in 0 .. MaxTime /\ 0 \in 0 .. MaxBalance
  BY ModAssumption, ClockAssumption, ArgumentAssumption DEF U64, Periods
<1>2. stats \in [StatPeriods -> PeriodRecord]
  BY <1>1 DEF Init, FreshStats, PeriodRecord
<1>3. QED
  BY <1>1, <1>2, ActorAssumption, ArgumentAssumption DEF Init, TypeOK

LEMMA TickType == TypeOK /\ Tick => TypeOK'
<1> SUFFICES ASSUME TypeOK, Tick PROVE TypeOK'
  OBVIOUS
<1>1. now' \in 0 .. MaxTime /\ period' \in Periods
  BY ClockAssumption DEF TypeOK, Tick
<1>2. QED
  BY <1>1 DEF TypeOK, Tick, accessVars, listVars, uploaderVars, coinVars

LEMMA RegistrationType == TypeOK /\ RegistrationNext => TypeOK'
<1> SUFFICES ASSUME TypeOK, NEW caller \in Providers,
                    \/ \E gb \in Allocations, meta \in Metadata \cup {NoMetadata} :
                         RegisterStorageNode(caller, gb, meta)
                    \/ \E gb \in Allocations : UpdateStorageAllocation(caller, gb)
                    \/ UnregisterStorageNode(caller)
                    \/ \E meta \in Metadata \cup {NoMetadata} :
                         UpdateProviderMetadata(caller, meta)
             PROVE  TypeOK'
  BY DEF RegistrationNext
<1> USE DEF clockVars, accessVars, listVars, uploaderVars, coinVars
<1>a. period \in U64 /\ period \in StatPeriods /\ 0 \in U64
  BY PeriodsInU64, ModAssumption DEF TypeOK, StatPeriods, U64
<1>1. ASSUME NEW gb \in Allocations, NEW meta \in Metadata \cup {NoMetadata},
             RegisterStorageNode(caller, gb, meta)
      PROVE  TypeOK'
  <2>1. gb \in U64 /\ NewNode(gb) \in NodeRecord
    BY <1>a, PeriodsInU64, ArgumentAssumption DEF NewNode, NodeRecord
  <2>2. node' \in [Providers -> NodeRecord \cup {NoNode}]
    BY <1>1, <2>1 DEF TypeOK, RegisterStorageNode, AddToIndex
  <2>3. nodeIndex' \in Seq(Providers) /\ nodeAt' \in [U64 -> Providers \cup {NoAddr}]
    BY <1>1 DEF TypeOK, RegisterStorageNode, AddToIndex
  <2>4. totalNodes' \in U64
    BY <1>1, StepType DEF TypeOK, RegisterStorageNode, AddToIndex
  <2>5. stats' \in [StatPeriods -> PeriodRecord]
    <3>1. stats[period] \in PeriodRecord
      BY <1>a DEF TypeOK
    <3>2. /\ Plus(stats[period].totalGbStored, gb) \in U64
          /\ Plus(stats[period].activeNodes, 1) \in U64
      BY <3>1, <2>1, ArithmeticType, StepType DEF PeriodRecord
    <3>3. QED
      BY <1>1, <3>1, <3>2 DEF TypeOK, RegisterStorageNode, AddToIndex, PeriodRecord
  <2>6. metadata' \in [Providers -> Metadata \cup {NoMetadata}]
    BY <1>1 DEF TypeOK, RegisterStorageNode, AddToIndex
  <2>7. QED
    BY <1>1, <2>2, <2>3, <2>4, <2>5, <2>6 DEF TypeOK, RegisterStorageNode, AddToIndex
<1>2. ASSUME NEW gb \in Allocations, UpdateStorageAllocation(caller, gb)
      PROVE  TypeOK'
  <2>1. gb \in U64 /\ node[caller] \in NodeRecord /\ stats[period] \in PeriodRecord
    BY <1>2, <1>a, ArgumentAssumption DEF TypeOK, UpdateStorageAllocation
  <2>2. node' \in [Providers -> NodeRecord \cup {NoNode}]
    BY <1>2, <2>1 DEF TypeOK, UpdateStorageAllocation, NodeRecord
  <2>3. Minus(stats[period].totalGbStored, node[caller].allocatedGb) \in U64
    BY <2>1, ArithmeticType DEF NodeRecord, PeriodRecord
  <2>4. Plus(Minus(stats[period].totalGbStored, node[caller].allocatedGb), gb) \in U64
    BY <2>1, <2>3, ArithmeticType
  <2>5. stats' \in [StatPeriods -> PeriodRecord]
    BY <1>2, <2>1, <2>4 DEF TypeOK, UpdateStorageAllocation, PeriodRecord
  <2>6. QED
    BY <1>2, <2>2, <2>5 DEF TypeOK, UpdateStorageAllocation
<1>3. ASSUME UnregisterStorageNode(caller)
      PROVE  TypeOK'
  <2>1. node[caller] \in NodeRecord /\ stats[period] \in PeriodRecord
    BY <1>3, <1>a DEF TypeOK, UnregisterStorageNode, Active, Registered
  <2>2. node' \in [Providers -> NodeRecord \cup {NoNode}]
    BY <1>3, <2>1 DEF TypeOK, UnregisterStorageNode, NodeRecord
  <2>3. totalNodes' \in U64 /\ Minus(totalNodes, 1) \in U64
    BY <1>3, StepType DEF TypeOK, UnregisterStorageNode, RemoveFromList
  <2>4. nodeAt' \in [U64 -> Providers \cup {NoAddr}]
    BY <1>3, <2>3 DEF TypeOK, UnregisterStorageNode, RemoveFromList, AddressAt
  <2>5. /\ Minus(stats[period].totalGbStored, node[caller].allocatedGb) \in U64
        /\ Minus(stats[period].activeNodes, 1) \in U64
    BY <2>1, ArithmeticType, StepType DEF NodeRecord, PeriodRecord
  <2>6. stats' \in [StatPeriods -> PeriodRecord]
    BY <1>3, <2>1, <2>5 DEF TypeOK, UnregisterStorageNode, PeriodRecord
  <2>7. QED
    BY <1>3, <2>2, <2>3, <2>4, <2>6 DEF TypeOK, UnregisterStorageNode
<1>4. ASSUME NEW meta \in Metadata \cup {NoMetadata}, UpdateProviderMetadata(caller, meta)
      PROVE  TypeOK'
  BY <1>4 DEF TypeOK, UpdateProviderMetadata
<1>5. QED
  BY <1>1, <1>2, <1>3, <1>4

LEMMA ChallengeType == TypeOK /\ ChallengeNext => TypeOK'
<1> SUFFICES ASSUME TypeOK, ChallengeNext
             PROVE  TypeOK'
  OBVIOUS
<1> USE DEF clockVars, accessVars, listVars, uploaderVars, coinVars
<1>a. period \in U64 /\ period \in StatPeriods /\ now \in U64
  BY PeriodsInU64, ModAssumption, ClockAssumption DEF TypeOK, StatPeriods, U64
<1>1. ASSUME NEW caller \in Operators, NEW id \in ChallengeIds, NEW target \in Providers,
             IssueChallenge(caller, id, target)
      PROVE  TypeOK'
  <2>1. node[target] \in NodeRecord /\ stats[period] \in PeriodRecord
    BY <1>1, <1>a DEF TypeOK, IssueChallenge, Active, Registered
  <2>2. Plus(now, config.challengeResponseTimeout) \in U64
    BY <1>a, ArithmeticType DEF TypeOK, ConfigRecord
  <2>3. challenge' \in [ChallengeIds -> ChallengeRecord \cup {NoChallenge}]
    BY <1>1, <1>a, <2>2 DEF TypeOK, IssueChallenge, ChallengeRecord
  <2>4. Plus(node[target].totalChallenges, 1) \in U64
    BY <2>1, StepType DEF NodeRecord
  <2>5. node' \in [Providers -> NodeRecord \cup {NoNode}]
    BY <1>1, <1>a, <2>1, <2>4 DEF TypeOK, IssueChallenge, NodeRecord
  <2>6. Plus(stats[period].challengesIssued, 1) \in U64
    BY <2>1, StepType DEF PeriodRecord
  <2>7. stats' \in [StatPeriods -> PeriodRecord]
    BY <1>1, <2>1, <2>6 DEF TypeOK, IssueChallenge, PeriodRecord
  <2>8. QED
    BY <1>1, <2>3, <2>5, <2>7 DEF TypeOK, IssueChallenge
<1>2. ASSUME NEW caller \in Providers, NEW id \in ChallengeIds, NEW proofValid \in BOOLEAN,
             SubmitProof(caller, id, proofValid)
      PROVE  TypeOK'
  <2>1. challenge[id] \in ChallengeRecord
    BY <1>2 DEF TypeOK, SubmitProof, Answerable
  <2>2. challenge' \in [ChallengeIds -> ChallengeRecord \cup {NoChallenge}]
    BY <1>2, <2>1 DEF TypeOK, SubmitProof, Answerable, ChallengeRecord
  <2>3. node' \in [Providers -> NodeRecord \cup {NoNode}]
    <3>1. CASE proofValid /\ node[caller] # NoNode
      <4>1. node[caller] \in NodeRecord
        BY <3>1 DEF TypeOK
      <4>2. Plus(node[caller].passedChallenges, 1) \in U64
        BY <4>1, StepType DEF NodeRecord
      <4>3. QED
        BY <1>2, <3>1, <4>1, <4>2 DEF TypeOK, SubmitProof, Answerable, NodeRecord
    <3>2. QED
      BY <1>2, <3>1 DEF TypeOK, SubmitProof, Answerable
  <2>4. stats' \in [StatPeriods -> PeriodRecord]
    <3>1. CASE proofValid /\ challenge[id].issuedPeriod \in StatPeriods
      <4>1. stats[challenge[id].issuedPeriod] \in PeriodRecord
        BY <3>1 DEF TypeOK
      <4>2. Plus(stats[challenge[id].issuedPeriod].challengesPassed, 1) \in U64
        BY <4>1, StepType DEF PeriodRecord
      <4>3. QED
        BY <1>2, <3>1, <4>1, <4>2 DEF TypeOK, SubmitProof, Answerable, PeriodRecord
    <3>2. QED
      BY <1>2, <3>1 DEF TypeOK, SubmitProof, Answerable
  <2>5. QED
    BY <1>2, <2>2, <2>3, <2>4 DEF TypeOK, SubmitProof, Answerable
<1>3. ASSUME NEW ids \in SUBSET ChallengeIds, ResolveExpiredChallenges(ids)
      PROVE  TypeOK'
  <2>1. challenge' \in [ChallengeIds -> ChallengeRecord \cup {NoChallenge}]
    <3>1. ASSUME NEW c \in ChallengeIds, Expired(c)
          PROVE  [challenge[c] EXCEPT !.resolved = TRUE, !.passed = FALSE] \in ChallengeRecord
      BY <3>1 DEF TypeOK, Expired, ChallengeRecord
    <3>2. QED
      BY <1>3, <3>1 DEF TypeOK, ResolveExpiredChallenges
  <2>2. QED
    BY <1>3, <2>1 DEF TypeOK, ResolveExpiredChallenges
<1>4. QED
  BY <1>1, <1>2, <1>3 DEF ChallengeNext

LEMMA ListDomainFinite ==
  ASSUME NEW list \in RewardLists
  PROVE  IsFiniteSet(DOMAIN list)
<1>1. list \in Seq(Providers)
  BY ArgumentAssumption
<1>2. DOMAIN list = 1 .. Len(list) /\ Len(list) \in Nat
  BY <1>1
<1>3. QED
  BY <1>2, FS_Interval

(* What a provider is credited with is a u64, however often it is listed. *)
LEMMA CreditType ==
  ASSUME TypeOK, NEW list \in RewardLists, NEW a \in Rewarded(list)
  PROVE  /\ node[a] \in NodeRecord /\ Reward(a) \in U64 /\ Appearances(list, a) \in Nat
         /\ Plus(node[a].pendingRewards, Times(Appearances(list, a), Reward(a))) \in U64
<1>1. node[a] \in NodeRecord
  BY DEF TypeOK, Rewarded, Active, Registered
<1>2. Reward(a) \in U64
  BY <1>1, ArithmeticType DEF TypeOK, Reward, NodeRecord, ConfigRecord
<1>3. Appearances(list, a) \in Nat
  <2>2. IsFiniteSet({i \in DOMAIN list : list[i] = a})
    BY ListDomainFinite, FS_Subset
  <2>3. QED
    BY <2>2, FS_CardinalityType DEF Appearances
<1>4. Times(Appearances(list, a), Reward(a)) \in U64
  BY <1>2, <1>3, ModType DEF Times, U64
<1>5. Plus(node[a].pendingRewards, Times(Appearances(list, a), Reward(a))) \in U64
  BY <1>1, <1>4, ArithmeticType DEF NodeRecord
<1>6. QED
  BY <1>1, <1>2, <1>3, <1>5

RewardsAt(list) == [i \in Credits(list) |-> Reward(list[i])]

RewardSum(list) == SumOf(RewardsAt(list), Credits(list))

(* totalDistributed is the sum of a function. *)
LEMMA TotalRewardStated ==
  ASSUME TypeOK, NEW list \in RewardLists
  PROVE  /\ TotalReward(list) = RewardSum(list) % Mod /\ RewardSum(list) \in Int
         /\ IsFiniteSet(Credits(list))
<1> DEFINE S == Credits(list)
           f == RewardsAt(list)
           Body(g) == [s \in SUBSET S |-> IF s = {} THEN 0
                         ELSE Reward(list[First(s)]) + g[s \ {First(s)}]]
           h == CHOOSE g : g = Body(g)
<1>1. MapThenSumSet(LAMBDA i : Reward(list[i]), S) = h[S]
  BY DEF MapThenSumSet, MapThenFoldSet, First
<1>2. ASSUME NEW g PROVE Sums(f, S, g) <=> g = Body(g)
  <2>1. \A s \in SUBSET S : s # {} => f[First(s)] = Reward(list[First(s)])
    BY FirstIsIn DEF RewardsAt
  <2>2. Body(g) = [s \in SUBSET S |-> IF s = {} THEN 0 ELSE f[First(s)] + g[s \ {First(s)}]]
    BY <2>1
  <2>3. QED
    BY <2>2 DEF Sums
<1>3. IsFiniteSet(S)
  BY ListDomainFinite, FS_Subset DEF Credits
<1>4. \E g : Sums(f, S, g)
  BY <1>3, SumsExist
<1>5. Sums(f, S, h) /\ Sums(f, S, CHOOSE g : Sums(f, S, g))
  BY <1>2, <1>4
<1>6. h[S] = (CHOOSE g : Sums(f, S, g))[S]
  BY <1>3, <1>5, SumsAgree
<1>7. \A i \in S : f[i] \in Int
  BY CreditType DEF RewardsAt, Credits, U64
<1>8. SumOf(f, S) \in Int
  <2> HIDE DEF f, S
  <2>1. QED
    BY <1>3, <1>7, SumInt
<1>9. QED
  BY <1>1, <1>3, <1>6, <1>8, SumOfIsSums DEF TotalReward, RewardSum

LEMMA TotalRewardType ==
  ASSUME TypeOK, NEW list \in RewardLists
  PROVE  TotalReward(list) \in U64
BY TotalRewardStated, ModType

LEMMA RewardType == TypeOK /\ RewardNext => TypeOK'
<1> SUFFICES ASSUME TypeOK, RewardNext
             PROVE  TypeOK'
  OBVIOUS
<1> USE DEF clockVars, accessVars, listVars, uploaderVars
<1>1. ASSUME NEW caller \in Operators, NEW p \in RewardPeriods, NEW list \in RewardLists,
             DistributeRewards(caller, p, list)
      PROVE  TypeOK'
  <2>1. p \in U64 /\ p \in StatPeriods
    BY ClockAssumption DEF StatPeriods
  <2>2. ASSUME NEW a \in Rewarded(list)
        PROVE  [node[a] EXCEPT
                  !.pendingRewards = Plus(@, Times(Appearances(list, a), Reward(a))),
                  !.lastRewardedPeriod = p] \in NodeRecord
    BY <2>1, CreditType DEF NodeRecord
  <2>3. node' \in [Providers -> NodeRecord \cup {NoNode}]
    BY <1>1, <2>2 DEF TypeOK, DistributeRewards
  <2>4. stats' \in [StatPeriods -> PeriodRecord]
    <3>1. stats' = [stats EXCEPT ![p] =
                      [stats[p] EXCEPT !.totalRewardsDistributed = TotalReward(list),
                                       !.rewardsDistributed = TRUE]]
      BY <1>1, <2>1 DEF TypeOK, DistributeRewards
    <3>2. [stats[p] EXCEPT !.totalRewardsDistributed = TotalReward(list),
                           !.rewardsDistributed = TRUE] \in PeriodRecord
      BY <2>1, TotalRewardType DEF TypeOK, PeriodRecord
    <3>3. QED
      BY <2>1, <3>1, <3>2 DEF TypeOK
  <2>5. UNCHANGED <<clockVars, accessVars, metadata, listVars, challenge,
                    uploaderVars, balance, received>>
    BY <1>1 DEF DistributeRewards, coinVars
  <2>6. QED
    BY <2>3, <2>4, <2>5 DEF TypeOK
<1>2. ASSUME NEW caller \in Providers, ClaimRewards(caller)
      PROVE  TypeOK'
  <2>1. node[caller] \in NodeRecord
    BY <1>2 DEF TypeOK, ClaimRewards
  <2>2. node' \in [Providers -> NodeRecord \cup {NoNode}]
    BY <1>2, <2>1, StepType DEF TypeOK, ClaimRewards, NodeRecord
  <2>3. node[caller].pendingRewards \in Nat
    BY <2>1 DEF NodeRecord, U64
  <2>4. balance' \in 0 .. MaxBalance
    BY <1>2, <2>3, ArgumentAssumption DEF TypeOK, ClaimRewards
  <2>5. received' \in [Providers -> Nat]
    BY <1>2, <2>3 DEF TypeOK, ClaimRewards
  <2>6. QED
    BY <1>2, <2>2, <2>4, <2>5 DEF TypeOK, ClaimRewards
<1>3. ASSUME NEW amount \in Deposits, FundContract(amount)
      PROVE  TypeOK'
  <2>1. balance' \in 0 .. MaxBalance
    BY <1>3, ArgumentAssumption DEF TypeOK, FundContract
  <2>2. QED
    BY <1>3, <2>1 DEF TypeOK, FundContract
<1>4. QED
  BY <1>1, <1>2, <1>3 DEF RewardNext

LEMMA UploaderType == TypeOK /\ UploaderNext => TypeOK'
<1> SUFFICES ASSUME TypeOK, UploaderNext
             PROVE  TypeOK'
  OBVIOUS
<1> USE DEF clockVars, accessVars, listVars, coinVars
<1>1. ASSUME NEW caller \in Uploaders, NEW amountGb \in BookingAmounts,
             NEW transferred \in Payments,
             RegisterAsUploader(caller, amountGb, transferred)
      PROVE  TypeOK'
  <2>1. booked' \in [Uploaders -> U64] /\ uploaderIndex' \in Seq(Uploaders)
    BY <1>1, ArgumentAssumption DEF TypeOK, RegisterAsUploader, AddToIndex
  <2>2. balance' \in 0 .. MaxBalance
    BY <1>1, ArgumentAssumption DEF TypeOK, RegisterAsUploader, AddToIndex
  <2>3. QED
    BY <1>1, <2>1, <2>2 DEF TypeOK, RegisterAsUploader, AddToIndex
<1>2. ASSUME NEW caller \in Operators, NEW uploader \in Uploaders, NEW size \in FileSizes,
             RecordFileUpload(caller, uploader, size)
      PROVE  TypeOK'
  <2>1. Plus(usage[uploader], size) \in U64
    BY ArithmeticType, ArgumentAssumption DEF TypeOK
  <2>2. QED
    BY <1>2, <2>1 DEF TypeOK, RecordFileUpload
<1>3. ASSUME NEW caller \in Operators, NEW uploader \in Uploaders, NEW size \in FileSizes,
             RemoveFileUpload(caller, uploader, size)
      PROVE  TypeOK'
  <2>1. size \in U64 /\ usage[uploader] \in U64
    BY ArgumentAssumption DEF TypeOK
  <2>2. (IF usage[uploader] > size THEN usage[uploader] - size ELSE 0) \in U64
    BY <2>1, ModAssumption DEF U64
  <2>3. QED
    BY <1>3, <2>2 DEF TypeOK, RemoveFileUpload
<1>4. QED
  BY <1>1, <1>2, <1>3 DEF UploaderNext

LEMMA AdminType == TypeOK /\ AdminNext => TypeOK'
<1> SUFFICES ASSUME TypeOK, NEW caller \in Operators,
                    \/ \E c \in Configs : UpdateConfig(caller, c)
                    \/ \E a \in ChallengerCandidates :
                         AddChallenger(caller, a) \/ RemoveChallenger(caller, a)
                    \/ \E a \in StorageAdminCandidates :
                         AddStorageAdmin(caller, a) \/ RemoveStorageAdmin(caller, a)
                    \/ \E p \in Prices : SetUploaderPricePerGbAdmin(caller, p)
                    \/ \E v \in PauseValues : SetPaused(caller, v)
                    \/ \E a \in AdminCandidates : TransferAdmin(caller, a)
             PROVE  TypeOK'
  BY DEF AdminNext
<1> USE DEF clockVars, listVars, uploaderVars, coinVars
<1>1. ASSUME NEW c \in Configs, UpdateConfig(caller, c) PROVE TypeOK'
  BY <1>1, ArgumentAssumption DEF TypeOK, UpdateConfig
<1>2. ASSUME NEW a \in ChallengerCandidates,
             AddChallenger(caller, a) \/ RemoveChallenger(caller, a)
      PROVE  TypeOK'
  BY <1>2 DEF TypeOK, AddChallenger, RemoveChallenger, SetChallenger
<1>3. ASSUME NEW a \in StorageAdminCandidates,
             AddStorageAdmin(caller, a) \/ RemoveStorageAdmin(caller, a)
      PROVE  TypeOK'
  BY <1>3 DEF TypeOK, AddStorageAdmin, RemoveStorageAdmin, SetStorageAdmins
<1>4. ASSUME NEW p \in Prices, SetUploaderPricePerGbAdmin(caller, p) PROVE TypeOK'
  BY <1>4, ArgumentAssumption DEF TypeOK, SetUploaderPricePerGbAdmin
<1>5. ASSUME NEW v \in PauseValues, SetPaused(caller, v) PROVE TypeOK'
  BY <1>5, ArgumentAssumption DEF TypeOK, SetPaused
<1>6. ASSUME NEW a \in AdminCandidates, TransferAdmin(caller, a) PROVE TypeOK'
  BY <1>6, ActorAssumption DEF TypeOK, TransferAdmin
<1>7. QED
  BY <1>1, <1>2, <1>3, <1>4, <1>5, <1>6

LEMMA NextType == TypeOK /\ [Next]_vars => TypeOK'
<1> SUFFICES ASSUME TypeOK, [Next]_vars
             PROVE  TypeOK'
  OBVIOUS
<1>1. CASE Next
  BY <1>1, TickType, RegistrationType, ChallengeType, RewardType, UploaderType, AdminType
     DEF Next
<1>2. CASE UNCHANGED vars
  BY <1>2 DEF TypeOK, vars, clockVars, accessVars, listVars, uploaderVars, coinVars
<1>3. QED
  BY <1>1, <1>2

(* Every entry of the datastore keeps its shape and every counter stays a  *)
(* u64, whatever is called in whatever order.                              *)
THEOREM TypeCorrect == Spec => []TypeOK
<1>1. QED
  BY InitType, NextType, PTL DEF Spec

-----------------------------------------------------------------------------
(* Which calls change who is registered and who is active *)

LEMMA SameProviders ==
  ASSUME \A a \in Providers :
           /\ node[a] = NoNode <=> node'[a] = NoNode
           /\ node[a] # NoNode => node'[a].active = node[a].active
  PROVE  Registered' = Registered /\ Active' = Active
BY DEF Registered, Active

(* A record that replaces a record is still a record. *)
LEMMA RecordIsNoNode == NodeRecord \cap {NoNode} = {}
BY AbsentAssumption

(* Only registerStorageNode and unregisterStorageNode touch the two lists  *)
(* or the status of a provider.                                            *)
LEMMA ListFrame ==
  ASSUME TypeOK, [Next]_vars
  PROVE  \/ \E caller \in Providers, gb \in Allocations, meta \in Metadata \cup {NoMetadata} :
              RegisterStorageNode(caller, gb, meta)
         \/ \E caller \in Providers : UnregisterStorageNode(caller)
         \/ Registered' = Registered /\ Active' = Active /\ UNCHANGED listVars
<1> USE DEF listVars
<1> DEFINE Kept == Registered' = Registered /\ Active' = Active /\ UNCHANGED listVars
<1>1. ASSUME UNCHANGED node, UNCHANGED listVars PROVE Kept
  BY <1>1 DEF Registered, Active
<1>2. ASSUME Tick PROVE Kept
  BY <1>1, <1>2 DEF Tick
<1>3. ASSUME RegistrationNext
      PROVE  \/ \E caller \in Providers, gb \in Allocations,
                   meta \in Metadata \cup {NoMetadata} : RegisterStorageNode(caller, gb, meta)
             \/ \E caller \in Providers : UnregisterStorageNode(caller)
             \/ Kept
  <2>1. ASSUME NEW caller \in Providers, NEW gb \in Allocations,
               UpdateStorageAllocation(caller, gb)
        PROVE  Kept
    <3>1. node[caller] \in NodeRecord
      BY <2>1 DEF TypeOK, UpdateStorageAllocation
    <3>2. [node[caller] EXCEPT !.allocatedGb = gb] \in NodeRecord
      BY <3>1, ArgumentAssumption DEF NodeRecord
    <3>3. \A a \in Providers : /\ node[a] = NoNode <=> node'[a] = NoNode
                               /\ node[a] # NoNode => node'[a].active = node[a].active
      BY <2>1, <3>1, <3>2, RecordIsNoNode DEF TypeOK, UpdateStorageAllocation, NodeRecord
    <3>4. QED
      BY <2>1, <3>3, SameProviders DEF UpdateStorageAllocation
  <2>2. ASSUME NEW caller \in Providers, NEW meta \in Metadata \cup {NoMetadata},
               UpdateProviderMetadata(caller, meta)
        PROVE  Kept
    BY <2>2, <1>1 DEF UpdateProviderMetadata
  <2>3. QED
    BY <1>3, <2>1, <2>2 DEF RegistrationNext
<1>4. ASSUME ChallengeNext PROVE Kept
  <2>1. ASSUME NEW caller \in Operators, NEW id \in ChallengeIds, NEW target \in Providers,
               IssueChallenge(caller, id, target)
        PROVE  Kept
    <3>1. node[target] \in NodeRecord
      BY <2>1 DEF TypeOK, IssueChallenge, Active, Registered
    <3>2. /\ node'[target] # NoNode /\ node'[target].active = node[target].active
          /\ \A a \in Providers \ {target} : node'[a] = node[a]
      <4>1. node'[target] = [node[target] EXCEPT
                               !.totalChallenges = Plus(@, 1),
                               !.lastChallengedPeriod = period]
        BY <2>1, <3>1 DEF TypeOK, IssueChallenge
      <4>2. node'[target] \in NodeRecord
        BY <3>1, <4>1, PeriodsInU64, StepType DEF TypeOK, NodeRecord
      <4>3. QED
        BY <2>1, <3>1, <4>1, <4>2, RecordIsNoNode DEF TypeOK, IssueChallenge, NodeRecord
    <3>3. QED
      BY <2>1, <3>1, <3>2, RecordIsNoNode, SameProviders DEF IssueChallenge
  <2>2. ASSUME NEW caller \in Providers, NEW id \in ChallengeIds, NEW proofValid \in BOOLEAN,
               SubmitProof(caller, id, proofValid)
        PROVE  Kept
    <3>1. CASE proofValid /\ node[caller] # NoNode
      <4>1. node[caller] \in NodeRecord
        BY <3>1 DEF TypeOK
      <4>2. node'[caller] = [node[caller] EXCEPT !.passedChallenges = Plus(@, 1)]
        BY <2>2, <3>1 DEF TypeOK, SubmitProof, Answerable
      <4>3. node'[caller] \in NodeRecord
        BY <4>1, <4>2, StepType DEF NodeRecord
      <4>4. /\ node'[caller].active = node[caller].active
            /\ \A a \in Providers \ {caller} : node'[a] = node[a]
        BY <2>2, <3>1, <4>1, <4>2 DEF TypeOK, SubmitProof, Answerable, NodeRecord
      <4>5. QED
        BY <2>2, <3>1, <4>3, <4>4, RecordIsNoNode, SameProviders DEF SubmitProof, Answerable
    <3>2. CASE ~(proofValid /\ node[caller] # NoNode)
      BY <2>2, <3>2, <1>1 DEF SubmitProof, Answerable
    <3>3. QED
      BY <3>1, <3>2
  <2>3. ASSUME NEW ids \in SUBSET ChallengeIds, ResolveExpiredChallenges(ids)
        PROVE  Kept
    BY <2>3, <1>1 DEF ResolveExpiredChallenges
  <2>4. QED
    BY <1>4, <2>1, <2>2, <2>3 DEF ChallengeNext
<1>5. ASSUME RewardNext PROVE Kept
  <2>1. ASSUME NEW caller \in Operators, NEW p \in RewardPeriods, NEW list \in RewardLists,
               DistributeRewards(caller, p, list)
        PROVE  Kept
    <3>1. ASSUME NEW a \in Providers
          PROVE  /\ node[a] = NoNode <=> node'[a] = NoNode
                 /\ node[a] # NoNode => node'[a].active = node[a].active
      <4>1. CASE a \in Rewarded(list)
        <5>1. /\ node[a] \in NodeRecord
              /\ Plus(node[a].pendingRewards, Times(Appearances(list, a), Reward(a))) \in U64
          BY <4>1, CreditType
        <5>2. p \in U64
          BY ClockAssumption
        <5>3. node'[a] = [node[a] EXCEPT
                !.pendingRewards = Plus(@, Times(Appearances(list, a), Reward(a))),
                !.lastRewardedPeriod = p]
          BY <2>1, <4>1 DEF DistributeRewards
        <5>4. node'[a].active = node[a].active /\ node'[a] \in NodeRecord
          BY <5>1, <5>2, <5>3 DEF NodeRecord
        <5>5. QED
          BY <5>1, <5>4, RecordIsNoNode
      <4>2. CASE a \notin Rewarded(list)
        BY <2>1, <4>2 DEF DistributeRewards
      <4>3. QED
        BY <4>1, <4>2
    <3>2. QED
      BY <2>1, <3>1, SameProviders DEF DistributeRewards
  <2>2. ASSUME NEW caller \in Providers, ClaimRewards(caller)
        PROVE  Kept
    <3>1. node[caller] \in NodeRecord
      BY <2>2 DEF TypeOK, ClaimRewards
    <3>2. node'[caller] = [node[caller] EXCEPT !.pendingRewards = 0]
      BY <2>2, <3>1 DEF TypeOK, ClaimRewards
    <3>3. node'[caller] \in NodeRecord /\ node'[caller].active = node[caller].active
      BY <3>1, <3>2, StepType DEF NodeRecord
    <3>4. \A a \in Providers \ {caller} : node'[a] = node[a]
      BY <2>2 DEF TypeOK, ClaimRewards
    <3>5. QED
      BY <2>2, <3>1, <3>3, <3>4, RecordIsNoNode, SameProviders DEF ClaimRewards
  <2>3. ASSUME NEW amount \in Deposits, FundContract(amount)
        PROVE  Kept
    BY <2>3, <1>1 DEF FundContract
  <2>4. QED
    BY <1>5, <2>1, <2>2, <2>3 DEF RewardNext
<1>6. ASSUME UploaderNext PROVE Kept
  BY <1>1, <1>6 DEF UploaderNext, RegisterAsUploader, AddToIndex, RecordFileUpload, RemoveFileUpload
<1>7. ASSUME AdminNext PROVE Kept
  BY <1>1, <1>7 DEF AdminNext, UpdateConfig, AddChallenger, RemoveChallenger, SetChallenger,
     AddStorageAdmin, RemoveStorageAdmin, SetStorageAdmins, SetUploaderPricePerGbAdmin,
     SetPaused, TransferAdmin
<1>8. ASSUME UNCHANGED vars PROVE Kept
  BY <1>1, <1>8 DEF vars
<1>9. QED
  BY <1>2, <1>3, <1>4, <1>5, <1>6, <1>7, <1>8 DEF Next

-----------------------------------------------------------------------------
(* The list *)

(* A new provider goes to the first free position; the count does not wrap *)
(* because there are fewer providers than u64 values.                      *)
LEMMA RegisterKeepsList ==
  ASSUME TypeOK, NodeListExact,
         NEW caller \in Providers, NEW gb \in Allocations,
         NEW meta \in Metadata \cup {NoMetadata},
         RegisterStorageNode(caller, gb, meta)
  PROVE  NodeListExact'
<1>1. Active' = Active \cup {caller} /\ caller \notin Active /\ Active \subseteq Providers
  <2>1. NewNode(gb) # NoNode /\ NewNode(gb).active
    <3>1. gb \in U64 /\ period \in U64 /\ 0 \in U64
      BY ArgumentAssumption, PeriodsInU64, StepType DEF TypeOK
    <3>2. NewNode(gb) \in NodeRecord
      BY <3>1, PeriodsInU64 DEF NewNode, NodeRecord
    <3>3. QED
      BY <3>2, RecordIsNoNode DEF NewNode
  <2>2. QED
    BY <2>1 DEF TypeOK, RegisterStorageNode, AddToIndex, Active, Registered
<1>2. IsFiniteSet(Active) /\ Cardinality(Active \cup {caller}) = Cardinality(Active) + 1
  BY <1>1, ActorAssumption, FS_Subset, FS_AddElement
<1>3. Cardinality(Active) + 1 <= Cardinality(Providers)
  BY <1>1, <1>2, ActorAssumption, FS_Subset
<1>4. Cardinality(Active) \in Nat /\ Cardinality(Providers) \in Nat
  BY <1>2, ActorAssumption, FS_CardinalityType
<1>5. totalNodes + 1 < Mod /\ totalNodes \in Nat
  BY <1>3, <1>4, ActorAssumption, ModAssumption DEF NodeListExact
<1>6. totalNodes' = totalNodes + 1
  BY <1>5, PlusExact DEF TypeOK, RegisterStorageNode, AddToIndex
<1>7. Slots' = Slots \cup {totalNodes} /\ totalNodes \notin Slots
  BY <1>5, <1>6, ModAssumption DEF Slots, U64
<1>8. nodeAt'[totalNodes] = caller /\ \A i \in Slots : nodeAt'[i] = nodeAt[i]
  BY <1>7 DEF TypeOK, RegisterStorageNode, AddToIndex, Slots
<1>9. QED
  BY <1>1, <1>2, <1>6, <1>7, <1>8 DEF NodeListExact

(* The provider that leaves is at one position only; the last one takes    *)
(* its place and the list loses its last position.                         *)
LEMMA UnregisterKeepsList ==
  ASSUME TypeOK, NodeListExact,
         NEW caller \in Providers, UnregisterStorageNode(caller)
  PROVE  NodeListExact'
<1>1. Active' = Active \ {caller} /\ caller \in Active /\ Active \subseteq Providers
  <2>1. caller \in Active /\ node[caller] \in NodeRecord
    BY DEF TypeOK, UnregisterStorageNode, Active, Registered
  <2>2. [node[caller] EXCEPT !.active = FALSE] \in NodeRecord
    BY <2>1 DEF NodeRecord
  <2>3. node'[caller] # NoNode /\ ~node'[caller].active
    BY <2>1, <2>2, RecordIsNoNode DEF TypeOK, UnregisterStorageNode, NodeRecord
  <2>4. QED
    BY <2>1, <2>3 DEF TypeOK, UnregisterStorageNode, Active, Registered
<1>2. /\ IsFiniteSet(Active) /\ Cardinality(Active) \in Nat
      /\ Cardinality(Active \ {caller}) = Cardinality(Active) - 1
  BY <1>1, ActorAssumption, FS_Subset, FS_RemoveElement, FS_CardinalityType
<1>3. PICK s \in Slots : nodeAt[s] = caller
  BY <1>1 DEF NodeListExact
<1>4. totalNodes \in U64 /\ 1 <= totalNodes /\ s < totalNodes
  BY <1>3 DEF TypeOK, Slots, U64
<1>5. /\ Minus(totalNodes, 1) = totalNodes - 1 /\ totalNodes' = totalNodes - 1
      /\ totalNodes - 1 \in Slots
  BY <1>4, MinusExact, ModAssumption DEF UnregisterStorageNode, RemoveFromList, Slots, U64
<1>6. \A i \in U64 : i \in FirstSlotOf(caller) <=> i = s
  <2>1. \A i \in U64 : AddressAt(i) = caller <=> i = s
    BY <1>3, <1>4, ActorAssumption DEF AddressAt, Slots, NodeListExact
  <2>2. QED
    BY <2>1, <1>3, <1>4 DEF FirstSlotOf, Slots, U64
<1>7. \A i \in Slots : nodeAt'[i] = IF i = s THEN nodeAt[totalNodes - 1] ELSE nodeAt[i]
  BY <1>4, <1>5, <1>6 DEF UnregisterStorageNode, RemoveFromList, AddressAt, Slots, U64
<1>8. Slots' = Slots \ {totalNodes - 1}
  BY <1>4, <1>5 DEF Slots, U64
<1>9. \A i \in Slots' : nodeAt'[i] \in Active'
  BY <1>1, <1>3, <1>5, <1>7, <1>8 DEF NodeListExact
<1>10. \A i, j \in Slots' : nodeAt'[i] = nodeAt'[j] => i = j
  BY <1>3, <1>5, <1>7, <1>8 DEF NodeListExact
<1>11. \A a \in Active' : \E i \in Slots' : nodeAt'[i] = a
  <2> SUFFICES ASSUME NEW a \in Active' PROVE \E i \in Slots' : nodeAt'[i] = a
    OBVIOUS
  <2>1. PICK j \in Slots : nodeAt[j] = a
    BY <1>1 DEF NodeListExact
  <2>2. CASE j = totalNodes - 1
    BY <1>1, <1>3, <1>7, <1>8, <2>1, <2>2
  <2>3. CASE j # totalNodes - 1
    BY <1>1, <1>3, <1>7, <1>8, <2>1, <2>3
  <2>4. QED
    BY <2>2, <2>3
<1>12. QED
  BY <1>1, <1>2, <1>5, <1>9, <1>10, <1>11 DEF NodeListExact

LEMMA InitList == Init => NodeListExact
<1> SUFFICES ASSUME Init PROVE NodeListExact
  OBVIOUS
<1>1. Active = {} /\ Slots = {}
  BY DEF Init, Active, Registered, Slots, U64
<1>2. QED
  BY <1>1, FS_EmptySet DEF Init, NodeListExact

(* node_idx_0 .. node_idx_(total_nodes - 1) is a list without gaps and     *)
(* without repetitions of exactly the active providers, whatever they and  *)
(* everyone else call: swap-with-last removal never loses or doubles an    *)
(* entry and the count never wraps.                                        *)
THEOREM NodeListCorrect == Spec => []NodeListExact
<1>1. TypeOK /\ NodeListExact /\ [Next]_vars => NodeListExact'
  <2> SUFFICES ASSUME TypeOK, NodeListExact, [Next]_vars
               PROVE  NodeListExact'
    OBVIOUS
  <2>1. CASE Registered' = Registered /\ Active' = Active /\ UNCHANGED listVars
    BY <2>1 DEF NodeListExact, Slots, listVars
  <2>2. QED
    BY <2>1, ListFrame, RegisterKeepsList, UnregisterKeepsList
<1>2. QED
  BY <1>1, InitList, TypeCorrect, PTL DEF Spec

-----------------------------------------------------------------------------
(* The index and the list as sets *)

Indexed == {nodeIndex[i] : i \in DOMAIN nodeIndex}
InList  == {nodeAt[i] : i \in Slots}

(* The dense list holds the active providers, as a set. *)
LEMMA InListIsActive == NodeListExact => InList = Active
BY DEF NodeListExact, InList

-----------------------------------------------------------------------------
(* A registration *)

LEMMA RegisterGrows ==
  ASSUME TypeOK,
         NEW caller \in Providers, NEW gb \in Allocations,
         NEW meta \in Metadata \cup {NoMetadata},
         RegisterStorageNode(caller, gb, meta)
  PROVE  /\ Registered' = Registered \cup {caller} /\ caller \notin Registered
         /\ Active' = Active \cup {caller} /\ caller \notin Active
<1>1. NewNode(gb) # NoNode /\ NewNode(gb).active
  <2>1. gb \in U64 /\ period \in U64 /\ 0 \in U64
    BY ArgumentAssumption, PeriodsInU64, StepType DEF TypeOK
  <2>2. NewNode(gb) \in NodeRecord
    BY <2>1, PeriodsInU64 DEF NewNode, NodeRecord
  <2>3. QED
    BY <2>2, RecordIsNoNode DEF NewNode
<1>2. node' = [node EXCEPT ![caller] = NewNode(gb)] /\ node[caller] = NoNode
  BY DEF RegisterStorageNode
<1>3. QED
  BY <1>1, <1>2 DEF TypeOK, Active, Registered

(* An address that is not in the index goes to its end. *)
LEMMA RegisterKeepsIndex ==
  ASSUME TypeOK, NodeIndexExact,
         NEW caller \in Providers, NEW gb \in Allocations,
         NEW meta \in Metadata \cup {NoMetadata},
         RegisterStorageNode(caller, gb, meta)
  PROVE  NodeIndexExact' /\ Indexed' = Indexed \cup {caller}
<1>1. Registered' = Registered \cup {caller} /\ caller \notin Registered
  BY RegisterGrows
<1>2. nodeIndex' = AddToIndex(nodeIndex, caller) /\ nodeIndex \in Seq(Providers)
  BY DEF RegisterStorageNode, TypeOK
<1>3. \A i \in DOMAIN nodeIndex : nodeIndex[i] # caller
  BY <1>1 DEF NodeIndexExact
<1>4. /\ DOMAIN nodeIndex' = DOMAIN nodeIndex \cup {Len(nodeIndex) + 1}
      /\ Len(nodeIndex) + 1 \notin DOMAIN nodeIndex
      /\ nodeIndex'[Len(nodeIndex) + 1] = caller
      /\ \A i \in DOMAIN nodeIndex : nodeIndex'[i] = nodeIndex[i]
  <2>1. nodeIndex' = Append(nodeIndex, caller)
    BY <1>2, <1>3 DEF AddToIndex
  <2>2. QED
    BY <1>2, <2>1
<1>5. Indexed' = Indexed \cup {caller}
  BY <1>4 DEF Indexed
<1>6. QED
  BY <1>1, <1>3, <1>4, <1>5 DEF NodeIndexExact, Indexed

(* A departure changes neither who has a record nor the index. *)
LEMMA UnregisterShrinks ==
  ASSUME TypeOK, NEW caller \in Providers, UnregisterStorageNode(caller)
  PROVE  /\ Registered' = Registered /\ caller \in Active
         /\ Active' = Active \ {caller} /\ nodeIndex' = nodeIndex
<1>1. caller \in Active /\ node[caller] \in NodeRecord
  BY DEF TypeOK, UnregisterStorageNode, Active, Registered
<1>2. [node[caller] EXCEPT !.active = FALSE] \in NodeRecord
  BY <1>1 DEF NodeRecord
<1>3. node'[caller] # NoNode /\ ~node'[caller].active
  BY <1>1, <1>2, RecordIsNoNode DEF TypeOK, UnregisterStorageNode, NodeRecord
<1>4. QED
  BY <1>1, <1>3 DEF TypeOK, UnregisterStorageNode, Active, Registered

-----------------------------------------------------------------------------
(* The index *)

LEMMA InitIndex == Init => NodeIndexExact
BY DEF Init, NodeIndexExact, Registered

LEMMA StepIndex == TypeOK /\ NodeIndexExact /\ [Next]_vars => NodeIndexExact'
<1> SUFFICES ASSUME TypeOK, NodeIndexExact, [Next]_vars
             PROVE  NodeIndexExact'
  OBVIOUS
<1>1. ASSUME NEW caller \in Providers, UnregisterStorageNode(caller)
      PROVE  NodeIndexExact'
  BY <1>1, UnregisterShrinks DEF NodeIndexExact
<1>2. CASE Registered' = Registered /\ Active' = Active /\ UNCHANGED listVars
  BY <1>2 DEF NodeIndexExact, listVars
<1>3. QED
  BY <1>1, <1>2, ListFrame, RegisterKeepsIndex

(* node_index names every provider that has a record exactly once,         *)
(* whatever is called: nobody is counted twice or missed by the capacity   *)
(* sum and by the listings that walk it.                                   *)
THEOREM NodeIndexCorrect == Spec => []NodeIndexExact
BY InitIndex, StepIndex, TypeCorrect, PTL DEF Spec

-----------------------------------------------------------------------------
(* The directory *)

LEMMA InitDirectory == Init => Directory!Init
BY DEF Init, Directory!Init, Slots, U64

LEMMA StepDirectory ==
  ASSUME TypeOK, NodeListExact, NodeListExact', NodeIndexExact, NodeIndexExact', [Next]_vars
  PROVE  [Directory!Next]_(Directory!directory)
<1>1. /\ InList = Active /\ InList' = Active'
      /\ Indexed = Registered /\ Indexed' = Registered'
  BY InListIsActive DEF NodeListExact, InList, NodeIndexExact, Indexed
<1>2. ASSUME NEW caller \in Providers, NEW gb \in Allocations,
             NEW meta \in Metadata \cup {NoMetadata},
             RegisterStorageNode(caller, gb, meta)
      PROVE  Directory!Join(caller)
  <2>1. totalNodes' = totalNodes + 1
    <3>1. IsFiniteSet(Active) /\ Active' = Active \cup {caller} /\ caller \notin Active
      BY <1>2, RegisterGrows, ActorAssumption, FS_Subset DEF Active, Registered
    <3>2. Cardinality(Active') = Cardinality(Active) + 1
      BY <3>1, FS_AddElement
    <3>3. QED
      BY <3>2 DEF NodeListExact
  <2>2. QED
    BY <1>1, <1>2, <2>1, RegisterGrows DEF Directory!Join, InList, Indexed
<1>3. ASSUME NEW caller \in Providers, UnregisterStorageNode(caller)
      PROVE  Directory!Leave(caller)
  <2>1. totalNodes' = totalNodes - 1
    <3>1. IsFiniteSet(Active) /\ Active' = Active \ {caller} /\ caller \in Active
      BY <1>3, UnregisterShrinks, ActorAssumption, FS_Subset DEF Active, Registered
    <3>2. Cardinality(Active') = Cardinality(Active) - 1
      BY <3>1, FS_RemoveElement
    <3>3. QED
      BY <3>2 DEF NodeListExact
  <2>2. QED
    BY <1>1, <1>3, <2>1, UnregisterShrinks DEF Directory!Leave, InList, Indexed
<1>4. CASE Registered' = Registered /\ Active' = Active /\ UNCHANGED listVars
  BY <1>1, <1>4 DEF Directory!directory, InList, Indexed, listVars
<1>5. QED
  BY <1>2, <1>3, <1>4, ListFrame DEF Directory!Next

(* The contract implements the abstract directory: every call is a join, a *)
(* departure, or leaves the dense list, the index and the count as they    *)
(* are.                                                                    *)
THEOREM DirectoryImplemented == Spec => DirectoryKept
<1>1. TypeOK /\ NodeListExact /\ NodeListExact' /\ NodeIndexExact /\ NodeIndexExact'
        /\ [Next]_vars => [Directory!Next]_(Directory!directory)
  BY StepDirectory
<1>2. QED
  BY <1>1, InitDirectory, TypeCorrect, NodeListCorrect, NodeIndexCorrect, PTL
  DEF Spec, DirectoryKept, Directory!Spec

-----------------------------------------------------------------------------
(* Calls that leave challenges and their counters alone *)

SameCounters ==
  /\ UNCHANGED challenge
  /\ \A a \in Providers :
       /\ node[a] = NoNode <=> node'[a] = NoNode
       /\ node[a] # NoNode =>
            /\ node'[a].totalChallenges = node[a].totalChallenges
            /\ node'[a].passedChallenges = node[a].passedChallenges
            /\ node'[a].lastChallengedPeriod = node[a].lastChallengedPeriod
  /\ \A p \in StatPeriods :
       /\ stats'[p].challengesIssued = stats[p].challengesIssued
       /\ stats'[p].challengesPassed = stats[p].challengesPassed

LEMMA CountersFrame ==
  ASSUME ChallengeCountersExact, SameCounters
  PROVE  ChallengeCountersExact'
<1>1. /\ \A a \in Providers : ChallengesOf(a)' = ChallengesOf(a) /\ PassedOf(a)' = PassedOf(a)
      /\ \A p \in StatPeriods : IssuedIn(p)' = IssuedIn(p) /\ PassedIn(p)' = PassedIn(p)
  BY DEF SameCounters, ChallengesOf, PassedOf, IssuedIn, PassedIn
<1>2. ChallengesWellFormed'
  BY DEF ChallengeCountersExact, ChallengesWellFormed, SameCounters
<1>3. NodeCountersExact'
  BY <1>1 DEF ChallengeCountersExact, NodeCountersExact, SameCounters
<1>4. PeriodCountersExact'
  BY <1>1 DEF ChallengeCountersExact, PeriodCountersExact, SameCounters
<1>5. QED
  BY <1>2, <1>3, <1>4 DEF ChallengeCountersExact

LEMMA UntouchedCounters ==
  ASSUME UNCHANGED <<challenge, node, stats>>
  PROVE  SameCounters
BY DEF SameCounters

LEMMA UpdateKeepsCounters ==
  ASSUME TypeOK, NEW caller \in Providers, NEW gb \in Allocations,
         UpdateStorageAllocation(caller, gb)
  PROVE  SameCounters
<1>1. /\ node[caller] \in NodeRecord /\ period \in StatPeriods
      /\ stats[period] \in PeriodRecord /\ gb \in U64
  BY ArgumentAssumption DEF TypeOK, UpdateStorageAllocation, StatPeriods
<1>2. node'[caller] = [node[caller] EXCEPT !.allocatedGb = gb]
  BY DEF TypeOK, UpdateStorageAllocation
<1>3. node'[caller] \in NodeRecord
  BY <1>1, <1>2 DEF NodeRecord
<1>4. \A a \in Providers :
        /\ node[a] = NoNode <=> node'[a] = NoNode
        /\ node[a] # NoNode =>
             /\ node'[a].totalChallenges = node[a].totalChallenges
             /\ node'[a].passedChallenges = node[a].passedChallenges
             /\ node'[a].lastChallengedPeriod = node[a].lastChallengedPeriod
  BY <1>1, <1>2, <1>3, RecordIsNoNode DEF TypeOK, UpdateStorageAllocation, NodeRecord
<1>5. \A p \in StatPeriods :
        /\ stats'[p].challengesIssued = stats[p].challengesIssued
        /\ stats'[p].challengesPassed = stats[p].challengesPassed
  BY <1>1 DEF TypeOK, UpdateStorageAllocation, PeriodRecord
<1>6. QED
  BY <1>4, <1>5 DEF SameCounters, UpdateStorageAllocation

LEMMA UnregisterKeepsCounters ==
  ASSUME TypeOK, NEW caller \in Providers, UnregisterStorageNode(caller)
  PROVE  SameCounters
<1>1. /\ node[caller] \in NodeRecord /\ period \in StatPeriods
      /\ stats[period] \in PeriodRecord
  BY DEF TypeOK, UnregisterStorageNode, StatPeriods, Active, Registered
<1>2. node'[caller] = [node[caller] EXCEPT !.active = FALSE]
  BY DEF TypeOK, UnregisterStorageNode
<1>3. node'[caller] \in NodeRecord
  BY <1>1, <1>2 DEF NodeRecord
<1>4. \A a \in Providers :
        /\ node[a] = NoNode <=> node'[a] = NoNode
        /\ node[a] # NoNode =>
             /\ node'[a].totalChallenges = node[a].totalChallenges
             /\ node'[a].passedChallenges = node[a].passedChallenges
             /\ node'[a].lastChallengedPeriod = node[a].lastChallengedPeriod
  BY <1>1, <1>2, <1>3, RecordIsNoNode DEF TypeOK, UnregisterStorageNode, NodeRecord
<1>5. \A p \in StatPeriods :
        /\ stats'[p].challengesIssued = stats[p].challengesIssued
        /\ stats'[p].challengesPassed = stats[p].challengesPassed
  BY <1>1 DEF TypeOK, UnregisterStorageNode, PeriodRecord
<1>6. QED
  BY <1>4, <1>5 DEF SameCounters, UnregisterStorageNode

LEMMA DistributeKeepsCounters ==
  ASSUME TypeOK, NEW caller \in Operators, NEW p \in RewardPeriods, NEW list \in RewardLists,
         DistributeRewards(caller, p, list)
  PROVE  SameCounters
<1>1. p \in U64 /\ p \in StatPeriods /\ stats[p] \in PeriodRecord
  BY ClockAssumption DEF TypeOK, StatPeriods
<1>2. ASSUME NEW a \in Providers
      PROVE  /\ node[a] = NoNode <=> node'[a] = NoNode
             /\ node[a] # NoNode =>
                  /\ node'[a].totalChallenges = node[a].totalChallenges
                  /\ node'[a].passedChallenges = node[a].passedChallenges
                  /\ node'[a].lastChallengedPeriod = node[a].lastChallengedPeriod
  <2>1. CASE a \in Rewarded(list)
    <3>1. /\ node[a] \in NodeRecord
          /\ Plus(node[a].pendingRewards, Times(Appearances(list, a), Reward(a))) \in U64
      BY <2>1, CreditType
    <3>2. node'[a] = [node[a] EXCEPT
            !.pendingRewards = Plus(@, Times(Appearances(list, a), Reward(a))),
            !.lastRewardedPeriod = p]
      BY <2>1 DEF DistributeRewards
    <3>3. node'[a] \in NodeRecord
      BY <1>1, <3>1, <3>2 DEF NodeRecord
    <3>4. QED
      BY <3>1, <3>2, <3>3, RecordIsNoNode DEF NodeRecord
  <2>2. CASE a \notin Rewarded(list)
    BY <2>2 DEF DistributeRewards
  <2>3. QED
    BY <2>1, <2>2
<1>3. \A q \in StatPeriods :
        /\ stats'[q].challengesIssued = stats[q].challengesIssued
        /\ stats'[q].challengesPassed = stats[q].challengesPassed
  BY <1>1 DEF TypeOK, DistributeRewards, PeriodRecord
<1>4. QED
  BY <1>2, <1>3 DEF SameCounters, DistributeRewards

LEMMA ClaimKeepsCounters ==
  ASSUME TypeOK, NEW caller \in Providers, ClaimRewards(caller)
  PROVE  SameCounters
<1>1. node[caller] \in NodeRecord
  BY DEF TypeOK, ClaimRewards
<1>2. node'[caller] = [node[caller] EXCEPT !.pendingRewards = 0]
  BY DEF TypeOK, ClaimRewards
<1>3. node'[caller] \in NodeRecord
  BY <1>1, <1>2, StepType DEF NodeRecord
<1>4. \A a \in Providers :
        /\ node[a] = NoNode <=> node'[a] = NoNode
        /\ node[a] # NoNode =>
             /\ node'[a].totalChallenges = node[a].totalChallenges
             /\ node'[a].passedChallenges = node[a].passedChallenges
             /\ node'[a].lastChallengedPeriod = node[a].lastChallengedPeriod
  BY <1>1, <1>2, <1>3, RecordIsNoNode DEF TypeOK, ClaimRewards, NodeRecord
<1>5. QED
  BY <1>4 DEF SameCounters, ClaimRewards

-----------------------------------------------------------------------------
(* Calls that do not *)

LEMMA InitCounters == Init => ChallengeCountersExact
<1> SUFFICES ASSUME Init PROVE ChallengeCountersExact
  OBVIOUS
<1>1. \A c \in ChallengeIds : challenge[c] = NoChallenge
  BY DEF Init
<1>2. \A a \in Providers : ChallengesOf(a) = {} /\ node[a] = NoNode
  BY <1>1 DEF Init, ChallengesOf
<1>3. \A p \in StatPeriods : IssuedIn(p) = {} /\ PassedIn(p) = {}
  BY <1>1 DEF IssuedIn, PassedIn
<1>4. \A p \in StatPeriods : stats[p] = FreshStats
  BY DEF Init
<1>5. QED
  BY <1>1, <1>2, <1>3, <1>4, FS_EmptySet
     DEF FreshStats, ChallengeCountersExact, ChallengesWellFormed, NodeCountersExact,
         PeriodCountersExact

(* Sets of challenges are finite and smaller than the modulus. *)
LEMMA ChallengeSetSize ==
  ASSUME NEW S \in SUBSET ChallengeIds
  PROVE  /\ IsFiniteSet(S) /\ Cardinality(S) \in U64
         /\ \A c \in ChallengeIds \ S :
              /\ Cardinality(S \cup {c}) = Cardinality(S) + 1
              /\ Plus(Cardinality(S), 1) = Cardinality(S \cup {c})
<1>1. IsFiniteSet(S)
  BY ChallengeIdAssumption, FS_Subset
<1>2. Cardinality(ChallengeIds) \in Nat
  BY ChallengeIdAssumption, FS_CardinalityType
<1>3. \A T \in SUBSET ChallengeIds : Cardinality(T) \in U64
  <2> SUFFICES ASSUME NEW T \in SUBSET ChallengeIds PROVE Cardinality(T) \in U64
    OBVIOUS
  <2>1. Cardinality(T) \in Nat /\ Cardinality(T) <= Cardinality(ChallengeIds)
    BY ChallengeIdAssumption, FS_Subset, FS_CardinalityType
  <2>2. QED
    BY <2>1, <1>2, ChallengeIdAssumption, ModAssumption DEF U64
<1>4. ASSUME NEW c \in ChallengeIds, c \notin S
      PROVE  /\ Cardinality(S \cup {c}) = Cardinality(S) + 1
             /\ Plus(Cardinality(S), 1) = Cardinality(S \cup {c})
  <2>1. Cardinality(S \cup {c}) = Cardinality(S) + 1
    BY <1>1, <1>4, FS_AddElement
  <2>2. Cardinality(S) \in U64 /\ Cardinality(S \cup {c}) \in U64
    BY <1>3
  <2>3. Cardinality(S) + 1 < Mod
    BY <2>1, <2>2, ModAssumption DEF U64
  <2>4. QED
    BY <2>1, <2>2, <2>3, PlusExact
<1>5. QED
  BY <1>1, <1>3, <1>4

(* A new provider has no challenges and starts with counters of zero. *)
LEMMA RegisterKeepsCounters ==
  ASSUME TypeOK, ChallengeCountersExact,
         NEW caller \in Providers, NEW gb \in Allocations,
         NEW meta \in Metadata \cup {NoMetadata},
         RegisterStorageNode(caller, gb, meta)
  PROVE  ChallengeCountersExact'
<1>1. /\ period \in StatPeriods /\ stats[period] \in PeriodRecord
      /\ UNCHANGED challenge
  BY DEF TypeOK, StatPeriods, RegisterStorageNode, AddToIndex
<1>2. /\ \A a \in Providers : ChallengesOf(a)' = ChallengesOf(a) /\ PassedOf(a)' = PassedOf(a)
      /\ \A p \in StatPeriods : IssuedIn(p)' = IssuedIn(p) /\ PassedIn(p)' = PassedIn(p)
  BY <1>1 DEF ChallengesOf, PassedOf, IssuedIn, PassedIn
<1>3. ChallengesWellFormed'
  BY <1>1 DEF ChallengeCountersExact, ChallengesWellFormed
<1>4. NodeCountersExact'
  <2>1. node[caller] = NoNode /\ node' = [node EXCEPT ![caller] = NewNode(gb)]
    BY DEF RegisterStorageNode, AddToIndex
  <2>2. NewNode(gb) # NoNode
    <3>1. gb \in U64 /\ period \in U64 /\ 0 \in U64
      BY ArgumentAssumption, PeriodsInU64, StepType DEF TypeOK
    <3>2. NewNode(gb) \in NodeRecord
      BY <3>1, PeriodsInU64 DEF NewNode, NodeRecord
    <3>3. QED
      BY <3>2, RecordIsNoNode
  <2>3. ChallengesOf(caller) = {} /\ PassedOf(caller) = {}
    BY <2>1 DEF ChallengeCountersExact, NodeCountersExact, PassedOf
  <2>4. /\ node'[caller] = NewNode(gb)
        /\ \A a \in Providers \ {caller} : node'[a] = node[a]
    BY <2>1 DEF TypeOK
  <2>5. /\ NewNode(gb).totalChallenges = 0 /\ NewNode(gb).passedChallenges = 0
        /\ NewNode(gb).lastChallengedPeriod = NeverChallenged
    BY DEF NewNode
  <2>6. ASSUME NEW a \in Providers
        PROVE  /\ node'[a] = NoNode => ChallengesOf(a)' = {}
               /\ node'[a] # NoNode =>
                    /\ node'[a].totalChallenges = Cardinality(ChallengesOf(a)')
                    /\ node'[a].passedChallenges = Cardinality(PassedOf(a)')
                    /\ node'[a].lastChallengedPeriod # NeverChallenged =>
                         \E c \in ChallengesOf(a)' :
                           challenge'[c].issuedPeriod = node'[a].lastChallengedPeriod
    <3>1. CASE a = caller
      BY <3>1, <1>2, <2>2, <2>3, <2>4, <2>5, FS_EmptySet
    <3>2. CASE a # caller
      BY <3>2, <1>1, <1>2, <2>4 DEF ChallengeCountersExact, NodeCountersExact
    <3>3. QED
      BY <3>1, <3>2
  <2>7. QED
    BY <2>6 DEF NodeCountersExact
<1>5. PeriodCountersExact'
  <2>1. \A p \in StatPeriods :
          /\ stats'[p].challengesIssued = stats[p].challengesIssued
          /\ stats'[p].challengesPassed = stats[p].challengesPassed
    BY <1>1 DEF TypeOK, RegisterStorageNode, AddToIndex, PeriodRecord
  <2>2. QED
    BY <1>2, <2>1 DEF ChallengeCountersExact, PeriodCountersExact
<1>6. QED
  BY <1>3, <1>4, <1>5 DEF ChallengeCountersExact

(* A new challenge is added to one node and one period, and to nothing else. *)
LEMMA IssueKeepsCounters ==
  ASSUME TypeOK, ChallengeCountersExact,
         NEW caller \in Operators, NEW id \in ChallengeIds, NEW target \in Providers,
         IssueChallenge(caller, id, target)
  PROVE  ChallengeCountersExact'
<1>1. /\ period \in StatPeriods /\ period \in Periods /\ stats[period] \in PeriodRecord
      /\ node[target] \in NodeRecord /\ challenge[id] = NoChallenge
  BY DEF TypeOK, StatPeriods, IssueChallenge, Active, Registered
<1>2. /\ challenge'[id] # NoChallenge
      /\ challenge'[id].nodeAddress = target /\ challenge'[id].issuedPeriod = period
      /\ ~challenge'[id].passed
      /\ \A c \in ChallengeIds \ {id} : challenge'[c] = challenge[c]
  <2> DEFINE new == [nodeAddress |-> target, issuedPeriod |-> period,
                     deadline |-> Plus(now, config.challengeResponseTimeout),
                     resolved |-> FALSE, passed |-> FALSE]
  <2>1. challenge' = [challenge EXCEPT ![id] = new]
    BY DEF IssueChallenge
  <2>2. new \in ChallengeRecord
    <3>1. now \in U64 /\ period \in U64
      BY PeriodsInU64, ModAssumption, ClockAssumption DEF TypeOK, U64
    <3>2. QED
      BY <3>1, ArithmeticType DEF TypeOK, ChallengeRecord, ConfigRecord
  <2>3. challenge'[id] = new /\ \A c \in ChallengeIds \ {id} : challenge'[c] = challenge[c]
    BY <2>1 DEF TypeOK
  <2>4. new # NoChallenge
    BY <2>2, AbsentAssumption
  <2>5. new.nodeAddress = target /\ new.issuedPeriod = period /\ ~new.passed
    OBVIOUS
  <2>6. QED
    BY <2>3, <2>4, <2>5
<1>3. ChallengesWellFormed'
  BY <1>1, <1>2 DEF ChallengeCountersExact, ChallengesWellFormed
<1>4. NodeCountersExact'
  <2>1. node'[target] = [node[target] EXCEPT !.totalChallenges = Plus(@, 1),
                                             !.lastChallengedPeriod = period]
    BY <1>1 DEF TypeOK, IssueChallenge
  <2>2. node'[target] \in NodeRecord
    BY <1>1, <2>1, PeriodsInU64, StepType DEF NodeRecord
  <2>3. /\ node'[target].totalChallenges = Plus(node[target].totalChallenges, 1)
        /\ node'[target].passedChallenges = node[target].passedChallenges
        /\ node'[target].lastChallengedPeriod = period
    BY <1>1, <2>1 DEF NodeRecord
  <2>4. /\ ChallengesOf(target)' = ChallengesOf(target) \cup {id}
        /\ PassedOf(target)' = PassedOf(target) /\ id \notin ChallengesOf(target)
    BY <1>1, <1>2 DEF ChallengesOf, PassedOf
  <2>5. \A a \in Providers \ {target} :
          ChallengesOf(a)' = ChallengesOf(a) /\ PassedOf(a)' = PassedOf(a)
    BY <1>1, <1>2 DEF ChallengesOf, PassedOf
  <2>6. Plus(Cardinality(ChallengesOf(target)), 1) = Cardinality(ChallengesOf(target) \cup {id})
    BY <2>4, ChallengeSetSize DEF ChallengesOf
  <2>7. ASSUME NEW a \in Providers, a # target
        PROVE  /\ node'[a] = node[a]
               /\ \A c \in ChallengesOf(a) : challenge'[c] = challenge[c]
    BY <1>1, <1>2, <2>7 DEF TypeOK, IssueChallenge, ChallengesOf
  <2>8. ASSUME NEW a \in Providers
        PROVE  /\ node'[a] = NoNode => ChallengesOf(a)' = {}
               /\ node'[a] # NoNode =>
                    /\ node'[a].totalChallenges = Cardinality(ChallengesOf(a)')
                    /\ node'[a].passedChallenges = Cardinality(PassedOf(a)')
                    /\ node'[a].lastChallengedPeriod # NeverChallenged =>
                         \E c \in ChallengesOf(a)' :
                           challenge'[c].issuedPeriod = node'[a].lastChallengedPeriod
    <3>1. CASE a = target
      BY <3>1, <1>1, <1>2, <2>2, <2>3, <2>4, <2>6, RecordIsNoNode
         DEF ChallengeCountersExact, NodeCountersExact
    <3>2. CASE a # target
      BY <3>2, <2>5, <2>7 DEF ChallengeCountersExact, NodeCountersExact
    <3>3. QED
      BY <3>1, <3>2
  <2>9. QED
    BY <2>8 DEF NodeCountersExact
<1>5. PeriodCountersExact'
  <2>1. /\ id \notin IssuedIn(period)
        /\ \A p \in StatPeriods :
             /\ IssuedIn(p)' = IF p = period THEN IssuedIn(p) \cup {id} ELSE IssuedIn(p)
             /\ PassedIn(p)' = PassedIn(p)
    BY <1>1, <1>2 DEF IssuedIn, PassedIn
  <2>2. Plus(Cardinality(IssuedIn(period)), 1) = Cardinality(IssuedIn(period) \cup {id})
    BY <2>1, ChallengeSetSize DEF IssuedIn
  <2>3. /\ stats'[period].challengesIssued = Plus(stats[period].challengesIssued, 1)
        /\ stats'[period].challengesPassed = stats[period].challengesPassed
        /\ \A p \in StatPeriods \ {period} : stats'[p] = stats[p]
    BY <1>1 DEF TypeOK, IssueChallenge, PeriodRecord
  <2>4. QED
    BY <2>1, <2>2, <2>3 DEF ChallengeCountersExact, PeriodCountersExact
<1>6. QED
  BY <1>3, <1>4, <1>5 DEF ChallengeCountersExact

(* An answer marks one challenge; a valid one is counted for its node and  *)
(* for the period the challenge was issued in, which may be a past one.    *)
LEMMA SubmitKeepsCounters ==
  ASSUME TypeOK, ChallengeCountersExact,
         NEW caller \in Providers, NEW id \in ChallengeIds, NEW proofValid \in BOOLEAN,
         SubmitProof(caller, id, proofValid)
  PROVE  ChallengeCountersExact'
<1> DEFINE q == challenge[id].issuedPeriod
<1>1. /\ challenge[id] # NoChallenge /\ challenge[id] \in ChallengeRecord
      /\ challenge[id].nodeAddress = caller /\ ~challenge[id].passed
      /\ q \in Periods
  BY DEF TypeOK, SubmitProof, Answerable, ChallengeCountersExact, ChallengesWellFormed
<1>2. /\ challenge'[id] # NoChallenge
      /\ challenge'[id].nodeAddress = caller /\ challenge'[id].issuedPeriod = q
      /\ challenge'[id].resolved /\ challenge'[id].passed = proofValid
      /\ \A c \in ChallengeIds \ {id} : challenge'[c] = challenge[c]
  <2>1. /\ challenge'[id] = [challenge[id] EXCEPT !.resolved = TRUE, !.passed = proofValid]
        /\ \A c \in ChallengeIds \ {id} : challenge'[c] = challenge[c]
    BY DEF TypeOK, SubmitProof, Answerable
  <2>2. challenge'[id] \in ChallengeRecord
    BY <1>1, <2>1 DEF ChallengeRecord
  <2>3. challenge'[id] # NoChallenge
    BY <2>2, AbsentAssumption
  <2>4. QED
    BY <1>1, <2>1, <2>3 DEF ChallengeRecord
<1>3. node[caller] # NoNode
  BY <1>1 DEF ChallengeCountersExact, NodeCountersExact, ChallengesOf
<1>4. ChallengesWellFormed'
  BY <1>1, <1>2 DEF ChallengeCountersExact, ChallengesWellFormed
<1>5. \A a \in Providers : ChallengesOf(a)' = ChallengesOf(a)
  BY <1>1, <1>2 DEF ChallengesOf
<1>6. \A a \in Providers :
        PassedOf(a)' = IF a = caller /\ proofValid THEN PassedOf(a) \cup {id} ELSE PassedOf(a)
  BY <1>1, <1>2, <1>5 DEF PassedOf, ChallengesOf
<1>7. \A p \in StatPeriods :
        /\ IssuedIn(p)' = IssuedIn(p)
        /\ PassedIn(p)' = IF p = q /\ proofValid THEN PassedIn(p) \cup {id} ELSE PassedIn(p)
  BY <1>1, <1>2 DEF IssuedIn, PassedIn
<1>8. NodeCountersExact'
  <2>1. ASSUME proofValid
        PROVE  /\ node'[caller] # NoNode
               /\ node'[caller].totalChallenges = node[caller].totalChallenges
               /\ node'[caller].passedChallenges = Plus(node[caller].passedChallenges, 1)
               /\ node'[caller].lastChallengedPeriod = node[caller].lastChallengedPeriod
    <3>1. node[caller] \in NodeRecord
      BY <1>3 DEF TypeOK
    <3>2. node'[caller] = [node[caller] EXCEPT !.passedChallenges = Plus(@, 1)]
      BY <1>3, <2>1 DEF TypeOK, SubmitProof, Answerable
    <3>3. node'[caller] \in NodeRecord
      BY <3>1, <3>2, StepType DEF NodeRecord
    <3>4. QED
      BY <3>1, <3>2, <3>3, RecordIsNoNode DEF NodeRecord
  <2>2. Plus(Cardinality(PassedOf(caller)), 1) = Cardinality(PassedOf(caller) \cup {id})
    BY <1>1, ChallengeSetSize DEF PassedOf, ChallengesOf
  <2>3. ASSUME NEW a \in Providers, ~(a = caller /\ proofValid)
        PROVE  node'[a] = node[a]
    BY <2>3 DEF TypeOK, SubmitProof, Answerable
  <2>4. \A c \in ChallengeIds : challenge[c] # NoChallenge =>
          challenge'[c].issuedPeriod = challenge[c].issuedPeriod
    BY <1>2
  <2>5. ASSUME NEW a \in Providers
        PROVE  /\ node'[a] = NoNode => ChallengesOf(a)' = {}
               /\ node'[a] # NoNode =>
                    /\ node'[a].totalChallenges = Cardinality(ChallengesOf(a)')
                    /\ node'[a].passedChallenges = Cardinality(PassedOf(a)')
                    /\ node'[a].lastChallengedPeriod # NeverChallenged =>
                         \E c \in ChallengesOf(a)' :
                           challenge'[c].issuedPeriod = node'[a].lastChallengedPeriod
    <3>1. \A c \in ChallengesOf(a) : challenge'[c].issuedPeriod = challenge[c].issuedPeriod
      BY <2>4 DEF ChallengesOf
    <3>2. CASE a = caller /\ proofValid
      BY <3>1, <3>2, <1>3, <1>5, <1>6, <2>1, <2>2
         DEF ChallengeCountersExact, NodeCountersExact
    <3>3. CASE ~(a = caller /\ proofValid)
      BY <3>1, <3>3, <1>5, <1>6, <2>3 DEF ChallengeCountersExact, NodeCountersExact
    <3>4. QED
      BY <3>2, <3>3
  <2>6. QED
    BY <2>5 DEF NodeCountersExact
<1>9. PeriodCountersExact'
  <2>1. q \in StatPeriods /\ stats[q] \in PeriodRecord
    BY <1>1 DEF TypeOK, StatPeriods
  <2>2. /\ stats'[q].challengesIssued = stats[q].challengesIssued
        /\ stats'[q].challengesPassed =
             IF proofValid THEN Plus(stats[q].challengesPassed, 1)
             ELSE stats[q].challengesPassed
        /\ \A p \in StatPeriods \ {q} : stats'[p] = stats[p]
    BY <2>1 DEF TypeOK, SubmitProof, Answerable, PeriodRecord
  <2>3. Plus(Cardinality(PassedIn(q)), 1) = Cardinality(PassedIn(q) \cup {id})
    BY <1>1, ChallengeSetSize DEF PassedIn, IssuedIn
  <2>4. QED
    BY <1>7, <2>1, <2>2, <2>3 DEF ChallengeCountersExact, PeriodCountersExact
<1>10. QED
  BY <1>4, <1>8, <1>9 DEF ChallengeCountersExact

(* An expiry resolves challenges that were not passed: nothing is counted. *)
LEMMA ExpiryKeepsCounters ==
  ASSUME TypeOK, ChallengeCountersExact,
         NEW ids \in SUBSET ChallengeIds, ResolveExpiredChallenges(ids)
  PROVE  ChallengeCountersExact'
<1>1. ASSUME NEW c \in ChallengeIds
      PROVE  /\ challenge'[c] = NoChallenge <=> challenge[c] = NoChallenge
             /\ challenge[c] # NoChallenge =>
                  /\ challenge'[c].nodeAddress = challenge[c].nodeAddress
                  /\ challenge'[c].issuedPeriod = challenge[c].issuedPeriod
                  /\ challenge'[c].passed = challenge[c].passed
                  /\ challenge'[c].passed => challenge'[c].resolved
  <2>1. CASE c \in ids /\ Expired(c)
    <3>1. /\ challenge[c] \in ChallengeRecord /\ challenge[c] # NoChallenge
          /\ ~challenge[c].passed
      BY <2>1 DEF TypeOK, Expired, ChallengeCountersExact, ChallengesWellFormed
    <3>2. challenge'[c] = [challenge[c] EXCEPT !.resolved = TRUE, !.passed = FALSE]
      BY <2>1 DEF ResolveExpiredChallenges
    <3>3. challenge'[c] \in ChallengeRecord
      BY <3>1, <3>2 DEF ChallengeRecord
    <3>4. QED
      BY <3>1, <3>2, <3>3, AbsentAssumption DEF ChallengeRecord
  <2>2. CASE ~(c \in ids /\ Expired(c))
    BY <2>2 DEF ResolveExpiredChallenges, ChallengeCountersExact, ChallengesWellFormed
  <2>3. QED
    BY <2>1, <2>2
<1>2. /\ \A a \in Providers : ChallengesOf(a)' = ChallengesOf(a) /\ PassedOf(a)' = PassedOf(a)
      /\ \A p \in StatPeriods : IssuedIn(p)' = IssuedIn(p) /\ PassedIn(p)' = PassedIn(p)
  BY <1>1 DEF ChallengesOf, PassedOf, IssuedIn, PassedIn
<1>3. node' = node /\ stats' = stats
  BY DEF ResolveExpiredChallenges
<1>4. ChallengesWellFormed'
  BY <1>1 DEF ChallengeCountersExact, ChallengesWellFormed
<1>5. NodeCountersExact'
  <2>1. \A a \in Providers : \A c \in ChallengesOf(a) :
          challenge'[c].issuedPeriod = challenge[c].issuedPeriod
    BY <1>1 DEF ChallengesOf
  <2>2. QED
    BY <1>2, <1>3, <2>1 DEF ChallengeCountersExact, NodeCountersExact
<1>6. PeriodCountersExact'
  BY <1>2, <1>3 DEF ChallengeCountersExact, PeriodCountersExact
<1>7. QED
  BY <1>4, <1>5, <1>6 DEF ChallengeCountersExact

LEMMA NextCounters ==
  TypeOK /\ ChallengeCountersExact /\ [Next]_vars => ChallengeCountersExact'
<1> SUFFICES ASSUME TypeOK, ChallengeCountersExact, [Next]_vars
             PROVE  ChallengeCountersExact'
  OBVIOUS
<1>1. CASE Tick
  BY <1>1, UntouchedCounters, CountersFrame DEF Tick
<1>2. CASE RegistrationNext
  <2>1. ASSUME NEW caller \in Providers, NEW meta \in Metadata \cup {NoMetadata},
               UpdateProviderMetadata(caller, meta)
        PROVE  ChallengeCountersExact'
    BY <2>1, UntouchedCounters, CountersFrame DEF UpdateProviderMetadata
  <2>2. QED
    BY <1>2, <2>1, RegisterKeepsCounters, UpdateKeepsCounters, UnregisterKeepsCounters,
       CountersFrame DEF RegistrationNext
<1>3. CASE ChallengeNext
  BY <1>3, IssueKeepsCounters, SubmitKeepsCounters, ExpiryKeepsCounters DEF ChallengeNext
<1>4. CASE RewardNext
  <2>1. ASSUME NEW amount \in Deposits, FundContract(amount)
        PROVE  ChallengeCountersExact'
    BY <2>1, UntouchedCounters, CountersFrame DEF FundContract
  <2>2. QED
    BY <1>4, <2>1, DistributeKeepsCounters, ClaimKeepsCounters, CountersFrame DEF RewardNext
<1>5. CASE UploaderNext
  BY <1>5, UntouchedCounters, CountersFrame
     DEF UploaderNext, RegisterAsUploader, AddToIndex, RecordFileUpload, RemoveFileUpload
<1>6. CASE AdminNext
  BY <1>6, UntouchedCounters, CountersFrame
     DEF AdminNext, UpdateConfig, AddChallenger, RemoveChallenger, SetChallenger,
         AddStorageAdmin, RemoveStorageAdmin, SetStorageAdmins, SetUploaderPricePerGbAdmin,
         SetPaused, TransferAdmin
<1>7. CASE UNCHANGED vars
  BY <1>7, UntouchedCounters, CountersFrame DEF vars
<1>8. QED
  BY <1>1, <1>2, <1>3, <1>4, <1>5, <1>6, <1>7 DEF Next

(* The counters of every node and of every period are the numbers of the   *)
(* challenges stored for them, in every reachable state.                   *)
THEOREM ChallengeCountersCorrect == Spec => []ChallengeCountersExact
<1>1. QED
  BY InitCounters, NextCounters, TypeCorrect, PTL DEF Spec

-----------------------------------------------------------------------------
(* Verdicts *)

LEMMA StepKeepsVerdicts ==
  TypeOK /\ ChallengeCountersExact /\ [Next]_vars => VerdictStep
<1> SUFFICES ASSUME TypeOK, ChallengeCountersExact, [Next]_vars,
                    NEW c \in ChallengeIds, challenge[c] # NoChallenge
             PROVE  /\ challenge'[c] # NoChallenge
                    /\ challenge'[c].nodeAddress = challenge[c].nodeAddress
                    /\ challenge'[c].issuedPeriod = challenge[c].issuedPeriod
                    /\ challenge'[c].deadline = challenge[c].deadline
                    /\ challenge[c].resolved => challenge'[c] = challenge[c]
                    /\ now > challenge[c].deadline =>
                         challenge'[c].passed = challenge[c].passed
  BY DEF VerdictStep
<1> DEFINE Kept == challenge'[c] = challenge[c]
<1>1. challenge[c] \in ChallengeRecord /\ now \in Int /\ challenge[c].deadline \in Int
  BY ClockAssumption DEF TypeOK, ChallengeRecord, U64
<1>2. ASSUME NEW caller \in Operators, NEW id \in ChallengeIds, NEW target \in Providers,
             IssueChallenge(caller, id, target)
      PROVE  Kept
  BY <1>2 DEF TypeOK, IssueChallenge
<1>3. ASSUME NEW caller \in Providers, NEW id \in ChallengeIds, NEW proofValid \in BOOLEAN,
             SubmitProof(caller, id, proofValid), id = c
      PROVE  /\ challenge'[c] = [challenge[c] EXCEPT !.resolved = TRUE, !.passed = proofValid]
             /\ ~challenge[c].resolved
             /\ ~(now > challenge[c].deadline)
  BY <1>1, <1>3 DEF TypeOK, SubmitProof, Answerable
<1>4. ASSUME NEW caller \in Providers, NEW id \in ChallengeIds, NEW proofValid \in BOOLEAN,
             SubmitProof(caller, id, proofValid), id # c
      PROVE  Kept
  BY <1>4 DEF TypeOK, SubmitProof
<1>5. ASSUME NEW ids \in SUBSET ChallengeIds, ResolveExpiredChallenges(ids)
      PROVE  \/ Kept
             \/ /\ challenge'[c] = [challenge[c] EXCEPT !.resolved = TRUE, !.passed = FALSE]
                /\ ~challenge[c].resolved
  BY <1>5 DEF ResolveExpiredChallenges, Expired
<1>6. ~challenge[c].resolved => challenge[c].passed = FALSE
  BY <1>1 DEF ChallengeCountersExact, ChallengesWellFormed, ChallengeRecord
<1>7. ASSUME NEW r \in BOOLEAN, NEW v \in BOOLEAN,
             challenge'[c] = [challenge[c] EXCEPT !.resolved = r, !.passed = v]
      PROVE  /\ challenge'[c] \in ChallengeRecord
             /\ challenge'[c].nodeAddress = challenge[c].nodeAddress
             /\ challenge'[c].issuedPeriod = challenge[c].issuedPeriod
             /\ challenge'[c].deadline = challenge[c].deadline
             /\ challenge'[c].passed = v
  BY <1>1, <1>7 DEF ChallengeRecord
<1>8. CASE ChallengeNext
  BY <1>2, <1>3, <1>4, <1>5, <1>6, <1>7, <1>8, AbsentAssumption DEF ChallengeNext
<1>9. CASE ~ChallengeNext
  <2>1. UNCHANGED challenge
    BY <1>9 DEF Next, vars, Tick, RegistrationNext, RegisterStorageNode,
       UpdateStorageAllocation, UnregisterStorageNode, UpdateProviderMetadata, RewardNext,
       DistributeRewards, ClaimRewards, FundContract, UploaderNext, RegisterAsUploader,
       RecordFileUpload, RemoveFileUpload, AdminNext, UpdateConfig, AddChallenger,
       RemoveChallenger, SetChallenger, AddStorageAdmin, RemoveStorageAdmin,
       SetStorageAdmins, SetUploaderPricePerGbAdmin, SetPaused, TransferAdmin
  <2>2. QED
    BY ONLY <2>1, challenge[c] # NoChallenge, ZenonT(40)
<1>10. QED
  BY <1>8, <1>9

(* A challenge that is stored keeps its node, period and deadline, and one *)
(* that is resolved keeps its verdict, whoever calls what.                 *)
THEOREM VerdictsCorrect == Spec => VerdictFinal
<1>1. TypeOK /\ ChallengeCountersExact /\ [Next]_vars => [VerdictStep]_vars
  BY StepKeepsVerdicts
<1>2. QED
  BY <1>1, TypeCorrect, ChallengeCountersCorrect, PTL DEF Spec, VerdictFinal

-----------------------------------------------------------------------------
(* Settled periods and pending rewards *)

(* What a call that neither distributes nor pays does to the rewards *)
RewardsKept ==
  /\ \A p \in StatPeriods :
       /\ stats'[p].rewardsDistributed = stats[p].rewardsDistributed
       /\ stats'[p].totalRewardsDistributed = stats[p].totalRewardsDistributed
  /\ \A a \in Registered : node'[a].pendingRewards = node[a].pendingRewards
  /\ received' = received

LEMMA UnchangedRewards ==
  ASSUME UNCHANGED <<node, stats, received>>
  PROVE  RewardsKept
BY DEF RewardsKept

LEMMA RegistrationKeepsRewards ==
  ASSUME TypeOK, RegistrationNext
  PROVE  RewardsKept
<1> USE DEF coinVars
<1>1. period \in StatPeriods
  BY DEF TypeOK, StatPeriods
<1>2. ASSUME NEW caller \in Providers, NEW gb \in Allocations,
             NEW meta \in Metadata \cup {NoMetadata}, RegisterStorageNode(caller, gb, meta)
      PROVE  RewardsKept
  BY <1>1, <1>2 DEF TypeOK, RegisterStorageNode, RewardsKept, Registered, PeriodRecord
<1>3. ASSUME NEW caller \in Providers, NEW gb \in Allocations,
             UpdateStorageAllocation(caller, gb)
      PROVE  RewardsKept
  <2>1. \A a \in Registered : node'[a].pendingRewards = node[a].pendingRewards
    BY <1>3 DEF TypeOK, UpdateStorageAllocation, Registered, NodeRecord
  <2>2. QED
    BY <1>1, <1>3, <2>1 DEF TypeOK, UpdateStorageAllocation, RewardsKept, PeriodRecord
<1>4. ASSUME NEW caller \in Providers, UnregisterStorageNode(caller)
      PROVE  RewardsKept
  <2>1. \A a \in Registered : node'[a].pendingRewards = node[a].pendingRewards
    BY <1>4 DEF TypeOK, UnregisterStorageNode, Active, Registered, NodeRecord
  <2>2. QED
    BY <1>1, <1>4, <2>1 DEF TypeOK, UnregisterStorageNode, RewardsKept, PeriodRecord
<1>5. ASSUME NEW caller \in Providers, NEW meta \in Metadata \cup {NoMetadata},
             UpdateProviderMetadata(caller, meta)
      PROVE  RewardsKept
  BY <1>5, UnchangedRewards DEF UpdateProviderMetadata
<1>6. QED
  BY <1>2, <1>3, <1>4, <1>5 DEF RegistrationNext

LEMMA ChallengesKeepRewards ==
  ASSUME TypeOK, ChallengeNext
  PROVE  RewardsKept
<1> USE DEF coinVars
<1>1. period \in StatPeriods
  BY DEF TypeOK, StatPeriods
<1>2. ASSUME NEW caller \in Operators, NEW id \in ChallengeIds, NEW target \in Providers,
             IssueChallenge(caller, id, target)
      PROVE  RewardsKept
  <2>1. \A a \in Registered : node'[a].pendingRewards = node[a].pendingRewards
    BY <1>2 DEF TypeOK, IssueChallenge, Active, Registered, NodeRecord
  <2>2. \A p \in StatPeriods :
          /\ stats'[p].rewardsDistributed = stats[p].rewardsDistributed
          /\ stats'[p].totalRewardsDistributed = stats[p].totalRewardsDistributed
    <3>1. stats' = [stats EXCEPT ![period].challengesIssued = Plus(@, 1)]
      BY <1>2 DEF IssueChallenge
    <3>2. QED
      BY <1>1, <3>1 DEF TypeOK, PeriodRecord
  <2>3. QED
    BY <1>2, <2>1, <2>2 DEF RewardsKept, IssueChallenge
<1>3. ASSUME NEW caller \in Providers, NEW id \in ChallengeIds, NEW proofValid \in BOOLEAN,
             SubmitProof(caller, id, proofValid)
      PROVE  RewardsKept
  <2>1. \A a \in Registered : node'[a].pendingRewards = node[a].pendingRewards
    BY <1>3 DEF TypeOK, SubmitProof, Registered, NodeRecord
  <2>2. \A p \in StatPeriods :
          /\ stats'[p].rewardsDistributed = stats[p].rewardsDistributed
          /\ stats'[p].totalRewardsDistributed = stats[p].totalRewardsDistributed
    BY <1>3 DEF TypeOK, SubmitProof, PeriodRecord
  <2>3. QED
    BY <1>3, <2>1, <2>2 DEF RewardsKept, SubmitProof
<1>4. ASSUME NEW ids \in SUBSET ChallengeIds, ResolveExpiredChallenges(ids)
      PROVE  RewardsKept
  BY <1>4, UnchangedRewards DEF ResolveExpiredChallenges
<1>5. QED
  BY <1>2, <1>3, <1>4 DEF ChallengeNext

LEMMA ClaimTakesAll ==
  ASSUME TypeOK, NEW caller \in Providers, ClaimRewards(caller)
  PROVE  /\ caller \in Registered /\ node'[caller].pendingRewards = 0
         /\ \A a \in Registered \ {caller} : node'[a].pendingRewards = node[a].pendingRewards
         /\ stats' = stats
BY DEF TypeOK, ClaimRewards, Registered, NodeRecord

(* Only distributeRewards settles a period or credits a provider, and only *)
(* claimRewards pays.                                                      *)
LEMMA RewardFrame ==
  ASSUME TypeOK, [Next]_vars
  PROVE  \/ RewardsKept
         \/ \E caller \in Providers : ClaimRewards(caller)
         \/ \E caller \in Operators, p \in RewardPeriods, list \in RewardLists :
              DistributeRewards(caller, p, list)
<1> USE DEF coinVars
<1>1. CASE Tick
  BY <1>1, UnchangedRewards DEF Tick
<1>2. ASSUME NEW amount \in Deposits, FundContract(amount)
      PROVE  RewardsKept
  BY <1>2, UnchangedRewards DEF FundContract
<1>3. CASE RewardNext
  BY <1>2, <1>3 DEF RewardNext
<1>4. CASE UploaderNext
  BY <1>4, UnchangedRewards
     DEF UploaderNext, RegisterAsUploader, RecordFileUpload, RemoveFileUpload
<1>5. CASE AdminNext
  BY <1>5, UnchangedRewards
     DEF AdminNext, UpdateConfig, AddChallenger, RemoveChallenger, SetChallenger,
         AddStorageAdmin, RemoveStorageAdmin, SetStorageAdmins, SetUploaderPricePerGbAdmin,
         SetPaused, TransferAdmin
<1>6. CASE UNCHANGED vars
  BY <1>6, UnchangedRewards DEF vars
<1>7. QED
  BY <1>1, <1>3, <1>4, <1>5, <1>6, RegistrationKeepsRewards, ChallengesKeepRewards DEF Next

LEMMA StepKeepsSettled == TypeOK /\ [Next]_vars => SettledStep
<1> SUFFICES ASSUME TypeOK, [Next]_vars PROVE SettledStep
  OBVIOUS
<1>1. CASE RewardsKept
  BY <1>1 DEF RewardsKept, SettledStep
<1>2. ASSUME NEW caller \in Operators, NEW p \in RewardPeriods, NEW list \in RewardLists,
             DistributeRewards(caller, p, list)
      PROVE  SettledStep
  <2>1. ~stats[p].rewardsDistributed
    BY <1>2 DEF DistributeRewards, Due
  <2>2. \A q \in StatPeriods : q # p => stats'[q] = stats[q]
    BY <1>2 DEF TypeOK, DistributeRewards
  <2>3. QED
    BY <2>1, <2>2 DEF SettledStep
<1>3. ASSUME NEW caller \in Providers, ClaimRewards(caller)
      PROVE  SettledStep
  BY <1>3, ClaimTakesAll DEF SettledStep
<1>4. QED
  BY <1>1, <1>2, <1>3, RewardFrame

(* A settled period is never settled again, whatever list is submitted.    *)
THEOREM SettledCorrect == Spec => SettledOnce
<1>1. TypeOK /\ [Next]_vars => [SettledStep]_vars
  BY StepKeepsSettled
<1>2. QED
  BY <1>1, TypeCorrect, PTL DEF Spec, SettledOnce

-----------------------------------------------------------------------------
(* A credit is earned *)

(* Equal lifetime counters mean that every challenge was passed.           *)
LEMMA EqualCounters ==
  ASSUME ChallengeCountersExact, NEW a \in Registered,
         node[a].passedChallenges = node[a].totalChallenges
  PROVE  PassedOf(a) = ChallengesOf(a)
<1>1. IsFiniteSet(ChallengesOf(a))
  BY ChallengeIdAssumption, FS_Subset DEF ChallengesOf
<1>2. PassedOf(a) \in SUBSET ChallengesOf(a)
  BY DEF PassedOf
<1>3. Cardinality(ChallengesOf(a)) = Cardinality(PassedOf(a))
  BY DEF ChallengeCountersExact, NodeCountersExact, Registered
<1>4. QED
  BY <1>1, <1>2, <1>3, FS_Subset

LEMMA DistributeIsEarned ==
  ASSUME NeverChallenged \notin RewardPeriods, TypeOK, ChallengeCountersExact,
         NEW caller \in Operators, NEW p \in RewardPeriods, NEW list \in RewardLists,
         DistributeRewards(caller, p, list)
  PROVE  RewardStep
<1> SUFFICES ASSUME NEW a \in Registered,
                    node'[a].pendingRewards > node[a].pendingRewards
             PROVE  /\ Settles(p)
                    /\ a \in Active
                    /\ PassedOf(a) = ChallengesOf(a)
                    /\ \E c \in ChallengesOf(a) : challenge[c].issuedPeriod = p
  BY DEF RewardStep
<1>1. node[a] \in NodeRecord /\ node[a].pendingRewards \in Int
  BY DEF TypeOK, Registered, NodeRecord, U64
<1>2. a \in Rewarded(list)
  <2>1. a \notin Rewarded(list) => node'[a] = node[a]
    BY DEF DistributeRewards, Registered
  <2>2. QED
    BY <1>1, <2>1
<1>3. a \in Active /\ node[a].passedChallenges = node[a].totalChallenges
  BY <1>2 DEF Rewarded
<1>4. node[a].lastChallengedPeriod = p
  BY <1>2, <1>3 DEF Rewarded, DistributeRewards, Due, AllChallenged
<1>5. \E c \in ChallengesOf(a) : challenge[c].issuedPeriod = p
  BY <1>4 DEF ChallengeCountersExact, NodeCountersExact, Registered
<1>6. Settles(p)
  <2>1. p \in StatPeriods /\ stats[p] \in PeriodRecord
    BY DEF TypeOK, StatPeriods
  <2>2. stats'[p].rewardsDistributed
    BY <2>1 DEF TypeOK, DistributeRewards, PeriodRecord
  <2>3. QED
    BY <2>2 DEF Settles, DistributeRewards, Due
<1>7. QED
  BY <1>3, <1>5, <1>6, EqualCounters

LEMMA StepIsEarned ==
  ASSUME NeverChallenged \notin RewardPeriods
  PROVE  TypeOK /\ ChallengeCountersExact /\ [Next]_vars => RewardStep
<1> SUFFICES ASSUME TypeOK, ChallengeCountersExact, [Next]_vars PROVE RewardStep
  OBVIOUS
<1>1. \A a \in Registered : node[a].pendingRewards \in Nat
  BY DEF TypeOK, Registered, NodeRecord, U64
<1>2. CASE RewardsKept
  BY <1>1, <1>2 DEF RewardsKept, RewardStep
<1>3. ASSUME NEW caller \in Providers, ClaimRewards(caller)
      PROVE  RewardStep
  BY <1>1, <1>3, ClaimTakesAll DEF RewardStep
<1>4. QED
  BY <1>2, <1>3, RewardFrame, DistributeIsEarned

(* A provider's pending rewards grow only when a period is settled in      *)
(* which it was challenged, and only if it passed every challenge it ever  *)
(* got.  The assumption is needed: the period u64.MAX_VALUE is the initial *)
(* lastChallengedPeriod of a provider nobody challenged yet.               *)
THEOREM RewardsEarnedCorrect ==
  ASSUME NeverChallenged \notin RewardPeriods
  PROVE  Spec => RewardEarned
<1>1. TypeOK /\ ChallengeCountersExact /\ [Next]_vars => [RewardStep]_vars
  BY StepIsEarned
<1>2. QED
  BY <1>1, TypeCorrect, ChallengeCountersCorrect, PTL DEF Spec, RewardEarned
-----------------------------------------------------------------------------
(* Pausing *)

Frozen == UNCHANGED <<booked, usage, received, metadata, nodeIndex>>

(* What a paused contract still does to what PausedStep looks at           *)
LEMMA PausedFrame ==
  ASSUME paused, [Next]_vars
  PROVE  /\ Frozen
         /\ \/ UNCHANGED <<node, challenge>>
            \/ /\ \E caller \in Providers : node' = [node EXCEPT ![caller].active = FALSE]
               /\ UNCHANGED challenge
            \/ /\ \E ids \in SUBSET ChallengeIds : ResolveExpiredChallenges(ids)
               /\ UNCHANGED node
<1> USE DEF AssertNotPaused, Frozen, listVars, uploaderVars, coinVars
<1>1. CASE Tick
  BY <1>1 DEF Tick
<1>2. CASE RegistrationNext
  BY <1>2 DEF RegistrationNext, RegisterStorageNode, UpdateStorageAllocation,
     UpdateProviderMetadata, UnregisterStorageNode, RemoveFromList
<1>3. CASE ChallengeNext
  BY <1>3 DEF ChallengeNext, IssueChallenge, SubmitProof, ResolveExpiredChallenges
<1>4. CASE RewardNext
  BY <1>4 DEF RewardNext, DistributeRewards, ClaimRewards, FundContract
<1>5. CASE UploaderNext
  BY <1>5 DEF UploaderNext, RegisterAsUploader, RecordFileUpload, RemoveFileUpload
<1>6. CASE AdminNext
  BY <1>6 DEF AdminNext, UpdateConfig, AddChallenger, RemoveChallenger, SetChallenger,
     AddStorageAdmin, RemoveStorageAdmin, SetStorageAdmins, SetUploaderPricePerGbAdmin,
     SetPaused, TransferAdmin
<1>7. CASE UNCHANGED vars
  BY <1>7 DEF vars
<1>8. QED
  BY <1>1, <1>2, <1>3, <1>4, <1>5, <1>6, <1>7 DEF Next

LEMMA StepIsFrozen == TypeOK /\ [Next]_vars => (paused => PausedStep)
<1> SUFFICES ASSUME TypeOK, [Next]_vars, paused PROVE PausedStep
  OBVIOUS
<1>1. \A a \in Registered : node'[a] \in {node[a], [node[a] EXCEPT !.active = FALSE]}
  BY PausedFrame DEF TypeOK, Registered
<1>2. ASSUME NEW c \in ChallengeIds, challenge'[c] # challenge[c]
      PROVE  challenge[c] # NoChallenge /\ ~challenge'[c].passed
  <2>1. PICK ids \in SUBSET ChallengeIds : ResolveExpiredChallenges(ids)
    BY <1>2, PausedFrame
  <2>2. /\ challenge[c] # NoChallenge
        /\ challenge'[c] = [challenge[c] EXCEPT !.resolved = TRUE, !.passed = FALSE]
    BY <1>2, <2>1 DEF ResolveExpiredChallenges, Expired
  <2>3. QED
    BY <2>2 DEF TypeOK, ChallengeRecord
<1>3. ASSUME NEW p \in StatPeriods PROVE ~Settles(p)
  <2>1. ASSUME NEW caller \in Operators, NEW q \in RewardPeriods, NEW list \in RewardLists,
               DistributeRewards(caller, q, list)
        PROVE  FALSE
    BY <2>1 DEF DistributeRewards, AssertNotPaused
  <2>2. ASSUME NEW caller \in Providers, ClaimRewards(caller)
        PROVE  FALSE
    BY <2>2 DEF ClaimRewards, AssertNotPaused
  <2>3. RewardsKept
    BY <2>1, <2>2, RewardFrame
  <2>4. QED
    BY <2>3 DEF RewardsKept, Settles
<1>4. QED
  BY <1>1, <1>2, <1>3, PausedFrame DEF PausedStep, Frozen

(* A paused contract lets only departures, expiries, funding and the       *)
(* administrator through.                                                  *)
THEOREM PausedCorrect == Spec => PausedFreezes
<1>1. TypeOK /\ [Next]_vars => [paused => PausedStep]_vars
  BY StepIsFrozen
<1>2. QED
  BY <1>1, TypeCorrect, PTL DEF Spec, PausedFreezes

-----------------------------------------------------------------------------
(* The active providers of the periods *)

LEMMA FinitePeriods == IsFiniteSet(StatPeriods)
<1>1. IsFiniteSet(U64)
  BY ModAssumption, FS_Interval DEF U64
<1>2. QED
  BY <1>1, PeriodsInU64, FS_Subset

ActiveOf == [p \in StatPeriods |-> stats[p].activeNodes]

ActiveSum == SumOf(ActiveOf, StatPeriods) % Mod = Cardinality(Active)

(* What activeNodes does mean, since it does not count (ActiveNodesCounted *)
(* fails): the change of one period, so that the sum over the periods is,  *)
(* modulo 2^64, the number of active providers.                            *)
ActiveNodesAddUp ==
  MapThenSumSet(LAMBDA p : stats[p].activeNodes, StatPeriods) % Mod
    = Cardinality(Active)

(* The sum of the statement is the sum of this function. *)
LEMMA ActiveSumStated == ActiveSum => ActiveNodesAddUp
<1> DEFINE S == StatPeriods
           Body(g) == [s \in SUBSET S |-> IF s = {} THEN 0
                         ELSE stats[First(s)].activeNodes + g[s \ {First(s)}]]
           h == CHOOSE g : g = Body(g)
<1>1. MapThenSumSet(LAMBDA p : stats[p].activeNodes, S) = h[S]
  BY DEF MapThenSumSet, MapThenFoldSet, First
<1>2. ASSUME NEW g PROVE Sums(ActiveOf, S, g) <=> g = Body(g)
  <2>1. \A s \in SUBSET S : s # {} => ActiveOf[First(s)] = stats[First(s)].activeNodes
    BY FirstIsIn DEF ActiveOf
  <2>2. Body(g) = [s \in SUBSET S |-> IF s = {} THEN 0
                     ELSE ActiveOf[First(s)] + g[s \ {First(s)}]]
    BY <2>1
  <2>3. QED
    BY <2>2 DEF Sums
<1>3. \E g : Sums(ActiveOf, S, g)
  BY SumsExist, FinitePeriods
<1>4. Sums(ActiveOf, S, h) /\ Sums(ActiveOf, S, CHOOSE g : Sums(ActiveOf, S, g))
  BY <1>2, <1>3
<1>5. h[S] = (CHOOSE g : Sums(ActiveOf, S, g))[S]
  BY <1>4, SumsAgree, FinitePeriods
<1>6. QED
  BY <1>1, <1>5, SumOfIsSums DEF ActiveSum, ActiveNodesAddUp

LEMMA ActiveOfType == TypeOK => \A p \in StatPeriods : ActiveOf[p] \in U64 /\ ActiveOf[p] \in Int
BY DEF TypeOK, PeriodRecord, ActiveOf, U64

LEMMA FewActive ==
  /\ IsFiniteSet(Active) /\ Cardinality(Active) \in U64
<1>1. Active \subseteq Providers
  BY DEF Active, Registered
<1>2. IsFiniteSet(Active) /\ Cardinality(Active) <= Cardinality(Providers)
  BY <1>1, ActorAssumption, FS_Subset
<1>3. Cardinality(Active) \in Nat /\ Cardinality(Providers) \in Nat
  BY <1>2, ActorAssumption, FS_CardinalityType
<1>4. QED
  BY <1>2, <1>3, ActorAssumption, ModAssumption DEF U64

(* A counter and the number of active providers move together. *)
LEMMA ActiveMoves ==
  ASSUME TypeOK, TypeOK', ActiveSum, NEW p \in StatPeriods, NEW d \in {1, -1},
         \A q \in StatPeriods \ {p} : stats'[q].activeNodes = stats[q].activeNodes,
         stats'[p].activeNodes = (stats[p].activeNodes + d) % Mod,
         Cardinality(Active') = Cardinality(Active) + d,
         Cardinality(Active') \in U64
  PROVE  ActiveSum'
<1> DEFINE f == ActiveOf
           g == ActiveOf'
           m == Cardinality(Active)
           n == Cardinality(Active')
<1>1. \A q \in StatPeriods : f[q] \in Int /\ g[q] \in Int /\ g[q] \in U64
  <2>1. \A q \in StatPeriods : g[q] \in U64 /\ g[q] \in Int
    BY DEF TypeOK, PeriodRecord, ActiveOf, U64
  <2>2. QED
    BY <2>1, ActiveOfType
<1>2. /\ \A q \in StatPeriods \ {p} : g[q] = f[q]
      /\ g[p] = (f[p] + d) % Mod
  BY DEF ActiveOf
<1>3. SumOf(f, StatPeriods) % Mod = m /\ m \in Int /\ n = m + d /\ n \in U64 /\ d \in Int
  BY FewActive DEF ActiveSum, U64
<1>4. SumOf(g, StatPeriods) % Mod = n => ActiveSum'
  BY DEF ActiveSum
<1> HIDE DEF f, g, m, n
<1>5. g[p] % Mod = (f[p] + d) % Mod
  BY <1>1, <1>2, ModSmall
<1>6. SumOf(g, StatPeriods) % Mod = (SumOf(f, StatPeriods) + d) % Mod
  BY <1>1, <1>2, <1>3, <1>5, FinitePeriods, SumMoves
<1>7. SumOf(f, StatPeriods) \in Int
  BY <1>1, FinitePeriods, SumInt
<1>8. (SumOf(f, StatPeriods) + d) % Mod = (m + d) % Mod
  BY <1>3, <1>7, ModAdd
<1>9. QED
  BY <1>3, <1>4, <1>6, <1>8, ModSmall

(* Only these two calls touch the counters of active providers. *)
CountersOfActiveKept ==
  \A p \in StatPeriods : stats'[p].activeNodes = stats[p].activeNodes

LEMMA ActiveFrame ==
  ASSUME TypeOK, [Next]_vars
  PROVE  \/ \E caller \in Providers, gb \in Allocations, meta \in Metadata \cup {NoMetadata} :
              RegisterStorageNode(caller, gb, meta)
         \/ \E caller \in Providers : UnregisterStorageNode(caller)
         \/ CountersOfActiveKept
<1>1. ASSUME UNCHANGED stats PROVE CountersOfActiveKept
  BY <1>1 DEF CountersOfActiveKept
<1>2. ASSUME NEW caller \in Providers, NEW gb \in Allocations,
             UpdateStorageAllocation(caller, gb)
      PROVE  CountersOfActiveKept
  BY <1>2 DEF TypeOK, UpdateStorageAllocation, CountersOfActiveKept, PeriodRecord
<1>3. ASSUME NEW caller \in Operators, NEW id \in ChallengeIds, NEW target \in Providers,
             IssueChallenge(caller, id, target)
      PROVE  CountersOfActiveKept
  BY <1>3 DEF TypeOK, IssueChallenge, CountersOfActiveKept, PeriodRecord
<1>4. ASSUME NEW caller \in Providers, NEW id \in ChallengeIds, NEW proofValid \in BOOLEAN,
             SubmitProof(caller, id, proofValid)
      PROVE  CountersOfActiveKept
  BY <1>4 DEF TypeOK, SubmitProof, CountersOfActiveKept, PeriodRecord
<1>5. ASSUME NEW caller \in Operators, NEW p \in RewardPeriods, NEW list \in RewardLists,
             DistributeRewards(caller, p, list)
      PROVE  CountersOfActiveKept
  BY <1>5 DEF TypeOK, DistributeRewards, CountersOfActiveKept, PeriodRecord
<1>6. CASE RegistrationNext
  BY <1>1, <1>2, <1>6 DEF RegistrationNext, UpdateProviderMetadata
<1>7. CASE ChallengeNext
  BY <1>1, <1>3, <1>4, <1>7 DEF ChallengeNext, ResolveExpiredChallenges
<1>8. CASE RewardNext
  BY <1>1, <1>5, <1>8 DEF RewardNext, ClaimRewards, FundContract
<1>9. CASE Tick \/ UploaderNext \/ AdminNext \/ UNCHANGED vars
  <2>1. UNCHANGED stats
    BY <1>9
       DEF Tick, UploaderNext, RegisterAsUploader, RecordFileUpload, RemoveFileUpload,
           AdminNext, UpdateConfig, AddChallenger, RemoveChallenger, SetChallenger,
           AddStorageAdmin, RemoveStorageAdmin, SetStorageAdmins,
           SetUploaderPricePerGbAdmin, SetPaused, TransferAdmin, vars
  <2>2. QED
    BY <1>1, <2>1
<1>10. QED
  BY <1>6, <1>7, <1>8, <1>9 DEF Next

LEMMA InitActive == Init => ActiveSum
<1> SUFFICES ASSUME Init PROVE ActiveSum
  OBVIOUS
<1>1. \A p \in StatPeriods : ActiveOf[p] = 0
  BY DEF Init, FreshStats, ActiveOf
<1>2. SumOf(ActiveOf, StatPeriods) = 0
  BY <1>1, FinitePeriods, SumZero
<1>3. Active = {}
  BY DEF Init, Active, Registered
<1>4. QED
  BY <1>2, <1>3, FS_EmptySet, ModAssumption DEF ActiveSum
LEMMA StepActive == TypeOK /\ TypeOK' /\ ActiveSum /\ [Next]_vars => ActiveSum'
<1> SUFFICES ASSUME TypeOK, TypeOK', ActiveSum, [Next]_vars
             PROVE  ActiveSum'
  OBVIOUS
<1>1. /\ IsFiniteSet(Active) /\ Cardinality(Active) \in Int
      /\ Cardinality(Active') \in U64 /\ period \in StatPeriods
  <2>1. Active' \subseteq Providers
    BY DEF Active, Registered
  <2>2. IsFiniteSet(Active') /\ Cardinality(Active') <= Cardinality(Providers)
    BY <2>1, ActorAssumption, FS_Subset
  <2>3. Cardinality(Active') \in Nat /\ Cardinality(Providers) \in Nat
    BY <2>2, ActorAssumption, FS_CardinalityType
  <2>4. Cardinality(Active') \in U64
    BY <2>2, <2>3, ActorAssumption, ModAssumption DEF U64
  <2>5. QED
    BY <2>4, FewActive DEF U64, TypeOK, StatPeriods
<1>2. ASSUME NEW caller \in Providers, NEW gb \in Allocations,
             NEW meta \in Metadata \cup {NoMetadata}, RegisterStorageNode(caller, gb, meta)
      PROVE  ActiveSum'
  <2>1. Active' = Active \cup {caller} /\ caller \notin Active
    BY <1>2, RegisterGrows
  <2>2. Cardinality(Active') = Cardinality(Active) + 1
    BY <1>1, <2>1, FS_AddElement
  <2>3. /\ \A q \in StatPeriods \ {period} : stats'[q].activeNodes = stats[q].activeNodes
        /\ stats'[period].activeNodes = (stats[period].activeNodes + 1) % Mod
    BY <1>1, <1>2 DEF TypeOK, RegisterStorageNode, PeriodRecord, Plus
  <2>4. QED
    BY <1>1, <2>2, <2>3, ActiveMoves
<1>3. ASSUME NEW caller \in Providers, UnregisterStorageNode(caller)
      PROVE  ActiveSum'
  <2>1. Active' = Active \ {caller} /\ caller \in Active
    BY <1>3, UnregisterShrinks
  <2>2. Cardinality(Active') = Cardinality(Active) + -1
    <3>1. Cardinality(Active') = Cardinality(Active) - 1
      BY <1>1, <2>1, FS_RemoveElement
    <3>2. QED
      BY <1>1, <3>1
  <2>3. /\ \A q \in StatPeriods \ {period} : stats'[q].activeNodes = stats[q].activeNodes
        /\ stats'[period].activeNodes = (stats[period].activeNodes + -1) % Mod
    <3>1. /\ \A q \in StatPeriods \ {period} : stats'[q].activeNodes = stats[q].activeNodes
          /\ stats'[period].activeNodes = (stats[period].activeNodes - 1) % Mod
      BY <1>1, <1>3 DEF TypeOK, UnregisterStorageNode, PeriodRecord, Minus
    <3>2. stats[period].activeNodes - 1 = stats[period].activeNodes + -1
      BY <1>1 DEF TypeOK, PeriodRecord, U64
    <3>3. QED
      BY <3>1, <3>2
  <2>4. QED
    BY <1>1, <2>2, <2>3, ActiveMoves
<1>4. CASE CountersOfActiveKept /\ Active' = Active
  <2>1. ActiveOf' = ActiveOf
    BY <1>4 DEF ActiveOf, CountersOfActiveKept
  <2>2. QED
    BY <1>4, <2>1 DEF ActiveSum
<1>5. QED
  BY <1>2, <1>3, <1>4, ActiveFrame, ListFrame

(* The changes of activeNodes that the periods record add up, modulo the   *)
(* width of the counter, to the providers that are active: arrivals and    *)
(* departures are counted once each, in whatever periods they happen       *)
(* (registerStorageNode, unregisterStorageNode).  Of one period the field  *)
(* says nothing.                                                           *)
THEOREM ActiveNodesCorrect == Spec => []ActiveNodesAddUp
<1>1. Spec => []ActiveSum
  BY InitActive, StepActive, TypeCorrect, PTL DEF Spec
<1>2. QED
  BY <1>1, ActiveSumStated, PTL
-----------------------------------------------------------------------------
(* Rewards owed, paid and distributed *)

PendingOf     == [a \in Registered |-> node[a].pendingRewards]
DistributedOf == [p \in StatPeriods |-> stats[p].totalRewardsDistributed]

Owed        == SumOf(PendingOf, Registered)
Paid        == SumOf(received, Providers)
Distributed == SumOf(DistributedOf, StatPeriods)

(* A period that is not settled has distributed nothing. *)
RewardsBalance ==
  /\ (Owed + Paid) % Mod = Distributed % Mod
  /\ \A p \in StatPeriods :
       ~stats[p].rewardsDistributed => stats[p].totalRewardsDistributed = 0

LEMMA FiniteRegistered == IsFiniteSet(Registered)
BY ActorAssumption, FS_Subset DEF Registered

LEMMA OwedStated == Owed = MapThenSumSet(LAMBDA a : node[a].pendingRewards, Registered)
<1> DEFINE S == Registered
           Body(g) == [s \in SUBSET S |-> IF s = {} THEN 0
                         ELSE node[First(s)].pendingRewards + g[s \ {First(s)}]]
           h == CHOOSE g : g = Body(g)
<1>1. MapThenSumSet(LAMBDA a : node[a].pendingRewards, S) = h[S]
  BY DEF MapThenSumSet, MapThenFoldSet, First
<1>2. ASSUME NEW g PROVE Sums(PendingOf, S, g) <=> g = Body(g)
  <2>1. \A s \in SUBSET S : s # {} => PendingOf[First(s)] = node[First(s)].pendingRewards
    BY FirstIsIn DEF PendingOf
  <2>2. Body(g) = [s \in SUBSET S |-> IF s = {} THEN 0
                     ELSE PendingOf[First(s)] + g[s \ {First(s)}]]
    BY <2>1
  <2>3. QED
    BY <2>2 DEF Sums
<1>3. \E g : Sums(PendingOf, S, g)
  BY SumsExist, FiniteRegistered
<1>4. Sums(PendingOf, S, h) /\ Sums(PendingOf, S, CHOOSE g : Sums(PendingOf, S, g))
  BY <1>2, <1>3
<1>5. h[S] = (CHOOSE g : Sums(PendingOf, S, g))[S]
  BY <1>4, SumsAgree, FiniteRegistered
<1>6. QED
  BY <1>1, <1>5, SumOfIsSums DEF Owed

LEMMA DistributedStated ==
  Distributed = MapThenSumSet(LAMBDA p : stats[p].totalRewardsDistributed, StatPeriods)
<1> DEFINE S == StatPeriods
           Body(g) == [s \in SUBSET S |-> IF s = {} THEN 0
                         ELSE stats[First(s)].totalRewardsDistributed + g[s \ {First(s)}]]
           h == CHOOSE g : g = Body(g)
<1>1. MapThenSumSet(LAMBDA p : stats[p].totalRewardsDistributed, S) = h[S]
  BY DEF MapThenSumSet, MapThenFoldSet, First
<1>2. ASSUME NEW g PROVE Sums(DistributedOf, S, g) <=> g = Body(g)
  <2>1. \A s \in SUBSET S :
          s # {} => DistributedOf[First(s)] = stats[First(s)].totalRewardsDistributed
    BY FirstIsIn DEF DistributedOf
  <2>2. Body(g) = [s \in SUBSET S |-> IF s = {} THEN 0
                     ELSE DistributedOf[First(s)] + g[s \ {First(s)}]]
    BY <2>1
  <2>3. QED
    BY <2>2 DEF Sums
<1>3. \E g : Sums(DistributedOf, S, g)
  BY SumsExist, FinitePeriods
<1>4. Sums(DistributedOf, S, h) /\ Sums(DistributedOf, S, CHOOSE g : Sums(DistributedOf, S, g))
  BY <1>2, <1>3
<1>5. h[S] = (CHOOSE g : Sums(DistributedOf, S, g))[S]
  BY <1>4, SumsAgree, FinitePeriods
<1>6. QED
  BY <1>1, <1>5, SumOfIsSums DEF Distributed

LEMMA RewardsStated == RewardsBalance => RewardsAddUp
BY OwedStated, DistributedStated DEF RewardsBalance, RewardsAddUp, Paid, SumOf

LEMMA RewardSums ==
  ASSUME TypeOK
  PROVE  /\ \A a \in Registered : PendingOf[a] \in U64 /\ PendingOf[a] \in Int
         /\ \A a \in Providers : received[a] \in Int
         /\ \A p \in StatPeriods : DistributedOf[p] \in U64 /\ DistributedOf[p] \in Int
         /\ Owed \in Int /\ Paid \in Int /\ Distributed \in Int
<1>1. \A a \in Registered : PendingOf[a] \in U64 /\ PendingOf[a] \in Int
  BY DEF TypeOK, Registered, NodeRecord, PendingOf, U64
<1>2. \A a \in Providers : received[a] \in Int
  BY DEF TypeOK
<1>3. \A p \in StatPeriods : DistributedOf[p] \in U64 /\ DistributedOf[p] \in Int
  BY DEF TypeOK, PeriodRecord, DistributedOf, U64
<1>4. QED
  BY <1>1, <1>2, <1>3, FiniteRegistered, FinitePeriods, ActorAssumption, SumInt
     DEF Owed, Paid, Distributed

LEMMA InitRewards == Init => RewardsBalance
<1> SUFFICES ASSUME Init PROVE RewardsBalance
  OBVIOUS
<1>1. Registered = {} /\ \A a \in Providers : received[a] = 0
  BY DEF Init, Registered
<1>2. \A p \in StatPeriods : DistributedOf[p] = 0
  BY DEF Init, FreshStats, DistributedOf
<1>3. Owed = 0
  BY <1>1, SumEmpty DEF Owed
<1>4. Paid = 0
  BY <1>1, ActorAssumption, SumZero DEF Paid
<1>5. Distributed = 0
  BY <1>2, FinitePeriods, SumZero DEF Distributed
<1>6. QED
  BY <1>3, <1>4, <1>5 DEF Init, FreshStats, RewardsBalance
-----------------------------------------------------------------------------
(* What a call does to them *)

(* A newcomer is owed nothing. *)
LEMMA RegisterKeepsBalance ==
  ASSUME TypeOK, RewardsBalance,
         NEW caller \in Providers, NEW gb \in Allocations,
         NEW meta \in Metadata \cup {NoMetadata},
         RegisterStorageNode(caller, gb, meta), RewardsKept
  PROVE  Owed' = Owed
<1> DEFINE f == PendingOf
           g == PendingOf'
           S == Registered
<1>1. Registered' = S \cup {caller} /\ caller \notin S
  BY RegisterGrows
<1>2. node'[caller] = NewNode(gb)
  BY DEF TypeOK, RegisterStorageNode
<1>3. g[caller] = 0
  BY <1>1, <1>2 DEF PendingOf, NewNode
<1>4. \A a \in S : g[a] = f[a]
  BY <1>1 DEF PendingOf, RewardsKept
<1>5. \A a \in S : f[a] \in Int
  BY RewardSums
<1>6. Owed' = SumOf(g, S \cup {caller}) /\ Owed = SumOf(f, S) /\ IsFiniteSet(S)
  BY <1>1, FiniteRegistered DEF Owed
<1> HIDE DEF f, g, S
<1>7. SumOf(g, S \cup {caller}) = g[caller] + SumOf(g, S)
  BY <1>1, <1>3, <1>4, <1>5, <1>6, SumJoin
<1>8. SumOf(g, S) = SumOf(f, S) /\ SumOf(f, S) \in Int
  BY <1>4, <1>5, <1>6, SumSame, SumInt
<1>9. QED
  BY <1>3, <1>6, <1>7, <1>8

(* What is claimed moves from what is owed to what is paid. *)
LEMMA ClaimKeepsBalance ==
  ASSUME TypeOK, TypeOK', NEW caller \in Providers, ClaimRewards(caller),
         Registered' = Registered
  PROVE  Owed' + Paid' = Owed + Paid
<1> DEFINE f == PendingOf
           g == PendingOf'
           r == received
           q == received'
           S == Registered
           x == node[caller].pendingRewards
<1>1. /\ caller \in S
      /\ g[caller] = 0 /\ f[caller] = x
      /\ \A a \in S \ {caller} : g[a] = f[a]
  BY ClaimTakesAll DEF PendingOf
<1>2. q[caller] = r[caller] + x /\ \A a \in Providers \ {caller} : q[a] = r[a]
  BY DEF TypeOK, ClaimRewards
<1>3. \A a \in S : f[a] \in Int /\ g[a] \in Int
  <2>1. \A a \in S : f[a] \in Int
    BY RewardSums
  <2>2. QED
    BY <1>1, <2>1
<1>4. \A a \in Providers : r[a] \in Int /\ q[a] \in Int
  BY DEF TypeOK
<1>5. /\ Owed' = SumOf(g, S) /\ Owed = SumOf(f, S) /\ IsFiniteSet(S)
      /\ Paid' = SumOf(q, Providers) /\ Paid = SumOf(r, Providers) /\ x \in Int
      /\ Owed \in Int /\ Paid \in Int
  BY <1>1, <1>3, FiniteRegistered, RewardSums DEF Owed, Paid
<1> HIDE DEF f, g, r, q, S, x
<1>6. SumOf(g, S) = SumOf(f, S) + g[caller] - f[caller]
  BY <1>1, <1>3, <1>5, SumChange
<1>7. SumOf(q, Providers) = SumOf(r, Providers) + q[caller] - r[caller]
  BY <1>2, <1>4, ActorAssumption, SumChange
<1>8. QED
  BY <1>1, <1>2, <1>4, <1>5, <1>6, <1>7
(* The sum over the list is, provider by provider, the times it is named   *)
(* times what it earns.                                                    *)
CreditOf(list) ==
  [a \in Registered |-> IF a \in Rewarded(list) THEN Appearances(list, a) * Reward(a) ELSE 0]

LEMMA ListGrouped ==
  ASSUME TypeOK, NEW list \in RewardLists
  PROVE  RewardSum(list) = SumOf(CreditOf(list), Registered)
<1> DEFINE I == Credits(list)
           A == Registered
           w == [a \in A |-> IF a \in Rewarded(list) THEN Reward(a) ELSE 0]
           h == [a \in A |-> Cardinality({i \in I : list[i] = a}) * w[a]]
           u == [i \in I |-> w[list[i]]]
<1>1. IsFiniteSet(I) /\ IsFiniteSet(A)
  BY TotalRewardStated, FiniteRegistered
<1>2. \A i \in I : list[i] \in Rewarded(list) /\ list[i] \in A
  BY DEF Credits, Rewarded, Active
<1>3. \A a \in A : w[a] \in Int
  BY CreditType DEF U64
<1>4. SumOf(u, I) = SumOf(h, A)
  <2> HIDE DEF I, A, w
  <2>1. QED
    BY <1>1, <1>2, <1>3, SumGrouped
<1>5. SumOf(u, I) = RewardSum(list)
  <2>1. \A i \in I : u[i] = RewardsAt(list)[i]
    BY <1>2 DEF RewardsAt
  <2> HIDE DEF u
  <2>2. QED
    BY <1>1, <2>1, SumSame DEF RewardSum
<1>6. SumOf(h, A) = SumOf(CreditOf(list), A)
  <2>1. ASSUME NEW a \in A PROVE h[a] = CreditOf(list)[a]
    <3>1. CASE a \in Rewarded(list)
      <4>1. {i \in I : list[i] = a} = {i \in DOMAIN list : list[i] = a}
        BY <3>1 DEF Credits
      <4>2. QED
        BY <3>1, <4>1 DEF CreditOf, Appearances
    <3>2. CASE a \notin Rewarded(list)
      <4>1. IsFiniteSet({i \in I : list[i] = a})
        BY <1>1, FS_Subset
      <4>2. Cardinality({i \in I : list[i] = a}) \in Nat
        BY <4>1, FS_CardinalityType
      <4>3. h[a] = Cardinality({i \in I : list[i] = a}) * 0
        BY <3>2
      <4>4. CreditOf(list)[a] = 0
        BY <3>2 DEF CreditOf
      <4> HIDE DEF h, I
      <4>5. QED
        BY <4>2, <4>3, <4>4
    <3>3. QED
      BY <3>1, <3>2
  <2> HIDE DEF h
  <2>2. QED
    BY <1>1, <2>1, SumSame
<1>7. QED
  BY <1>4, <1>5, <1>6

(* What a provider is credited with has the remainder of what it earned.   *)
LEMMA CreditMoves ==
  ASSUME TypeOK, NEW caller \in Operators, NEW p \in RewardPeriods, NEW list \in RewardLists,
         DistributeRewards(caller, p, list), NEW a \in Registered
  PROVE  /\ CreditOf(list)[a] \in Int
         /\ node'[a].pendingRewards \in U64
         /\ node'[a].pendingRewards % Mod = (node[a].pendingRewards + CreditOf(list)[a]) % Mod
<1> DEFINE x == node[a].pendingRewards
           y == Appearances(list, a) * Reward(a)
<1>1. node[a] \in NodeRecord /\ x \in U64 /\ x \in Int /\ a \in Providers
  BY DEF TypeOK, Registered, NodeRecord, U64
<1>2. CASE a \in Rewarded(list)
  <2>1. Reward(a) \in Int /\ Appearances(list, a) \in Int
    BY <1>2, CreditType DEF U64
  <2>2. y \in Int /\ CreditOf(list)[a] = y
    BY <1>2, <2>1 DEF CreditOf
  <2>3. node'[a].pendingRewards = Plus(x, y % Mod)
    BY <1>1, <1>2 DEF DistributeRewards, NodeRecord, Times
  <2> HIDE DEF x, y
  <2>4. (x + (y % Mod)) % Mod = (x + y) % Mod
    <3>1. ((y % Mod) + x) % Mod = (y + x) % Mod
      BY <1>1, <2>2, ModAdd
    <3>2. y % Mod \in Int
      BY <2>2, DivMod
    <3>3. (y % Mod) + x = x + (y % Mod) /\ y + x = x + y
      BY <1>1, <2>2, <3>2
    <3>4. QED
      BY <3>1, <3>3
  <2>5. (x + y) % Mod \in U64 /\ ((x + y) % Mod) % Mod = (x + y) % Mod
    <3>1. x + y \in Int
      BY <1>1, <2>2
    <3>2. QED
      BY <3>1, ModType, ModSmall
  <2>6. QED
    BY <2>2, <2>3, <2>4, <2>5 DEF Plus, x
<1>3. CASE a \notin Rewarded(list)
  <2>1. node'[a] = node[a] /\ CreditOf(list)[a] = 0
    BY <1>1, <1>3 DEF DistributeRewards, CreditOf
  <2>2. x + 0 = x
    BY <1>1
  <2>3. QED
    BY <1>1, <2>1, <2>2
<1>4. QED
  BY <1>2, <1>3

(* The period records what the providers are credited with. *)
LEMMA DistributeKeepsBalance ==
  ASSUME TypeOK, TypeOK', RewardsBalance, Registered' = Registered,
         NEW caller \in Operators, NEW p \in RewardPeriods, NEW list \in RewardLists,
         DistributeRewards(caller, p, list)
  PROVE  (Owed' + Paid') % Mod = Distributed' % Mod
<1> DEFINE T == RewardSum(list)
<1>1. /\ T \in Int /\ TotalReward(list) = T % Mod
      /\ T = SumOf(CreditOf(list), Registered)
  BY TotalRewardStated, ListGrouped
<1> HIDE DEF T
<1>2. p \in StatPeriods /\ Paid' = Paid
  BY DEF StatPeriods, DistributeRewards, coinVars, Paid
<1>3. Owed' % Mod = (Owed + T) % Mod
  <2> DEFINE f == PendingOf
             g == PendingOf'
             h == CreditOf(list)
  <2>1. \A a \in Registered : f[a] \in Int /\ f[a] = node[a].pendingRewards
    BY RewardSums DEF PendingOf
  <2>2. \A a \in Registered : g[a] = node'[a].pendingRewards
    BY DEF PendingOf
  <2>3. \A a \in Registered : h[a] \in Int /\ g[a] \in Int /\ g[a] % Mod = (f[a] + h[a]) % Mod
    BY <2>1, <2>2, CreditMoves DEF U64
  <2>4. Owed = SumOf(f, Registered) /\ Owed' = SumOf(g, Registered)
    BY DEF Owed
  <2> HIDE DEF f, g, h
  <2>5. SumOf(g, Registered) % Mod = (SumOf(f, Registered) + SumOf(h, Registered)) % Mod
    BY <2>1, <2>3, FiniteRegistered, SumMovesAll
  <2>6. QED
    BY <1>1, <2>4, <2>5 DEF h
<1>4. Distributed' % Mod = (Distributed + T) % Mod
  <2> DEFINE f == DistributedOf
             g == DistributedOf'
  <2>1. f[p] = 0
    BY <1>2 DEF RewardsBalance, DistributeRewards, Due, DistributedOf
  <2>2. g[p] = T % Mod /\ \A q \in StatPeriods \ {p} : g[q] = f[q]
    BY <1>1, <1>2 DEF TypeOK, DistributeRewards, PeriodRecord, DistributedOf
  <2>3. \A q \in StatPeriods : f[q] \in Int /\ g[q] \in Int
    <3>1. T % Mod \in Int
      BY <1>1, DivMod
    <3>2. QED
      BY <2>2, <3>1, RewardSums
  <2>4. Distributed = SumOf(f, StatPeriods) /\ Distributed' = SumOf(g, StatPeriods)
    BY DEF Distributed
  <2> HIDE DEF f, g
  <2>5. g[p] % Mod = (f[p] + T) % Mod
    <3>1. T % Mod \in U64 /\ (T % Mod) % Mod = T % Mod /\ 0 + T = T
      BY <1>1, ModType, ModSmall
    <3>2. QED
      BY <2>1, <2>2, <3>1
  <2>6. SumOf(g, StatPeriods) % Mod = (SumOf(f, StatPeriods) + T) % Mod
    BY <1>1, <1>2, <2>2, <2>3, <2>5, FinitePeriods, SumMoves
  <2>7. QED
    BY <2>4, <2>6
<1> DEFINE x == Owed
           y == Owed'
           z == Paid
           d == Distributed
<1>5. /\ x \in Int /\ z \in Int /\ d \in Int /\ y \in Int /\ x + T \in Int /\ x + z \in Int
  <2>1. x \in Int /\ z \in Int /\ d \in Int
    BY RewardSums
  <2>2. \A a \in Registered : PendingOf'[a] \in Int
    BY DEF TypeOK, Registered, NodeRecord, PendingOf, U64
  <2>3. y = SumOf(PendingOf', Registered)
    BY DEF Owed
  <2>4. y \in Int
    BY <2>2, <2>3, FiniteRegistered, SumInt
  <2>5. QED
    BY <1>1, <2>1, <2>4
<1>6. (x + z) % Mod = d % Mod
  BY DEF RewardsBalance
<1> HIDE DEF x, y, z, d
<1>7. (y + z) % Mod = ((x + T) + z) % Mod
  BY <1>3, <1>5, ModSwap DEF x, y
<1>8. ((x + z) + T) % Mod = (d + T) % Mod
  BY <1>1, <1>5, <1>6, ModSwap
<1>9. (x + T) + z = (x + z) + T
  BY <1>1, <1>5
<1>10. QED
  BY <1>2, <1>4, <1>7, <1>8, <1>9 DEF x, y, z, d
LEMMA StepBalance == TypeOK /\ TypeOK' /\ RewardsBalance /\ [Next]_vars => RewardsBalance'
<1> SUFFICES ASSUME TypeOK, TypeOK', RewardsBalance, [Next]_vars
             PROVE  RewardsBalance'
  OBVIOUS
<1> DEFINE Fresh == \A p \in StatPeriods :
             ~stats[p].rewardsDistributed => stats[p].totalRewardsDistributed = 0
<1>1. CASE RewardsKept
  <2>1. DistributedOf' = DistributedOf /\ received' = received
    BY <1>1 DEF RewardsKept, DistributedOf
  <2>2. Distributed' = Distributed /\ Paid' = Paid
    BY <2>1 DEF Distributed, Paid
  <2>3. Fresh'
    BY <1>1 DEF RewardsBalance, RewardsKept
  <2>4. Owed' = Owed
    <3>1. ASSUME Registered' = Registered PROVE Owed' = Owed
      <4>1. PendingOf' = PendingOf
        BY <1>1, <3>1 DEF PendingOf, RewardsKept
      <4>2. QED
        BY <3>1, <4>1 DEF Owed
    <3>2. ASSUME NEW caller \in Providers, UnregisterStorageNode(caller)
          PROVE  Registered' = Registered
      BY <3>2, UnregisterShrinks
    <3>3. QED
      BY <1>1, <3>1, <3>2, ListFrame, RegisterKeepsBalance
  <2>5. QED
    BY <2>2, <2>3, <2>4 DEF RewardsBalance
<1>2. ASSUME NEW caller \in Providers, ClaimRewards(caller)
      PROVE  RewardsBalance'
  <2>1. Registered' = Registered
    <3>1. caller \in Registered /\ node[caller] \in NodeRecord
      BY <1>2, ClaimTakesAll DEF TypeOK, Registered
    <3>2. [node[caller] EXCEPT !.pendingRewards = 0] \in NodeRecord
      BY <3>1, StepType DEF NodeRecord
    <3>3. node' = [node EXCEPT ![caller] = [node[caller] EXCEPT !.pendingRewards = 0]]
      BY <1>2 DEF ClaimRewards
    <3>4. QED
      BY <3>1, <3>2, <3>3, RecordIsNoNode DEF TypeOK, Registered
  <2>2. Owed' + Paid' = Owed + Paid
    BY <1>2, <2>1, ClaimKeepsBalance
  <2>3. stats' = stats
    BY <1>2, ClaimTakesAll
  <2>4. Distributed' = Distributed
    BY <2>3 DEF Distributed, DistributedOf
  <2>5. QED
    BY <2>2, <2>3, <2>4 DEF RewardsBalance
<1>3. ASSUME NEW caller \in Operators, NEW p \in RewardPeriods, NEW list \in RewardLists,
             DistributeRewards(caller, p, list)
      PROVE  RewardsBalance'
  <2>1. Registered' = Registered
    <3>1. ASSUME NEW a \in Providers PROVE node[a] = NoNode <=> node'[a] = NoNode
      <4>1. CASE a \in Rewarded(list)
        <5>1. node'[a] = [node[a] EXCEPT
                !.pendingRewards = Plus(@, Times(Appearances(list, a), Reward(a))),
                !.lastRewardedPeriod = p]
          BY <1>3, <4>1 DEF DistributeRewards
        <5>2. /\ node[a] \in NodeRecord
              /\ Plus(node[a].pendingRewards, Times(Appearances(list, a), Reward(a))) \in U64
          BY <4>1, CreditType
        <5>3. p \in U64
          BY ClockAssumption
        <5>4. node'[a] \in NodeRecord
          BY <5>1, <5>2, <5>3 DEF NodeRecord
        <5>5. QED
          BY <5>2, <5>4, RecordIsNoNode
      <4>2. CASE a \notin Rewarded(list)
        BY <1>3, <4>2 DEF DistributeRewards
      <4>3. QED
        BY <4>1, <4>2
    <3>2. QED
      BY <3>1 DEF Registered
  <2>2. (Owed' + Paid') % Mod = Distributed' % Mod
    BY <1>3, <2>1, DistributeKeepsBalance
  <2>3. Fresh'
    <3>1. stats'[p].rewardsDistributed /\ \A q \in StatPeriods \ {p} : stats'[q] = stats[q]
      BY <1>3, ClockAssumption DEF TypeOK, DistributeRewards, PeriodRecord, StatPeriods
    <3>2. QED
      BY <3>1 DEF RewardsBalance
  <2>4. QED
    BY <2>2, <2>3 DEF RewardsBalance
<1>4. QED
  BY <1>1, <1>2, <1>3, RewardFrame

(* No reward is created, lost or paid twice.  Every nanoMAS a period says  *)
(* was distributed is either still owed to a provider or was paid to one,  *)
(* modulo the width of the counters, also when a list names a provider     *)
(* twice and when a provider claims after it left.                         *)
THEOREM RewardsCorrect == Spec => []RewardsAddUp
<1>1. Spec => []RewardsBalance
  BY InitRewards, StepBalance, TypeCorrect, PTL DEF Spec
<1>2. QED
  BY <1>1, RewardsStated, PTL
-----------------------------------------------------------------------------
(* Walks over an index *)

(* What a fold over the positions D of an index is defined by: the sum of  *)
(* f modulo Mod, the positions of K skipped                                *)
WalkOver(D, f, K, W) ==
  [s \in SUBSET D |-> IF s = {} THEN 0
     ELSE IF Max(s) \in K THEN W[s \ {Max(s)}]
     ELSE (W[s \ {Max(s)}] + f[Max(s)]) % Mod]

(* A walk that skips only zeros adds everything up. *)
LEMMA WalkIsSum ==
  ASSUME NEW D, IsFiniteSet(D), \A i \in D : i \in Int,
         NEW f, \A i \in D : f[i] \in Int, NEW K, \A i \in D \cap K : f[i] = 0, NEW W,
         W = WalkOver(D, f, K, W)
  PROVE  W[D] = SumOf(f, D) % Mod
<1> DEFINE B == {s \in SUBSET D : W[s] # SumOf(f, s) % Mod}
<1>1. SUFFICES ASSUME B # {} PROVE FALSE
  <2>1. D \notin B
    BY <1>1
  <2>2. QED
    BY <2>1
<1>2. PICK s \in B : \A t \in B : t \subseteq s => t = s
  <2>1. B \in SUBSET SUBSET D
    OBVIOUS
  <2> HIDE DEF B
  <2>2. QED
    BY <1>1, <2>1, MinimalSet
<1>3. s \subseteq D /\ IsFiniteSet(s) /\ W[s] # SumOf(f, s) % Mod
  BY FS_Subset
<1>4. s # {}
  <2>1. ASSUME s = {} PROVE FALSE
    <3>1. W[{}] = 0
      BY DEF WalkOver
    <3>2. SumOf(f, {}) = 0
      BY SumEmpty
    <3>3. 0 % Mod = 0
      BY ModAssumption
    <3>4. QED
      BY <1>3, <2>1, <3>1, <3>2, <3>3
  <2>2. QED
    BY <2>1
<1> DEFINE m == Max(s)
           r == s \ {m}
<1>5. m \in s
  BY <1>3, <1>4, MaxIsLargest
<1>6. W[s] = IF m \in K THEN W[r] ELSE (W[r] + f[m]) % Mod
  BY <1>3, <1>4 DEF WalkOver
<1>7. r \subseteq D /\ r # s /\ IsFiniteSet(r)
  BY <1>3, <1>5, FS_Subset
<1>8. W[r] = SumOf(f, r) % Mod
  BY <1>2, <1>7
<1>9. SumOf(f, s) = f[m] + SumOf(f, r)
  <2> HIDE DEF m
  <2>1. QED
    BY <1>3, <1>5, SumRemove
<1>10. SumOf(f, r) \in Int /\ f[m] \in Int
  <2> HIDE DEF r, m
  <2>1. QED
    BY <1>3, <1>5, <1>7, SumInt
<1>11. ((SumOf(f, r) % Mod) + f[m]) % Mod = (SumOf(f, r) + f[m]) % Mod
  BY <1>10, ModAdd
<1>12. SumOf(f, r) + f[m] = f[m] + SumOf(f, r)
  BY <1>10
<1>13. CASE m \in K
  <2>1. f[m] = 0 /\ W[s] = W[r]
    BY <1>3, <1>5, <1>6, <1>13
  <2>2. SumOf(f, s) = SumOf(f, r)
    BY <1>9, <1>10, <2>1
  <2>3. QED
    BY <1>3, <1>8, <2>1, <2>2
<1>14. CASE m \notin K
  <2>1. W[s] = (W[r] + f[m]) % Mod
    BY <1>6, <1>14
  <2>2. QED
    BY <1>3, <1>8, <1>9, <1>11, <1>12, <2>1
<1>15. QED
  BY <1>13, <1>14

(* Such a function exists: the sums themselves. *)
LEMMA WalkExists ==
  ASSUME NEW D, IsFiniteSet(D), \A i \in D : i \in Int,
         NEW f, \A i \in D : f[i] \in Int, NEW K, \A i \in D \cap K : f[i] = 0
  PROVE  \E W : W = WalkOver(D, f, K, W)
<1> DEFINE W == [s \in SUBSET D |-> SumOf(f, s) % Mod]
<1>1. ASSUME NEW s \in SUBSET D
      PROVE  W[s] = IF s = {} THEN 0
                    ELSE IF Max(s) \in K THEN W[s \ {Max(s)}]
                    ELSE (W[s \ {Max(s)}] + f[Max(s)]) % Mod
  <2>1. CASE s = {}
    <3>1. SumOf(f, {}) = 0 /\ 0 % Mod = 0
      BY ModAssumption, SumEmpty
    <3>2. QED
      BY <2>1, <3>1
  <2>2. CASE s # {}
    <3> DEFINE m == Max(s)
               r == s \ {m}
    <3>1. IsFiniteSet(s) /\ m \in s
      BY <2>2, FS_Subset, MaxIsLargest
    <3>2. r \in SUBSET D /\ IsFiniteSet(r)
      BY <3>1, FS_Subset
    <3>3. SumOf(f, s) = f[m] + SumOf(f, r)
      <4> HIDE DEF m
      <4>1. QED
        BY <3>1, SumRemove
    <3>4. SumOf(f, r) \in Int /\ f[m] \in Int
      <4>1. f[m] \in Int
        BY <3>1
      <4> HIDE DEF r, m
      <4>2. QED
        BY <3>2, <4>1, SumInt
    <3>5. ((SumOf(f, r) % Mod) + f[m]) % Mod = (SumOf(f, r) + f[m]) % Mod
      BY <3>4, ModAdd
    <3>6. SumOf(f, r) + f[m] = f[m] + SumOf(f, r)
      BY <3>4
    <3>7. W[s] = SumOf(f, s) % Mod /\ W[r] = SumOf(f, r) % Mod
      BY <3>2
    <3>8. CASE m \in K
      <4>1. f[m] = 0
        BY <3>1, <3>8
      <4>2. SumOf(f, s) = SumOf(f, r)
        BY <3>3, <3>4, <4>1
      <4>3. W[s] = W[r]
        BY <3>7, <4>2
      <4> HIDE DEF W
      <4>4. QED
        BY <2>2, <3>8, <4>3
    <3>9. CASE m \notin K
      <4>1. W[s] = (W[r] + f[m]) % Mod
        BY <3>3, <3>5, <3>6, <3>7
      <4> HIDE DEF W
      <4>2. QED
        BY <2>2, <3>9, <4>1
    <3>10. QED
      BY <3>8, <3>9
  <2>3. QED
    BY <2>1, <2>2
<1>2. W = WalkOver(D, f, K, W)
  <2>1. W = [s \in SUBSET D |-> W[s]]
    OBVIOUS
  <2> HIDE DEF W
  <2>2. QED
    BY <1>1, <2>1 DEF WalkOver
<1>3. QED
  BY <1>2
-----------------------------------------------------------------------------
(* The booked total *)

(* A position whose address occurred before *)
Repeated ==
  {i \in DOMAIN uploaderIndex : \E j \in 1 .. i - 1 : uploaderIndex[j] = uploaderIndex[i]}

BookedAt ==
  [i \in DOMAIN uploaderIndex |-> IF i \in Repeated THEN 0 ELSE booked[uploaderIndex[i]]]

LEMMA IndexPositions ==
  ASSUME NEW S, NEW index \in Seq(S)
  PROVE  /\ IsFiniteSet(DOMAIN index)
         /\ \A i \in DOMAIN index : i \in Int /\ i \in Nat \ {0} /\ index[i] \in S
<1>1. DOMAIN index = 1 .. Len(index) /\ Len(index) \in Nat
  OBVIOUS
<1>2. \A i \in DOMAIN index : index[i] \in S
  OBVIOUS
<1>3. IsFiniteSet(DOMAIN index)
  BY <1>1, FS_Interval
<1>4. QED
  BY <1>1, <1>2, <1>3

LEMMA BookedWalk == TypeOK => TotalBookedGb = SumOf(BookedAt, DOMAIN uploaderIndex) % Mod
<1> SUFFICES ASSUME TypeOK
             PROVE  TotalBookedGb = SumOf(BookedAt, DOMAIN uploaderIndex) % Mod
  OBVIOUS
<1> DEFINE D == DOMAIN uploaderIndex
           Q == [i \in D |-> i]
           Body(g) == [s \in SUBSET (DOMAIN Q) |-> IF s = {} THEN 0
                         ELSE IF \E j \in 1 .. Q[Max(s)] - 1 :
                                    uploaderIndex[j] = uploaderIndex[Q[Max(s)]]
                              THEN g[s \ {Max(s)}]
                              ELSE Plus(g[s \ {Max(s)}], booked[uploaderIndex[Q[Max(s)]]])]
           W == CHOOSE g : g = Body(g)
<1>1. TotalBookedGb = W[DOMAIN Q]
  BY DEF TotalBookedGb, FoldLeftDomain, FoldLeft, MapThenFoldSet
<1>2. DOMAIN Q = D
  OBVIOUS
<1>3. IsFiniteSet(D) /\ \A i \in D : i \in Int
  BY IndexPositions DEF TypeOK
<1>4. \A i \in D : BookedAt[i] \in Int
  <2>1. \A i \in D : uploaderIndex[i] \in Uploaders
    BY IndexPositions DEF TypeOK
  <2>2. QED
    BY <2>1 DEF TypeOK, BookedAt, U64
<1>5. \A i \in D \cap Repeated : BookedAt[i] = 0
  BY DEF BookedAt
<1>6. ASSUME NEW g PROVE Body(g) = WalkOver(D, BookedAt, Repeated, g)
  <2>1. ASSUME NEW s \in SUBSET D, s # {}
        PROVE  Max(s) \in D /\ Q[Max(s)] = Max(s)
    <3>1. IsFiniteSet(s) /\ \A i \in s : i \in Int
      BY <1>3, FS_Subset
    <3>2. QED
      BY <2>1, <3>1, MaxIsLargest
  <2>2. ASSUME NEW i \in D
        PROVE  /\ i \in Repeated <=> \E j \in 1 .. i - 1 : uploaderIndex[j] = uploaderIndex[i]
               /\ i \notin Repeated => BookedAt[i] = booked[uploaderIndex[i]]
    BY DEF Repeated, BookedAt
  <2>3. QED
    BY <1>2, <2>1, <2>2 DEF Plus, WalkOver
<1> HIDE DEF Body, D
<1>7. PICK g : g = WalkOver(D, BookedAt, Repeated, g)
  BY <1>3, <1>4, <1>5, WalkExists
<1>8. g = Body(g)
  BY <1>6, <1>7
<1>9. W = Body(W)
  BY <1>8
<1>10. W = WalkOver(D, BookedAt, Repeated, W)
  BY <1>6, <1>9
<1> HIDE DEF W
<1>11. W[D] = SumOf(BookedAt, D) % Mod
  BY <1>3, <1>4, <1>5, <1>10, WalkIsSum
<1>12. QED
  BY <1>1, <1>2, <1>11 DEF D

(* Every booking stands once in the index. *)
UploaderIndexExact ==
  /\ \A i, j \in DOMAIN uploaderIndex : uploaderIndex[i] = uploaderIndex[j] => i = j
  /\ \A u \in Uploaders :
       booked[u] # 0 => \E i \in DOMAIN uploaderIndex : uploaderIndex[i] = u

LEMMA BookedTotal == TypeOK /\ UploaderIndexExact => BookedTotalExact
<1> SUFFICES ASSUME TypeOK, UploaderIndexExact PROVE BookedTotalExact
  OBVIOUS
<1> DEFINE D == DOMAIN uploaderIndex
           u == [i \in D |-> booked[uploaderIndex[i]]]
           h == [a \in Uploaders |-> Cardinality({i \in D : uploaderIndex[i] = a}) * booked[a]]
<1>1. IsFiniteSet(D) /\ \A i \in D : uploaderIndex[i] \in Uploaders /\ i \in Nat \ {0}
  BY IndexPositions DEF TypeOK
<1>2. IsFiniteSet(Uploaders) /\ \A a \in Uploaders : booked[a] \in Int
  BY ActorAssumption DEF TypeOK, U64
<1>3. SumOf(BookedAt, D) = SumOf(u, D)
  <2>1. Repeated = {}
    <3>1. ASSUME NEW i \in D, NEW j \in 1 .. i - 1, uploaderIndex[j] = uploaderIndex[i]
          PROVE  FALSE
      <4>1. j \in D /\ j # i
        <5>1. D = 1 .. Len(uploaderIndex)
          BY DEF TypeOK
        <5>2. QED
          BY <5>1 DEF TypeOK
      <4>2. QED
        BY <3>1, <4>1 DEF UploaderIndexExact
    <3>2. QED
      BY <3>1 DEF Repeated
  <2>2. \A i \in D : BookedAt[i] = u[i]
    BY <2>1 DEF BookedAt
  <2> HIDE DEF u, D
  <2>3. QED
    BY <1>1, <2>2, SumSame
<1>4. SumOf(u, D) = SumOf(h, Uploaders)
  <2> HIDE DEF D
  <2>1. QED
    BY <1>1, <1>2, SumGrouped
<1>5. SumOf(h, Uploaders) = SumOf(booked, Uploaders)
  <2>1. ASSUME NEW a \in Uploaders PROVE h[a] = booked[a]
    <3> DEFINE I == {i \in D : uploaderIndex[i] = a}
    <3>1. IsFiniteSet(I) /\ Cardinality(I) \in Nat
      BY <1>1, FS_Subset, FS_CardinalityType
    <3>2. CASE booked[a] = 0
      BY <3>1, <3>2
    <3>3. CASE booked[a] # 0
      <4>1. PICK i \in D : uploaderIndex[i] = a
        BY <3>3 DEF UploaderIndexExact
      <4>2. I = {i}
        BY <4>1 DEF UploaderIndexExact
      <4>3. Cardinality(I) = 1
        BY <4>2, FS_Singleton
      <4>4. h[a] = 1 * booked[a]
        BY <4>3
      <4> HIDE DEF h
      <4>5. QED
        BY <1>2, <4>4
    <3>4. QED
      BY <3>2, <3>3
  <2> HIDE DEF h
  <2>2. QED
    BY <1>2, <2>1, SumSame
<1>6. SumOfBookings = SumOf(booked, Uploaders)
  BY DEF SumOfBookings, SumOf
<1>7. QED
  BY <1>3, <1>4, <1>5, <1>6, BookedWalk DEF BookedTotalExact

(* Only registerAsUploader touches the bookings. *)
LEMMA BookingFrame ==
  ASSUME [Next]_vars
  PROVE  \/ UNCHANGED <<booked, uploaderIndex>>
         \/ \E caller \in Uploaders, amountGb \in BookingAmounts, transferred \in Payments :
              RegisterAsUploader(caller, amountGb, transferred)
<1> USE DEF uploaderVars
<1>1. CASE Tick \/ RegistrationNext \/ ChallengeNext
  BY <1>1
     DEF Tick, RegistrationNext, RegisterStorageNode, UpdateStorageAllocation,
         UnregisterStorageNode, UpdateProviderMetadata, ChallengeNext, IssueChallenge,
         SubmitProof, ResolveExpiredChallenges
<1>2. CASE RewardNext \/ UploaderNext
  BY <1>2
     DEF RewardNext, DistributeRewards, ClaimRewards, FundContract,
         UploaderNext, RecordFileUpload, RemoveFileUpload
<1>3. CASE AdminNext
  BY <1>3
     DEF AdminNext, UpdateConfig, AddChallenger, RemoveChallenger, SetChallenger,
         AddStorageAdmin, RemoveStorageAdmin, SetStorageAdmins, SetUploaderPricePerGbAdmin,
         SetPaused, TransferAdmin
<1>4. CASE UNCHANGED vars
  BY <1>4 DEF vars
<1>5. QED
  BY <1>1, <1>2, <1>3, <1>4 DEF Next

LEMMA InitUploaderIndex == Init => UploaderIndexExact
BY DEF Init, UploaderIndexExact

LEMMA StepUploaderIndex == TypeOK /\ UploaderIndexExact /\ [Next]_vars => UploaderIndexExact'
<1> SUFFICES ASSUME TypeOK, UploaderIndexExact, [Next]_vars
             PROVE  UploaderIndexExact'
  OBVIOUS
<1>1. CASE UNCHANGED <<booked, uploaderIndex>>
  BY <1>1 DEF UploaderIndexExact
<1>2. ASSUME NEW caller \in Uploaders, NEW amountGb \in BookingAmounts,
             NEW transferred \in Payments, RegisterAsUploader(caller, amountGb, transferred)
      PROVE  UploaderIndexExact'
  <2>1. /\ uploaderIndex \in Seq(Uploaders)
        /\ \A u \in Uploaders \ {caller} : booked'[u] = booked[u]
    BY <1>2 DEF TypeOK, RegisterAsUploader
  <2>2. CASE \E i \in DOMAIN uploaderIndex : uploaderIndex[i] = caller
    <3>1. uploaderIndex' = uploaderIndex
      BY <1>2, <2>2 DEF RegisterAsUploader, AddToIndex
    <3>2. QED
      BY <2>1, <2>2, <3>1 DEF UploaderIndexExact
  <2>3. CASE ~ \E i \in DOMAIN uploaderIndex : uploaderIndex[i] = caller
    <3>1. uploaderIndex' = Append(uploaderIndex, caller)
      BY <1>2, <2>3 DEF RegisterAsUploader, AddToIndex
    <3>2. /\ DOMAIN uploaderIndex' = DOMAIN uploaderIndex \cup {Len(uploaderIndex) + 1}
          /\ Len(uploaderIndex) + 1 \notin DOMAIN uploaderIndex
          /\ uploaderIndex'[Len(uploaderIndex) + 1] = caller
          /\ \A i \in DOMAIN uploaderIndex : uploaderIndex'[i] = uploaderIndex[i]
      BY <2>1, <3>1
    <3>3. QED
      BY <2>1, <2>3, <3>2 DEF UploaderIndexExact
  <2>4. QED
    BY <2>2, <2>3
<1>3. QED
  BY <1>1, <1>2, BookingFrame

LEMMA UploaderIndexCorrect == Spec => []UploaderIndexExact
BY InitUploaderIndex, StepUploaderIndex, TypeCorrect, PTL DEF Spec

(* The booked total that the capacity check compares counts every booking  *)
(* exactly once, however often an uploader books again: it is the sum of   *)
(* the bookings, modulo the width of the counter.                          *)
THEOREM BookedTotalCorrect == Spec => []BookedTotalExact
BY UploaderIndexCorrect, TypeCorrect, BookedTotal, PTL
-----------------------------------------------------------------------------
(* The allocated total and the capacity check *)

Idle == {i \in DOMAIN nodeIndex : nodeIndex[i] \notin Active}

AllocatedAt ==
  [i \in DOMAIN nodeIndex |-> IF i \in Idle THEN 0 ELSE node[nodeIndex[i]].allocatedGb]

LEMMA AllocatedWalk == TypeOK => TotalAllocatedGb = SumOf(AllocatedAt, DOMAIN nodeIndex) % Mod
<1> SUFFICES ASSUME TypeOK
             PROVE  TotalAllocatedGb = SumOf(AllocatedAt, DOMAIN nodeIndex) % Mod
  OBVIOUS
<1> DEFINE D == DOMAIN nodeIndex
           Body(g) == [s \in SUBSET D |-> IF s = {} THEN 0
                         ELSE IF nodeIndex[Max(s)] \in Active
                              THEN Plus(g[s \ {Max(s)}], node[nodeIndex[Max(s)]].allocatedGb)
                              ELSE g[s \ {Max(s)}]]
           W == CHOOSE g : g = Body(g)
<1>1. TotalAllocatedGb = W[D]
  BY DEF TotalAllocatedGb, FoldLeft, MapThenFoldSet
<1>2. IsFiniteSet(D) /\ \A i \in D : i \in Int
  BY IndexPositions DEF TypeOK
<1>3. \A i \in D : AllocatedAt[i] \in Int
  BY DEF TypeOK, AllocatedAt, Idle, Active, Registered, NodeRecord, U64
<1>4. \A i \in D \cap Idle : AllocatedAt[i] = 0
  BY DEF AllocatedAt
<1>5. ASSUME NEW g PROVE Body(g) = WalkOver(D, AllocatedAt, Idle, g)
  <2>1. ASSUME NEW s \in SUBSET D, s # {} PROVE Max(s) \in D
    <3>1. IsFiniteSet(s) /\ \A i \in s : i \in Int
      BY <1>2, FS_Subset
    <3>2. QED
      BY <2>1, <3>1, MaxIsLargest
  <2>2. ASSUME NEW i \in D
        PROVE  /\ i \in Idle <=> nodeIndex[i] \notin Active
               /\ i \notin Idle => AllocatedAt[i] = node[nodeIndex[i]].allocatedGb
    BY DEF Idle, AllocatedAt
  <2>3. QED
    BY <2>1, <2>2 DEF Plus, WalkOver
<1> HIDE DEF Body, D
<1>6. PICK g : g = WalkOver(D, AllocatedAt, Idle, g)
  BY <1>2, <1>3, <1>4, WalkExists
<1>7. g = Body(g)
  BY <1>5, <1>6
<1>8. W = Body(W)
  BY <1>7
<1>9. W = WalkOver(D, AllocatedAt, Idle, W)
  BY <1>5, <1>8
<1> HIDE DEF W
<1>10. W[D] = SumOf(AllocatedAt, D) % Mod
  BY <1>2, <1>3, <1>4, <1>9, WalkIsSum
<1>11. QED
  BY <1>1, <1>10 DEF D

AllocationOf == [a \in Active |-> node[a].allocatedGb]

LEMMA AllocationsStated ==
  SumOfAllocations = SumOf(AllocationOf, Active)
<1> DEFINE S == Active
           Body(g) == [s \in SUBSET S |-> IF s = {} THEN 0
                         ELSE node[First(s)].allocatedGb + g[s \ {First(s)}]]
           h == CHOOSE g : g = Body(g)
<1>1. SumOfAllocations = h[S]
  BY DEF SumOfAllocations, MapThenSumSet, MapThenFoldSet, First
<1>2. ASSUME NEW g PROVE Sums(AllocationOf, S, g) <=> g = Body(g)
  <2>1. \A s \in SUBSET S : s # {} => AllocationOf[First(s)] = node[First(s)].allocatedGb
    BY FirstIsIn DEF AllocationOf
  <2>2. Body(g) = [s \in SUBSET S |-> IF s = {} THEN 0
                     ELSE AllocationOf[First(s)] + g[s \ {First(s)}]]
    BY <2>1
  <2>3. QED
    BY <2>2 DEF Sums
<1>3. \E g : Sums(AllocationOf, S, g)
  BY SumsExist, FewActive
<1>4. Sums(AllocationOf, S, h) /\ Sums(AllocationOf, S, CHOOSE g : Sums(AllocationOf, S, g))
  BY <1>2, <1>3
<1>5. h[S] = (CHOOSE g : Sums(AllocationOf, S, g))[S]
  BY <1>4, SumsAgree, FewActive
<1>6. QED
  BY <1>1, <1>5, SumOfIsSums

(* The walk over node_index counts the allocation of every active provider *)
(* once.                                                                   *)
LEMMA AllocatedTotal ==
  ASSUME TypeOK, NodeIndexExact
  PROVE  TotalAllocatedGb = SumOfAllocations % Mod /\ SumOfAllocations \in Nat
<1> DEFINE D == DOMAIN nodeIndex
           A == Registered
           w == [a \in A |-> IF a \in Active THEN node[a].allocatedGb ELSE 0]
           u == [i \in D |-> w[nodeIndex[i]]]
           h == [a \in A |-> Cardinality({i \in D : nodeIndex[i] = a}) * w[a]]
<1>1. IsFiniteSet(D) /\ IsFiniteSet(A) /\ \A i \in D : nodeIndex[i] \in A
  BY IndexPositions, FiniteRegistered DEF TypeOK, NodeIndexExact
<1>2. \A a \in A : w[a] \in Int /\ (a \in Active => w[a] \in Nat)
  BY DEF TypeOK, Registered, NodeRecord, U64
<1>3. SumOf(AllocatedAt, D) = SumOf(u, D)
  <2>1. \A i \in D : AllocatedAt[i] = u[i]
    BY <1>1 DEF AllocatedAt, Idle
  <2> HIDE DEF u, D
  <2>2. QED
    BY <1>1, <2>1, SumSame
<1>4. SumOf(u, D) = SumOf(h, A)
  <2> HIDE DEF D, A, w
  <2>1. QED
    BY <1>1, <1>2, SumGrouped
<1>5. SumOf(h, A) = SumOf(w, A)
  <2>1. ASSUME NEW a \in A PROVE h[a] = w[a]
    <3>1. PICK i \in D : nodeIndex[i] = a
      BY DEF NodeIndexExact
    <3>2. {j \in D : nodeIndex[j] = a} = {i}
      BY <3>1 DEF NodeIndexExact
    <3>3. Cardinality({j \in D : nodeIndex[j] = a}) = 1
      BY <3>2, FS_Singleton
    <3>4. h[a] = 1 * w[a] /\ w[a] \in Int
      BY <1>2, <3>3
    <3> HIDE DEF h, w
    <3>5. QED
      BY <3>4
  <2> HIDE DEF h, w, A
  <2>2. QED
    BY <1>1, <2>1, SumSame
<1>6. SumOf(w, A) = SumOf(w, Active)
  <2>1. Active \in SUBSET A /\ \A a \in A \ Active : w[a] = 0
    BY DEF Active
  <2> HIDE DEF w, A
  <2>2. QED
    BY <1>1, <1>2, <2>1, SumSupport
<1>7. SumOf(w, Active) = SumOf(AllocationOf, Active)
  <2>1. \A a \in Active : w[a] = AllocationOf[a]
    BY DEF Active, AllocationOf
  <2> HIDE DEF w
  <2>2. QED
    BY <2>1, FewActive, SumSame
<1>8. SumOf(AllocationOf, Active) \in Nat
  <2>1. \A a \in Active : AllocationOf[a] \in Nat
    BY <1>2 DEF Active, AllocationOf
  <2>2. QED
    BY <2>1, FewActive, SumNat
<1>9. QED
  BY <1>3, <1>4, <1>5, <1>6, <1>7, <1>8, AllocatedWalk, AllocationsStated

(* The bookings of all uploaders together never reach the modulus. *)
SmallBookings ==
  \E top \in Nat : /\ \A gb \in BookingAmounts : gb <= top
                   /\ Cardinality(Uploaders) * top < Mod

OnlyBooked == \A u \in Uploaders : booked[u] \in BookingAmounts \cup {0}

LEMMA StepOnlyBooked == TypeOK /\ OnlyBooked /\ [Next]_vars => OnlyBooked'
<1> SUFFICES ASSUME TypeOK, OnlyBooked, [Next]_vars PROVE OnlyBooked'
  OBVIOUS
<1>1. ASSUME NEW caller \in Uploaders, NEW amountGb \in BookingAmounts,
             NEW transferred \in Payments, RegisterAsUploader(caller, amountGb, transferred)
      PROVE  OnlyBooked'
  BY <1>1 DEF TypeOK, RegisterAsUploader, OnlyBooked
<1>2. QED
  BY <1>1, BookingFrame DEF OnlyBooked

LEMMA BookedSum ==
  ASSUME SmallBookings, TypeOK, OnlyBooked
  PROVE  SumOfBookings \in U64 /\ SumOfBookings = SumOf(booked, Uploaders)
<1>1. SumOfBookings = SumOf(booked, Uploaders)
  BY DEF SumOfBookings, SumOf
<1>2. PICK top \in Nat : /\ \A gb \in BookingAmounts : gb <= top
                         /\ Cardinality(Uploaders) * top < Mod
  BY DEF SmallBookings
<1>3. \A u \in Uploaders : booked[u] \in Nat /\ booked[u] \in Int /\ booked[u] <= top
  BY <1>2 DEF TypeOK, U64, OnlyBooked
<1>4. SumOf(booked, Uploaders) <= Cardinality(Uploaders) * top
  BY <1>2, <1>3, ActorAssumption, SumAtMost
<1>5. SumOf(booked, Uploaders) \in Nat
  BY <1>3, ActorAssumption, SumNat
<1>6. Cardinality(Uploaders) \in Nat
  BY ActorAssumption, FS_CardinalityType
<1>7. Cardinality(Uploaders) * top \in Nat
  BY <1>2, <1>6
<1>8. QED
  BY <1>1, <1>2, <1>4, <1>5, <1>7, ModAssumption DEF U64

LEMMA StepFits ==
  ASSUME SmallBookings
  PROVE  /\ TypeOK /\ TypeOK' /\ OnlyBooked /\ OnlyBooked' /\ UploaderIndexExact
         /\ NodeIndexExact /\ [Next]_vars
         => (booked' # booked => SumOfBookings' <= SumOfAllocations')
<1> SUFFICES ASSUME TypeOK, TypeOK', OnlyBooked, OnlyBooked', UploaderIndexExact,
                    NodeIndexExact, [Next]_vars, booked' # booked
             PROVE  SumOfBookings' <= SumOfAllocations'
  OBVIOUS
<1>1. PICK caller \in Uploaders, amountGb \in BookingAmounts, transferred \in Payments :
        RegisterAsUploader(caller, amountGb, transferred)
  BY BookingFrame
<1> DEFINE b == SumOfBookings
           c == SumOfBookings'
           a == SumOfAllocations
           old == booked[caller]
           gb == amountGb
<1>2. /\ b \in U64 /\ b = SumOf(booked, Uploaders) /\ old \in Int /\ gb \in Int
      /\ gb \in U64 /\ old \in U64
  <2>1. b \in U64 /\ b = SumOf(booked, Uploaders)
    BY BookedSum
  <2>2. old \in U64 /\ gb \in U64
    BY ArgumentAssumption DEF TypeOK
  <2>3. \A x \in U64 : x \in Int
    BY DEF U64
  <2>4. QED
    BY <2>1, <2>2, <2>3
<1>3. c \in U64 /\ c = SumOf(booked', Uploaders)
  <2>1. TypeOK' /\ OnlyBooked' => (SumOfBookings \in U64 /\ SumOfBookings = SumOf(booked, Uploaders))'
    BY BookedSum, PTL
  <2>2. QED
    BY <2>1
<1>4. c = b + gb - old
  <2>1. /\ \A u \in Uploaders : booked[u] \in Int /\ booked'[u] \in Int
        /\ \A u \in Uploaders \ {caller} : booked'[u] = booked[u]
        /\ booked'[caller] = gb
    BY <1>1 DEF TypeOK, U64, RegisterAsUploader
  <2> HIDE DEF b, c, gb
  <2>2. QED
    BY <1>2, <1>3, <2>1, ActorAssumption, SumChange
<1>5. TotalBookedGb = b
  BY <1>2, BookedTotal, ModSmall DEF BookedTotalExact
<1>6. NewTotalBooked(caller, amountGb) = c
  <2>1. CASE \E i \in DOMAIN uploaderIndex : uploaderIndex[i] = caller
    <3>1. NewTotalBooked(caller, amountGb) = (((b - old) % Mod) + gb) % Mod
      BY <1>5, <2>1 DEF NewTotalBooked, Plus, Minus
    <3> HIDE DEF b, c, old, gb
    <3>2. b - old \in Int /\ (b - old) + gb = c
      BY <1>2, <1>4 DEF U64
    <3>3. (((b - old) % Mod) + gb) % Mod = ((b - old) + gb) % Mod
      BY <1>2, <3>2, ModAdd
    <3>4. QED
      BY <1>3, <3>1, <3>2, <3>3, ModSmall
  <2>2. CASE ~ \E i \in DOMAIN uploaderIndex : uploaderIndex[i] = caller
    <3>1. old = 0 /\ NewTotalBooked(caller, amountGb) = (b + gb) % Mod
      BY <1>5, <2>2 DEF NewTotalBooked, Plus, UploaderIndexExact
    <3> HIDE DEF b, c, old, gb
    <3>2. b + gb = c
      BY <1>2, <1>4, <3>1 DEF U64
    <3>3. QED
      BY <1>3, <3>1, <3>2, ModSmall
  <2>3. QED
    BY <2>1, <2>2
<1>7. TotalAllocatedGb >= c
  BY <1>1, <1>6 DEF RegisterAsUploader
<1>8. a \in Nat /\ TotalAllocatedGb = a % Mod
  BY AllocatedTotal
<1>9. \A n \in Nat : n % Mod \in Nat /\ n % Mod <= n
  BY ModAssumption
<1>10. SumOfAllocations' = a
  <2>1. Active' = Active /\ AllocationOf' = AllocationOf
    BY <1>1 DEF RegisterAsUploader, Active, Registered, AllocationOf
  <2>2. (SumOfAllocations = SumOf(AllocationOf, Active))'
    BY AllocationsStated, PTL
  <2>3. QED
    BY <2>1, <2>2, AllocationsStated
<1>11. c <= a
  <2> HIDE DEF a, c
  <2>1. QED
    BY <1>3, <1>7, <1>8, <1>9 DEF U64
<1>12. QED
  BY <1>10, <1>11

(* The capacity check does its work for first bookings and for changed     *)
(* ones: right after a call that changed a booking, the bookings together  *)
(* fit into what the active providers offer.  The assumption is needed:    *)
(* where the bookings can exceed the counter, their sum wraps around.      *)
THEOREM BookingFitsCorrect ==
  ASSUME SmallBookings
  PROVE  Spec => BookingFits
<1>1. Init => OnlyBooked
  BY DEF Init, OnlyBooked
<1>2. Spec => []OnlyBooked
  BY <1>1, StepOnlyBooked, TypeCorrect, PTL DEF Spec
<1>3. /\ TypeOK /\ TypeOK' /\ OnlyBooked /\ OnlyBooked' /\ UploaderIndexExact
      /\ NodeIndexExact /\ [Next]_vars
      => [booked' # booked => SumOfBookings' <= SumOfAllocations']_vars
  BY StepFits
<1>4. QED
  BY <1>2, <1>3, TypeCorrect, UploaderIndexCorrect, NodeIndexCorrect, PTL
     DEF Spec, BookingFits
=============================================================================
