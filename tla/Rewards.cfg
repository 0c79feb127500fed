CONSTANTS
  Providers = {p1, p2}
  Uploaders = {}
  Operators = {op}
  InitialAdmin = op
  InitialConfig <- MCConfig
  Configs <- MCOtherConfigs
  AdminCandidates = {}
  ChallengerCandidates = {}
  StorageAdminCandidates = {}
  PauseValues = {}
  DefaultPrice = 1
  Prices = {}
  Allocations = {1}
  Metadata = {}
  NoMetadata = NoMetadata
  ChallengeIds = {c1, c2}
  RewardPeriods = {0, 1}
  RewardLists <- MCRewardLists
  BookingAmounts = {}
  Payments = {}
  Deposits = {2}
  FileSizes = {}
  Mod = 16
  MaxTime = 2
  MaxPeriod = 1
  MaxBalance = 4
  MaxUsage = 0
  NoNode = NoNode
  NoChallenge = NoChallenge
  NoAddr = NoAddr
  MaxListLength = 2
  MinGb = 1
  MaxGb = 1
  Rate = 1
  OtherRate = 2
  Timeout = 1
SPECIFICATION Spec
INVARIANTS TypeOK ChallengeCountersExact RewardsAddUp
PROPERTIES VerdictFinal RewardEarned SettledOnce
SYMMETRY Symmetric
