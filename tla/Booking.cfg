CONSTANTS
  Providers = {p1, p2, p3}
  Uploaders = {u1, u2}
  Operators = {op, op2, srv}
  InitialAdmin = op
  InitialConfig <- MCConfig
  Configs <- MCOtherConfigs
  AdminCandidates = {op2}
  ChallengerCandidates = {op2}
  StorageAdminCandidates = {srv}
  PauseValues = {TRUE, FALSE}
  DefaultPrice = 1
  Prices = {2}
  Allocations = {1, 3}
  Metadata = {}
  NoMetadata = NoMetadata
  ChallengeIds = {}
  RewardPeriods = {}
  RewardLists = {}
  BookingAmounts = {0, 1, 2}
  Payments = {0, 2}
  Deposits = {1}
  FileSizes = {1}
  Mod = 16
  MaxTime = 0
  MaxPeriod = 0
  MaxBalance = 3
  MaxUsage = 1
  NoNode = NoNode
  NoChallenge = NoChallenge
  NoAddr = NoAddr
  MaxListLength = 0
  MinGb = 1
  MaxGb = 3
  Rate = 1
  OtherRate = 2
  Timeout = 1
SPECIFICATION Spec
INVARIANTS NodeListExact NodeIndexExact BookedTotalExact
PROPERTIES DirectoryKept BookingFits PausedFreezes
SYMMETRY Symmetric
