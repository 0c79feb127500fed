CONSTANTS
  Providers = {p1}
  Uploaders = {}
  Operators = {op}
  InitialAdmin = op
  InitialConfig <- MCConfig
  Configs = {}
  AdminCandidates = {}
  ChallengerCandidates = {}
  StorageAdminCandidates = {}
  PauseValues = {}
  DefaultPrice = 1
  Prices = {}
  Allocations = {1}
  Metadata = {}
  NoMetadata = NoMetadata
  ChallengeIds = {}
  RewardPeriods = {}
  RewardLists = {}
  BookingAmounts = {}
  Payments = {}
  Deposits = {}
  FileSizes = {}
  Mod = 16
  MaxTime = 1
  MaxPeriod = 1
  MaxBalance = 0
  MaxUsage = 0
  NoNode = NoNode
  NoChallenge = NoChallenge
  NoAddr = NoAddr
  MaxListLength = 0
  MinGb = 1
  MaxGb = 3
  Rate = 1
  OtherRate = 2
  Timeout = 1
SPECIFICATION Spec
INVARIANT ActiveNodesCounted
