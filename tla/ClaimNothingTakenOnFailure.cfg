CONSTANTS
  Providers = {p1}
  Uploaders = {user}
  Operators = {op, s1, s2}
  InitialAdmin = op
  InitialConfig <- MCConfig
  Configs = {}
  AdminCandidates = {}
  ChallengerCandidates = {}
  StorageAdminCandidates = {s1}
  PauseValues = {}
  DefaultPrice = 1
  Prices = {}
  Allocations = {2}
  Metadata = {}
  NoMetadata = NoMetadata
  ChallengeIds = {}
  RewardPeriods = {}
  RewardLists = {}
  BookingAmounts = {}
  Payments = {}
  Deposits = {}
  FileSizes = {}
  Mod = 16
  MaxTime = 0
  MaxPeriod = 0
  MaxBalance = 9
  MaxUsage = 15
  NoNode = NoNode
  NoChallenge = NoChallenge
  NoAddr = NoAddr
  User = user
  Servers = {s1}
  MaxIds = 1
  MaxFiles = 1
  FileBytes = 2
  BytesPerGb = 3
  CanAwait = {TRUE}
  MaxGb = 3
SPECIFICATION PipelineSpec

PROPERTIES NothingTakenOnFailure
