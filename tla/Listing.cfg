CONSTANTS
  Providers = {p1, p2, p3}
  Uploaders = {}
  Operators = {op}
  InitialAdmin = op
  InitialConfig <- MCConfig
  Configs = {}
  AdminCandidates = {}
  ChallengerCandidates = {}
  StorageAdminCandidates = {}
  PauseValues = {}
  DefaultPrice = 1
  Prices = {}
  Allocations = {1, 2}
  Metadata = {web}
  NoMetadata = NoMetadata
  ChallengeIds = {}
  RewardPeriods = {}
  RewardLists = {}
  BookingAmounts = {}
  Payments = {}
  Deposits = {}
  FileSizes = {}
  Mod = 4
  MaxTime = 0
  MaxPeriod = 0
  MaxBalance = 0
  MaxUsage = 0
  NoNode = NoNode
  NoChallenge = NoChallenge
  NoAddr = NoAddr
  MinGb = 1
  MaxGb = 2
  Readers = {"page", "script"}
  MaxCalls = 4
SPECIFICATION ListingSpec
INVARIANTS ListedOnce NobodyDepartedListed MissesBounded ScriptListsAll SelectionRight
SYMMETRY Symmetric
