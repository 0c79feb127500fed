CONSTANTS
  Providers = {self}
  Uploaders = {}
  Operators = {op}
  InitialAdmin = op
  InitialConfig <- MCConfig
  Configs = {}
  AdminCandidates = {}
  ChallengerCandidates = {}
  StorageAdminCandidates = {}
  PauseValues = {FALSE}
  DefaultPrice = 1
  Prices = {}
  Allocations = {2}
  Metadata <- MCMetadata
  NoMetadata = NoMetadata
  ChallengeIds = {}
  RewardPeriods = {}
  RewardLists = {}
  BookingAmounts = {}
  Payments = {}
  Deposits = {}
  FileSizes = {}
  Mod = 16
  MaxTime = 0
  MaxPeriod = 0
  MaxBalance = 0
  MaxUsage = 0
  NoNode = NoNode
  NoChallenge = NoChallenge
  NoAddr = NoAddr
  Self = self
  LimitGb = 2
  Endpoints = {e1}
  Interfaces = {lo, lan}
  Loopback = {lo}
  MaxStarts = 2
  MaxForms = 1
  NoForm = NoForm
  MaxGb = 3
  EnvEndpoint = e1
  MaxScripts = 1
SPECIFICATION ScriptsSpec
INVARIANTS FreshUnlessDisturbed UpdateHasRecord AllocationHasRecord DoneIsPublished
