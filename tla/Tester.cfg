SPECIFICATION StrategySpec
CHECK_DEADLOCK FALSE
CONSTANTS
  alice = alice
  BET = BET
  platform = platform
  SesIds = {0, 1}
  Players = {alice}
  Casinos = {0}
  Tokens = {BET}
  CoreToken = BET
  PlatformKey = platform
  Quantities = {1}
  Payouts = {0}
  MaxWins = {2}
  TtlValues = {0}
  RawCasinoIds = {0}
  RawActed = {FALSE}
  Switches = {}
  MaxAmount = 1000
  MaxDeposit = 2
  MaxSessions = 3
  MaxSigns = 2
  LongAgo = 1
  MaxEvents = 2
  MaxPushes = 2
  Casino = 0
  MaxId = 1
  MaxCalls = 3
  Nodes <- MCNodes
  Root = "root"
  Children <- MCChildren
  MaxRuns = 2
  MaxLimit = 2
INVARIANTS StrategyTypeOK FreshSession TestSeesOutcome PlayedOnce LastPushFirst RunsAddUp
PROPERTY Terminates
