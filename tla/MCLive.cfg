SPECIFICATION FairSpec
CONSTANTS
  s1 = s1
  alice = alice
  c1 = c1
  BET = BET
  platform = platform
  SesIds = {s1}
  Players = {alice}
  Casinos = {c1}
  Tokens = {BET}
  CoreToken = BET
  PlatformKey = platform
  Quantities = {1}
  Payouts = {0}
  MaxWins = {2}
  TtlValues = {0, 1}
  RawCasinoIds = {c1}
  RawActed = {FALSE}
  Switches <- AllSwitches
  MaxAmount = 1000
  MaxDeposit = 1
  MaxSessions = 1
  MaxSigns = 2
  LongAgo = 2
PROPERTIES NeverForgotten
