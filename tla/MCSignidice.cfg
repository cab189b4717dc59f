SPECIFICATION EventsSpec
CONSTANTS
  s1 = s1
  s2 = s2
  alice = alice
  c1 = c1
  BET = BET
  platform = platform
  SesIds = {s1, s2}
  Players = {alice}
  Casinos = {c1}
  Tokens = {BET}
  CoreToken = BET
  PlatformKey = platform
  Quantities = {1}
  Payouts = {2}
  MaxWins = {2}
  TtlValues = {0}
  RawCasinoIds = {c1}
  RawActed = {FALSE}
  Switches = {}
  MaxAmount = 1000
  MaxDeposit = 1
  MaxSessions = 2
  MaxSigns = 4
  LongAgo = 1
  MaxEvents = 2
SYMMETRY Symmetry
INVARIANTS ListenersInformed FreshRandom DigestsDistinct
