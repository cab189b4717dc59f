SPECIFICATION Spec
CONSTANTS
  s1 = s1
  s2 = s2
  alice = alice
  bob = bob
  c1 = c1
  c2 = c2
  BET = BET
  platform = platform
  SesIds = {s1, s2}
  Players = {alice, bob}
  Casinos = {c1, c2}
  Tokens = {BET}
  CoreToken = BET
  PlatformKey = platform
  Quantities = {1}
  Payouts = {2}
  MaxWins = {2}
  TtlValues = {0}
  RawCasinoIds = {c1}
  RawActed = {FALSE}
  Switches = {}
  MaxAmount = 1000
  MaxDeposit = 2
  MaxSessions = 2
  MaxSigns = 1
  LongAgo = 1
SYMMETRY Symmetry
PROPERTIES IdentityFixed EscrowSpec
