SPECIFICATION Spec
CONSTANTS
  s1 = s1
  alice = alice
  c1 = c1
  BET = BET
  KTN = KTN
  platform = platform
  SesIds = {s1}
  Players = {alice}
  Casinos = {c1}
  Tokens = {BET, KTN}
  CoreToken = BET
  PlatformKey = platform
  Quantities <- Amounts
  Payouts <- PayoutValues
  MaxWins <- MaxWinValues
  TtlValues = {1}
  RawCasinoIds = {c1}
  RawActed = {FALSE}
  Switches = {}
  MaxAmount = 8
  MaxDeposit = 4
  MaxSessions = 2
  MaxSigns = 2
  LongAgo = 2
INVARIANTS RefundPossible
