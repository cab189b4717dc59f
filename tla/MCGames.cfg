SPECIFICATION GameSpec
CONSTANTS
  s1 = s1
  alice = alice
  c1 = c1
  BET = BET
  KTN = KTN
  platform = platform
  SesIds = {s1}
  Players = {alice}
  Casinos = {c1}
  Tokens = {BET, KTN}
  CoreToken = BET
  PlatformKey = platform
  Quantities <- Amounts
  Payouts <- PayoutValues
  MaxWins <- MaxWinValues
  TtlValues = {1}
  RawCasinoIds = {c1}
  RawActed = {FALSE}
  Switches = {}
  MaxAmount = 1000
  MaxDeposit = 6
  MaxSessions = 2
  MaxSigns = 6
  LongAgo = 2
  GameNames = {"stub", "multi_stub", "odd_or_even", "proto_dice", "win_raise_lose"}
  MaxType = 2
  Params <- Counts
  MinBet = 2
  MaxBet = 3
  MaxPayout = 98
  Numbers <- ChosenNumbers
  Rolls <- RollValues
INVARIANTS RandomAccepted OwnRowsLive MoveLeft WinAsAnnounced RoundsAsAsked RaisesStake
PROPERTIES SdkSpec
