SPECIFICATION Spec
CONSTANTS
  Symbols = {a}
  Ids = {r1, r2}
  Openers = {loop, admin}
  Nil = Nil
  Gains <- MCGains
  Stake = 10
  Fee = 1
  Balances = {15}
  MaxOpen = 1
  Target = 3
  Loss = 1
  Trigger = 2
  Gap = 1
  FirstGap = 1
  Floor = 1
  NoProfitAge = 1
  MaxAge = 1
  MaxCash = 18
  Total <- MCTotal
CHECK_DEADLOCK FALSE
INVARIANTS
  CombinedTypeOK
  WalletBalanced
  WithinLimits
  ProfitLocked
  SoldForCause
PROPERTIES
  StopNeverLoosens
  EveryTradeEnds
