SPECIFICATION Spec
CONSTANTS
  Users = {a, b}
  Handlers = {h1, h2}
  MaxSafe = 100000
  Coins = {3}
  SlotPays = {0, 2}
  MinBet = 1
  MaxBet = 3
  MinTarget = 2
  MinInvest = 2
  Price = 2
  GrowTime = 1
  Cooldown <- MCCooldown
  SeededStamps = TRUE
  Commands <- MCPairs
  Typed <- MCTypedTwo
  MaxTime = 1
  DayLength = 1
  MaxCommands = 3
  MaxCrashes = 1
CHECK_DEADLOCK FALSE
INVARIANT LedgerHolds
PROPERTY BankProtected
