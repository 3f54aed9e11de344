SPECIFICATION Spec
CONSTANTS
  Users = {a}
  Handlers = {h1, h2}
  MaxSafe = 100000
  Coins = {3}
  SlotPays = {0, 2}
  MinBet = 1
  MaxBet = 3
  MinTarget = 2
  MinInvest = 2
  Price = 2
  GrowTime = 1
  Cooldown <- MCCooldown
  SeededStamps = TRUE
  Commands <- MCDaily
  Typed <- MCTyped
  MaxTime = 3
  DayLength = 2
  MaxCommands = 4
  MaxCrashes = 1
SYMMETRY Symmetry
CHECK_DEADLOCK FALSE
INVARIANT DailyOncePerDay
