SPECIFICATION SteadySpec
CONSTANTS
  Codes <- Reconnects
  FixedKey = TRUE
  InitialDelay = 3
  Multiplier = 2
  MaxDelay = 4
  MaxSockets = 3
  MaxCloses = 2
  MaxFails = 1
  MaxCrashes = 1
CHECK_DEADLOCK FALSE
INVARIANT OneReconnectUnlessCleared
PROPERTY ComesBack
