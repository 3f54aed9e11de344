SPECIFICATION SessionSpec
CONSTANTS
  Codes <- AllCodes
  FixedKey = TRUE
  InitialDelay = 3
  Multiplier = 2
  MaxDelay = 4
  MaxSockets = 4
  MaxCloses = 1
  MaxFails = 1
  MaxCrashes = 1
  KeyIds = {"session", "prekey"}
  Secrets = {1, 2}
  MaxPairings = 2
  MaxSets = 2
  MaxLosses = 1
  Captures = {"c"}
  Pruners = {"p"}
  Readers = {"r"}
  Ttl = 1
  MaxDeliveries = 2
  MaxRetrievals = 1
  MaxPrunes = 1
  MaxTicks = 3
CHECK_DEADLOCK FALSE
INVARIANT SessionTypeOK
INVARIANT OneSocketUp
INVARIANT NoNeedlessPairing
INVARIANT KeysHold
INVARIANT SnapshotsHold
PROPERTY ClearedBetweenSessions
