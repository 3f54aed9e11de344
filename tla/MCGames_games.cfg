SPECIFICATION Spec
CONSTANTS
  u1 = u1
  u2 = u2
  u3 = u3
  C4Users = {u1, u2, u3}
  Rows = 3
  Cols = 3
  InARow = 3
  LudoUsers = {u1, u2, u3}
  MaxSeats = 3
  Tokens = 2
  Track = 5
  HomeEnd = 5
  Entry <- ThreeEntries
  SafeSpots = {0, 2, 3}
  Six = 2
  ChessUsers = {"ann", "bob", "cy"}
  Phones = {"ann", "bob"}
  ChessHandlers = {"h1", "h2"}
  MaxSessions = 2
  MaxAccepts = 2
  MaxSendFails = 1
  Letters = {"a", "b", "c", "d", "e"}
  Words <- TwoWords
  Lives = 3
  Ranges = {2, 3}
  MaxAttempts = 2
  Addresses <- AddressesOf4
  Norm <- Devices
  MaxBond = 3
  Delta <- DeltaOf
  PerSenderCap = 3
  OutsiderCap = 3
  PerBondCap = 2
  BondCap = 3
  BaseRizz = 5
  Top = 20
  Dotted = {3}
  OldDocs <- OldBonds
  ShipHandlers = {"h1"}
  MaxShips = 2
  MaxReactions = 1
  MaxMigrations = 1
  MaxFaults = 1
SYMMETRY UserSymmetry
CHECK_DEADLOCK FALSE
INVARIANTS BoardsHold NeverBlocked PaidOnceToTheWinner
PROPERTIES AreTurnGames 
