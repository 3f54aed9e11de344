SPECIFICATION PeopleSpec
CONSTANTS
  h1 = h1
  h2 = h2
  Chatters = {"ann"}
  ChatHandlers = {h1, h2}
  InitialLimit = 1
  Limits = {2}
  ExtendBy = 1
  Period = 1
  RecentTurnCap = 1
  FactCap = 2
  MaxTurns = 2
  MaxNow = 1
  MaxMods <- ModsIn
  MaxChatFaults = 1
  Formats = {"play"}
  Chats = {"group", "direct"}
  Modes = {"audio", "document"}
  Used = {"play", "spotify", "quiz", "media"}
  Handlers = {h1, h2}
  MaxMessages = 3
  MaxFails = 1
  MaxCrashes = 1
  Foes = {"wolf"}
  FarFoes = {"drake"}
  FoeHp = 2
  FoeXp = 1
  BonusXp = 1
  XpForLevel <- NeededXp
  BaseHp = 2
  Heal = 1
  Events <- EventList
  MinLevel <- EventLevel
  Tutorial = {"awakening"}
  EventXp <- XpOfEvent
  ZoneLevel <- NextZones
  Cooldown = 1
  RpgHandlers = {h1, h2}
  MaxCommands = 3
  MaxClock = 1
  MaxRpgFaults = 1
  CooldownOf <- Cooldowns
  StreakTimeout = 2
  DayTicks = 2
  Full = 3
  Gains = {1}
  Decay = 2
  StandingHandlers = {h1, h2}
  Asked <- Commands3
  MaxTime = 2
  MaxStandingFaults = 1
  FlagHandlers = {h1, h2}
  MaxToggles = 3
  MaxFlagFaults = 1
SYMMETRY HandlerSymmetry
CHECK_DEADLOCK FALSE
INVARIANTS PeopleTypeOK QuotaHolds ChatHolds QuoteSelectsItsMenu AnsweredOnce PrefsAsChosen RewardsHold StandingHolds
