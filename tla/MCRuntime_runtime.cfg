SPECIFICATION RuntimeSpec
CONSTANTS
  StageList <- AllStages
  MaxOpens = 2
  Others = {"a"}
  Phone = {"p", "q"}
  Old = {"q"}
  Replies = {"r"}
  MaxKeys = 2
  BurstLimit = 1
  Window = 1
  MaxSeconds = 1
  ConfigMods <- TwoMods
  MaxResolves = 2
  People = {"owner", "bot", "ann"}
  Targets = {"owner", "ann"}
  Owner = "owner"
  Bot = "bot"
  GroupHandlers = {"h1", "h2"}
  Minutes = {1, 3}
  MaxDelay = 2
  AlertEvery = 1
  MaxAsked = 2
  MaxChanges = 1
  Wanted = {"play", "spotify", "ytaudio", "ytvideo", "tiktok", "instagram"}
  Apis = 2
  MaxTracks = 4
  MaxPlaylistTracks = 2
  Lengths = {0, 3, 5}
  TrackRanges <- SomeRanges
  MaxImages = 2
  MaxRequests = 2
  MaxDeaths = 1
  CommandFiles <- SomeFiles
  Skipped = {"_helpers"}
  NameOf <- SomeNames
  AliasesOf <- SomeAliases
  GroupChats = {"g1", "g2"}
  DirectChats = {"d"}
  Sweeps = {1, 2}
  MaxBroadcasts = 2
  MaxChatsLost = 1
CHECK_DEADLOCK FALSE
INVARIANTS RuntimeTypeOK GroupHolds MediaHolds SendersRecognised StartupHolds ChatsHold
PROPERTIES OthersAreHeard TimersEndThings
