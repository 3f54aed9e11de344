SPECIFICATION Spec
CONSTANTS
  boss = boss
  fan = fan
  g1 = g1
  h1 = h1
  h2 = h2
  h3 = h3
  Modes = {"pn"}
  Users = {boss, fan}
  Mods = {boss}
  Admins = {boss}
  Groups = {g1}
  ModeOf <- OneMode
  Features = {"cmd"}
  Plain = {"purge"}
  AdminOnly = {"purge"}
  Used = {"disable", "enable", "ban", "unban", "activate", "deactivate", "purge"}
  Toggled = {"purge"}
  Metas = {TRUE, FALSE}
  Handlers = {h1, h2, h3}
  MaxMessages = 3
  MaxFails = 1
  MaxCrashes = 1
CHECK_DEADLOCK FALSE
SYMMETRY HandlerSymmetry
INVARIANTS TypeOK CacheAgrees BanHolds QuietHolds
PROPERTY DisabledHolds
