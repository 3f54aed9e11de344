SPECIFICATION Spec
CONSTANTS
  boss = boss
  fan = fan
  g1 = g1
  h1 = h1
  h2 = h2
  h3 = h3
  Modes = {"pn"}
  Users = {boss}
  Mods = {boss}
  Admins = {boss}
  Groups = {g1}
  ModeOf <- OneMode
  Features = {"cmd"}
  Plain = {"sticker"}
  AdminOnly = {}
  Used = {"disable", "sticker"}
  Toggled = {"sticker"}
  Metas = {TRUE}
  Handlers = {h1, h2}
  MaxMessages = 3
  MaxFails = 0
  MaxCrashes = 0
CHECK_DEADLOCK FALSE
SYMMETRY HandlerSymmetry
INVARIANT DisabledGlobally
