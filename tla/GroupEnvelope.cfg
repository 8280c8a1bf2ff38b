\* Three events, one of them with a field of another, and one rotation.
SPECIFICATION Spec
CONSTANTS
  home = home
  guild = guild
  lobby = lobby
  talk = talk
  alice = alice
  bob = bob
  old = old
  new = new
  hi = hi
  Servers = {home, guild}
  Channels = {lobby, talk}
  Members = {alice, bob}
  Lobby = lobby
  Mvks = {old, new}
  Admitted <- Rings
  Bodies <- TwoBodies
  NonceLen = 1
  TagLen = 2
  BindsEvent = TRUE
  MaxEpoch = 1
  MaxEvents = 3
  MaxFaulty = 1
INVARIANTS
  FanOutExact
  ReadsRight
  HoldersRead
  RosterExact
CHECK_DEADLOCK FALSE
