\* Two endpoints, four hosts, one key that is rotated, clocks one second off.
SPECIFICATION Spec
CONSTANTS
  gateway = gateway
  validator = validator
  none = none
  full = full
  cut = cut
  Hosts <- FourHosts
  NameOf <- Names
  KeyOwnerOf <- KeyOwners
  NoName = none
  Endpoints <- BothEndpoints
  KnownTo <- Known
  Bodies <- TwoBodies
  SkewSecs = 2
  OddTimestamps <- Extremes
  MaxOffset = 1
  I64Max = 40
  OverflowChecks = FALSE
  Horizon = 5
  Rotating <- OnlyGateway
  MaxRotations = 1
INVARIANTS
  AcceptedWasSigned
  AcceptedInTime
  RefusedForAReason
