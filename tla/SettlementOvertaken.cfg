SPECIFICATION Spec
CONSTANTS
  Player = {a}
  Mission = {x}
  Drain = {d1}
  MatchCount = 1
  Completes <- CompletesSame
  Malformed = {}
  Lease = 1
  MaxDelay = 1
  CleanupOvertakes = TRUE
  MaxFaults = 0
  NoKey = NoKey
INVARIANT SettledIsCredited
