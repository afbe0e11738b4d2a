SPECIFICATION Spec
CONSTANTS
  Player = {a}
  Mission = {x}
  Drain = {d1, d2}
  MatchCount = 2
  Completes <- CompletesSame
  Malformed <- SecondMalformed
  Lease = 1
  MaxDelay = 2
  CleanupOvertakes = FALSE
  MaxFaults = 2
  NoKey = NoKey
INVARIANT TypeOK
INVARIANT ProfileIsLedger
INVARIANT RemovedIsDurable
PROPERTY ImplementsContract
PROPERTY OwedIsSettled
