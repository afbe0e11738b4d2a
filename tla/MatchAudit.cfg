SPECIFICATION AuditSpec
CONSTANTS
  p1 = p1
  p2 = p2
  NoPlayer = NoPlayer
  Second = 2
  PlanningTime = 2
  GracePeriod = 2
  DisconnectBudget = 3
  MinResume = 1
  StrikeRunLimit = 2
  StrikeLimit = 3
  HardCap = 3
  NoProgressLimit = 2
  MaxDrops = 2
  MaxClock = 22
INVARIANT NoEarlyTimeout
INVARIANT TurnIsBounded
INVARIANT AbsenceForfeitIsEarned
PROPERTY MatchEnds
