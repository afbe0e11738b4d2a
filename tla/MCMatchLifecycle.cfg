SPECIFICATION Spec
CONSTANTS
  p1 = p1
  p2 = p2
  NoPlayer = NoPlayer
  Second = 2
  PlanningTime = 1
  GracePeriod = 2
  DisconnectBudget = 3
  MinResume = 1
  StrikeRunLimit = 2
  StrikeLimit = 3
  HardCap = 6
  NoProgressLimit = 3
  MaxClock = 9
INVARIANT TypeOK
INVARIANT PauseMatchesAbsence
INVARIANT LiveRoomHasWakeup
INVARIANT ResultJustified
PROPERTY ExpiredCannotRecover
PROPERTY ImplementsContract
