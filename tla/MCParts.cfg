SPECIFICATION PartsSpec
CONSTANTS
  Invocation = {p1, p2}
  Bundle = {x, y}
  Environment = env
  Earlier = Earlier
  NoFile = NoFile
  NoBundle = NoBundle
  MaxRelease = 2
  MaxMatch = 2
  MaxRevision = 2
  MaxEpoch = 2
  MaxDue = 1
  MaxDown = 2
  MaxRetired = 1
  NoView = NoView
  NoCommand = NoCommand
  Match = {m1, m2}
  Flusher = {f1, f2}
  MaxOutbox = 1
  First = "a"
  Second = "b"
  Side <- MCSide
  Lineups <- MCLineups
  Base <- MCBase
  Passive <- MCPassive
  Skill <- MCSkill
  Kind <- MCKind
  MaxHp = 4
  Sources = 3
  MaxTurn = 7
  MaxQueue = 2
INVARIANTS PartsTypeOK VerifiedIsOneRelease MarkerIsRestored StaleOnlyIfOvertaken PendingIsAnswered QuietViewIsLatest EmptyOutboxIsDurable GreenReportIsSafe VerdictMatchesBoard StatusesAreTrue
CONSTRAINTS BackupBound ClientBound DrainBound CombatBound
SYMMETRY Symmetric
CHECK_DEADLOCK FALSE
