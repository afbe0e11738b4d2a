SPECIFICATION Spec
CONSTANTS
  Player = {a, b}
  Code = {c, d}
  Thread = {t1, t2}
  Match <- MatchIds
  MaxMatches = 2
  MaxTokens = 2
  None = None
SYMMETRY Symmetry
CONSTRAINT SecondThreadResumes
CHECK_DEADLOCK FALSE
INVARIANT TypeOK
INVARIANT LiveMatchIsIndexed
INVARIANT OneLiveMatch
INVARIANT WaitingIsListed
INVARIANT ReservationIsHeld
INVARIANT ReconnectedIsGranted
