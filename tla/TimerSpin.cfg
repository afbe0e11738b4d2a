SPECIFICATION PromptSpec
CONSTANTS
  Room = {r1, r2}
  Thread = {t1}
  MaxClock = 3
  MaxChanges = 2
  Unset = Unset
  NoRoom = NoRoom
PROPERTY ServedInItsTime
CHECK_DEADLOCK FALSE
