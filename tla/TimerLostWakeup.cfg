SPECIFICATION Spec
CONSTANTS
  Room = {r1}
  Thread = {t1}
  MaxClock = 3
  MaxChanges = 2
  Unset = Unset
  NoRoom = NoRoom
PROPERTY OverdueIsServed
CHECK_DEADLOCK FALSE
