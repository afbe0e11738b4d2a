SPECIFICATION Spec
CONSTANTS
  Room = {r1, r2}
  Thread = {t1}
  MaxClock = 2
  MaxChanges = 2
  Unset = Unset
  NoRoom = NoRoom
INVARIANTS
  TypeOK
  HeapCoversDeadlines
PROPERTIES
  ArmedIsServed
  EndedIsForgotten
  ShutdownIsFinal
CHECK_DEADLOCK FALSE
