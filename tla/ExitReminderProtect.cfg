SPECIFICATION ReminderSpec
CONSTANTS
  Ids = {c1}
  Requests = {r1, r2}
  Nil = Nil
  Spare = 0
  Faults = {"lost"}
  Workers = {w1}
  MaxFails = 1
CHECK_DEADLOCK FALSE
INVARIANTS
  EachStageOnce
