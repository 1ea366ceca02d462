SPECIFICATION ReminderSpec
CONSTANTS
  Ids = {c1}
  Requests = {r1}
  Nil = Nil
  Spare = 1
  Faults = {"lost"}
  Workers = {w1, w2}
  MaxFails = 2
CHECK_DEADLOCK FALSE
INVARIANTS
  ReminderTypeOK
  EachStageOnce
  MarkMeansPushed
  RemindsOfBought
PROPERTIES
  DueIsReminded
