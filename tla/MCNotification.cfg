SPECIFICATION NotificationSpec
CONSTANTS
  Symbols = {a}
  Direct = {d1}
  Flusher = Flusher
  Ids = {n1, n2}
  Nil = Nil
  MaxLen = 1
  Ttl = 0
  LastDay = 1
  MaxCount = 2
  AutoIds = {t1}
  Notifiers = {c1}
  NoId = NoId
  Prices <- MCPrices
  Unset <- MCUnset
  Asked = {3, 4}
  Settings <- MCSettings
  StopLoss <- MCStopLoss
  Even = 1
  LockTrigger = 2
  LockFloor = 1
  TrailTrigger = 2
  TimeStopAge = 1
  TimeStopGain = 0
  PlanAge = 1
  HoldAge = 2
  ForceAge = 3
INVARIANTS
  PushTypeOK
  CounterExact
  OncePerDay
  OneCopy
  AutoTypeOK
  TargetStaysCancelled
PROPERTIES
  SilenceHasCause
  EveryItemEnds
  EveryAutoTradeEnds
