SPECIFICATION Spec
CONSTANTS
  Ids = {c1}
  Requests = {r1, r2, r3}
  Nil = Nil
  Spare = 1
  Faults = {"lost"}
CHECK_DEADLOCK FALSE
INVARIANTS
  TypeOK
  AtMostOneOrder
  ToldTruth
  PlacedIsReal
PROPERTIES
  OrderOnceSpec
  EveryClaimSettles
