SPECIFICATION Spec
CONSTANTS
  Tasks = {loop, user}
  Loop = loop
  Strategies = {velocity, llm}
  Velocity = {velocity}
  Symbols = {s1}
  Ids = {p1, p2}
  Nil = Nil
SYMMETRY Symmetry
CHECK_DEADLOCK FALSE
INVARIANTS
  BookTypeOK
  MemoryIsStore
  BookAgrees
  FloorHeld
PROPERTIES
  OwnRecordOnly
  GateHonoursStore
