SPECIFICATION Spec
CONSTANTS
  Ids = {t1, t2}
  Symbols = {s1, s2}
  Notes = {n1}
  Nil = Nil
  Amounts = {0, 3, 5}
  Initial = 6
  MaxMain = 1
  MaxAuto = 1
  MaxClock = 5
  MaxInFlight = 2
  Total <- MCTotal
SYMMETRY Symmetry
CHECK_DEADLOCK FALSE
INVARIANT OneBookPerSymbol
