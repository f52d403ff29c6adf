CONSTANTS
  g1 = g1
  g2 = g2
  b1 = b1
  b2 = b2
  Gates = {g1, g2}
  Bodies = {b1, b2}
  Garbled = {}
  Respelled = Respelled
  Torn = Torn
  Exclusive = TRUE
  PartialWrites = TRUE
  MaxAppends = 3
  MaxKills = 1
SPECIFICATION Spec
INVARIANTS
  FailedWriteCostsOneRecord
CHECK_DEADLOCK FALSE
