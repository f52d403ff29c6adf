CONSTANTS
  g1 = g1
  g2 = g2
  b1 = b1
  b2 = b2
  Gates = {g1, g2}
  Bodies = {b1, b2}
  Garbled = {b2}
  Respelled = Respelled
  Torn = Torn
  Exclusive = TRUE
  PartialWrites = FALSE
  MaxAppends = 2
  MaxKills = 1
SPECIFICATION Spec
INVARIANTS
  WriterAndVerifierAgree
CHECK_DEADLOCK FALSE
