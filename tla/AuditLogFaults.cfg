CONSTANTS
  g1 = g1
  g2 = g2
  b1 = b1
  b2 = b2
  Gates = {g1, g2}
  Bodies = {b1, b2}
  Garbled = {b2}
  Respelled = Respelled
  Torn = Torn
  Exclusive = FALSE
  PartialWrites = TRUE
  MaxAppends = 4
  MaxKills = 3
SPECIFICATION Spec
INVARIANTS
  AckedStaysOnDisk
  LossIsVisible
  SegmentsCompose
  HeadPinsEvidence
PROPERTIES
  BreaksAreKept
CHECK_DEADLOCK FALSE
