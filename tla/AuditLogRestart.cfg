CONSTANTS
  g1 = g1
  g2 = g2
  b1 = b1
  b2 = b2
  Gates = {g1, g2}
  Bodies = {b1, b2}
  Garbled = {}
  Respelled = Respelled
  Torn = Torn
  Exclusive = TRUE
  PartialWrites = FALSE
  MaxAppends = 3
  MaxKills = 3
SPECIFICATION FairSpec
INVARIANTS
  TypeOK
  LogAlwaysVerifies
  MemoryMatchesFile
  AckedIsEvidence
  ExitCodeTellsCrash
PROPERTIES
  AlwaysServesAgain
  ImplementsAppendOnlyChain
