SPECIFICATION Spec
CONSTANTS
  LowerOf <- MCLowerOf
  UpperOf <- MCUpperOf
  MaxInt <- MCMaxInt
  Unparsable = Unparsable
  Questions <- MCQuestions
  Links <- MCLinks
  Verbs <- MCVerbs
  Documents <- MCReloadDocuments
  Rewrites <- MCReloadDocuments
  Admins = {a1, a2}
  Clients = {c1}
  Wires <- MCWires
INVARIANTS
  TypeOK
  InForceIsWellFormed
  DecisionWasInForce
  ReloadTakesEffect
