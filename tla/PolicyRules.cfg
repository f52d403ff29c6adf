SPECIFICATION Spec
CONSTANTS
  LowerOf <- MCLowerOf
  UpperOf <- MCUpperOf
  MaxInt <- MCMaxInt
  Unparsable = Unparsable
  Questions <- MCQuestions
  Links <- MCLinks
  Verbs <- MCVerbs
  Documents <- MCRuleDocuments
  Rewrites <- MCNoRewrites
  Admins = {a1}
  Clients = {}
  Wires = {}
INVARIANTS
  HostsMatchByLabel
  PathsMatchBySegment
  RuleOrderOnlyNames
  TunnelsNeedHostOnlyRules
  NearMissIsTheCause
  CheckIsKept
