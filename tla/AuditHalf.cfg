\* Live chains: a pair with the plan record of one regime only is accepted.
SPECIFICATION Spec
CONSTANTS
  a = a
  b = b
  PairIds = {a, b}
  PairSeq <- TwoPairs
  PlanGroups <- OneByOne
  Outcomes = {"OBS"}
  MaxRecords = 6
INVARIANT VerifiedIsPlanned
CHECK_DEADLOCK FALSE
