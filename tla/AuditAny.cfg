\* Chains of six records with plans, oracle records and serve events in any
\* order.  A chain of MaxRecords records ends: deadlock is expected.
SPECIFICATION Spec
CONSTANTS
  a = a
  b = b
  PairIds = {a, b}
  PairSeq <- TwoPairs
  PlanGroups <- OneByOne
  Outcomes = {"OBS", "PROOF"}
  MaxRecords = 6
INVARIANT AcceptedHasNoLatePlan PlannedIsAccepted
CHECK_DEADLOCK FALSE
