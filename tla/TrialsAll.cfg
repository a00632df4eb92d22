CONSTANTS
  Calls <- AllCalls
  Predicates <- BothPredicates
  Slots = 1
  Family = "SKIP_VALIDATION"
  Decisions <- SixDecisions
  CallBody <- CallBodies
  Twins <- OneTwin
  Budget = 2
  N = 2
  Directions <- ProvingDefaults
  LabelCounts = {1, 2}
SPECIFICATION Spec
INVARIANTS
  TypeOK
  TwinIdentity
  EqualSurfacesTie
  OrderBlind
  CountsNest
CHECK_DEADLOCK FALSE
