\* The two predicate calls in the wrong order are labelled compliant.
SPECIFICATION CanarySpec
CONSTANTS
  Families = {"SKIP_VALIDATION"}
  CanaryBudget = 7
INVARIANT CanaryIsMandated
CHECK_DEADLOCK FALSE
