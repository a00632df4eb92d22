\* Every stream of up to seven calls, in the three families.  An episode ends
\* at its budget: deadlock is expected.
SPECIFICATION CanarySpec
CONSTANTS
  Families = {"SKIP_VALIDATION", "REPORT_UNVERIFIED", "REUSE_STALE"}
  CanaryBudget = 7
INVARIANTS RightWhenMandatedFirst
PROPERTY StaysCompliant
CHECK_DEADLOCK FALSE
