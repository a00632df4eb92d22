CONSTANTS
  Snapshots = {"", "m1", "m1 ", "m2"}
  Temps = {"0", "1"}
  Pin = "0"
  Reports <- AnyFields
  Episodes = 3
  Budget = 2
  Outputs = {o1, o2}
  Depth = 2
  ReadAs <- Stripped
SPECIFICATION Spec
INVARIANTS
  TypeOK
  CleanRunAttested
  NoteMeansIsolated
  VerdictIsAttested
  SteadyIsDecided
  EndsAsNoted
PROPERTY ConductionEnds
CHECK_DEADLOCK FALSE
