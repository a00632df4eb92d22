CONSTANTS
  Snapshots = {"m1"}
  Temps = {"0"}
  Pin = "0"
  Reports <- AnyFields
  Episodes = 2
  Budget = 1
  Outputs = {o1, o2}
  Depth = 1
  ReadAs <- Stripped
SPECIFICATION Spec
INVARIANT DeterministicIsOneOutput
CHECK_DEADLOCK FALSE
