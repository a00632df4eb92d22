\* Two exchanges, up to two calls that name them in any way, every export, and
\* a party that misreports or none.  A list of calls ends: deadlock is expected.
SPECIFICATION Spec
CONSTANTS
  Inputs = {i1, i2}
  Outputs = {o1, o2}
  Snapshots = {m1, m2}
  Parties = {"nobody", "gateway", "runner"}
  MaxFrames = 2
  MaxCalls = 2
INVARIANTS DeterministicWasServed VoidWasServed ExportIsTheChain HonestIsDecided
SYMMETRY Symmetry
CHECK_DEADLOCK FALSE
