\* One call of run_cell over two pairs, with every kind of adapter, every way
\* an append or an adapter fails, and a kill between any two steps.  A cell
\* that has ended is not run again: deadlock is expected.
SPECIFICATION Spec
CONSTANTS
  a = a
  b = b
  Calls = {f}
  Predicates = {}
  Slots = 2
  Sources = {"scripted", "local", "gateway"}
  Budget = 2
  Snapshots = {m1}
  Reports <- AllFields
  Undecodable = {}
  MaxOthers = 0
  PairIds = {a, b}
  PairLists <- TwoPairs
  Twin <- Schedule
  MaxRuns = 1
INVARIANTS TypeOK VerifierAccepts PlansComeFirst FirstCallSeqIsFirst PlayedAsCommitted
PROPERTY CellEnds
CHECK_DEADLOCK FALSE
