\* A gateway that leaves seq and model_snapshot_id out of some responses: an
\* oracle record then names an earlier exchange.
SPECIFICATION Spec
CONSTANTS
  Calls = {p}
  Predicates = {p}
  Slots = 1
  Sources = {"gateway"}
  Budget = 2
  Snapshots = {m1}
  Reports <- SomeFields
  Undecodable = {}
  MaxOthers = 0
  EpisodeIds = {0}
INVARIANT ObsNamesItsCall
CHECK_DEADLOCK FALSE
