\* Every kind of adapter; a gateway that always reports seq and snapshot_id
\* and serves other clients too.  An episode ends: deadlock is expected.
SPECIFICATION Spec
CONSTANTS
  Calls = {p, f}
  Predicates = {p}
  Slots = 2
  Sources = {"scripted", "local", "gateway"}
  Budget = 3
  Snapshots = {m1, m2}
  Reports <- AllFields
  Undecodable = {f}
  MaxOthers = 1
  EpisodeIds = {0}
INVARIANTS TypeOK ObsBeforeServe ProvedAsShown DoneIsComplete OneCallUnrecorded ObsNamesLastReported
PROPERTY Terminates
CHECK_DEADLOCK FALSE
