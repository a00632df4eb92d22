------------------------------ MODULE Backend ------------------------------
(***************************************************************************)
(* The gateway as the two conduction tools see it (smoke_frontier.py and   *)
(* workload_determinism.py): an exchange is served by some model snapshot  *)
(* at some temperature, which may be another one each time, and the        *)
(* response reports truly what served it, or leaves header fields out.     *)
(***************************************************************************)
CONSTANTS
  Snapshots,  \* the values of a snapshot_id header, perhaps EmptyId
  Temps,      \* the values of a temperature_q16 header
  Pin,        \* temperature_q16 of the requests
  Reports     \* which header fields a framed response may carry

ASSUME BackendAssumption ==
  /\ Pin \in Temps
  /\ "none" \notin Snapshots \cup Temps
  /\ Reports \subseteq SUBSET {"snapshot_id", "temperature_q16"}

None == "none"     \* a header field that is absent, an attribute that is None
EmptyId == ""      \* a snapshot_id header with no value

Servings == [snap : Snapshots, temp : Temps]
Headers == [snap : Snapshots \cup {None}, temp : Temps \cup {None}]

Header(sv, fields) ==
  [snap |-> IF "snapshot_id" \in fields THEN sv.snap ELSE None,
   temp |-> IF "temperature_q16" \in fields THEN sv.temp ELSE None]
NoHeader == [snap |-> None, temp |-> None]

\* What a tool leaves behind: the file at --out, and how the process ended.
Earlier == "earlier"       \* the note of an earlier run, or no file
CutShort == "cut_short"    \* opened for writing, not written to the end
=============================================================================
