----------------------------- MODULE MCEpisode -----------------------------
(* Instances of Episode for TLC. *)
EXTENDS Episode

AllFields == {{"seq", "snapshot_id"}}
SomeFields == {{"seq", "snapshot_id"}, {}}
=============================================================================
