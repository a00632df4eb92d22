------------------------------- MODULE MCCell -------------------------------
(* Instances of Cell for TLC: two pairs, schedules that fail in different *)
(* slots, a gateway that always reports seq and snapshot_id.              *)
EXTENDS Cell, TLC

CONSTANTS a, b

TwoPairs == {<<a, b>>}
OnePair == {<<a>>, <<b>>}
Schedule == (a :> [s \in 0 .. Slots - 1 |-> s = 0])
         @@ (b :> [s \in 0 .. Slots - 1 |-> s # 0])
AllFields == {{"seq", "snapshot_id"}}
=============================================================================
