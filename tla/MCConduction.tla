---------------------------- MODULE MCConduction ----------------------------
(* Instances of Conduction for TLC. *)
EXTENDS Conduction

\* Any part of the header may be missing.
AnyFields == SUBSET {"snapshot_id", "temperature_q16"}

\* An id with a blank at its end reads as the id without it.
Strip(value) == IF value = "m1 " THEN "m1" ELSE value
Stripped == [h \in Headers |-> [snap |-> Strip(h.snap), temp |-> Strip(h.temp)]]
=============================================================================
