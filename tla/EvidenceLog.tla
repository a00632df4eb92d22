---------------------------- MODULE EvidenceLog ----------------------------
(***************************************************************************)
(* What a reader of an evidence file may rely on, with no file in it: a    *)
(* log of records that only grows, except that a crash may lose records    *)
(* nobody was told about.  EvidenceChain implements it.                    *)
(***************************************************************************)
EXTENDS Naturals, Sequences

CONSTANT Records    \* what a frame carries: a registered tag and a payload

VARIABLES
  log,              \* the records a replay of the evidence yields
  acked             \* every record up to this position was acknowledged

logVars == <<log, acked>>

LogInit ==
  /\ log = <<>>
  /\ acked = 0

\* A record reaches the file; its author does not know it yet.
Write(r) ==
  /\ log' = Append(log, r)
  /\ UNCHANGED acked

\* The author of the last record is told that the log holds it.
Acknowledge ==
  /\ acked' = Len(log)
  /\ UNCHANGED log

\* A crash loses a suffix of the records that were never acknowledged.
Lose ==
  /\ \E n \in acked .. Len(log) : log' = SubSeq(log, 1, n)
  /\ UNCHANGED acked

LogNext ==
  \/ \E r \in Records : Write(r)
  \/ Acknowledge
  \/ Lose

LogSpec == LogInit /\ [][LogNext]_logVars
=============================================================================
