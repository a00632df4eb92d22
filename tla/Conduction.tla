----------------------------- MODULE Conduction -----------------------------
(***************************************************************************)
(* The two conduction tools.  Each is a process of its own that talks to   *)
(* the gateway and shares no state with the other: a behaviour is one run  *)
(* of one of them, and the backend they talk to is the same.               *)
(***************************************************************************)
EXTENDS Smoke, Workload

VARIABLE tool

vars == <<tool, smokeVars, workloadVars>>

Init == tool \in {"smoke", "workload"} /\ SmokeInit /\ WorkloadInit

SmokeStep ==
  /\ tool = "smoke"
  /\ SmokeNext
  /\ UNCHANGED <<tool, workloadVars>>

WorkloadStep ==
  /\ tool = "workload"
  /\ WorkloadNext
  /\ UNCHANGED <<tool, smokeVars>>

Next == SmokeStep \/ WorkloadStep

Fairness ==
  /\ WF_vars(tool = "smoke" /\ SmokeRuns /\ UNCHANGED <<tool, workloadVars>>)
  /\ WF_vars(tool = "smoke" /\ SmokeAnswers /\ UNCHANGED <<tool, workloadVars>>)
  /\ WF_vars(tool = "workload" /\ WorkloadRuns /\ UNCHANGED <<tool, smokeVars>>)
  /\ WF_vars(tool = "workload" /\ WorkloadAnswers /\ UNCHANGED <<tool, smokeVars>>)

Spec == Init /\ [][Next]_vars /\ Fairness
-----------------------------------------------------------------------------
\* The type invariant.
TypeOK == tool \in {"smoke", "workload"} /\ SmokeTypeOK /\ WorkloadTypeOK

\* What a tool leaves on disk and the way it ended agree, whatever failed: the end
\* of run_smoke with the note (smoke_frontier.py:297; its main adds an exit by
\* argparse before it and a print after it), and the exit status of the workload
\* check with its own (workload_determinism.py:364-396).
EndsAsNoted == NoteTellsTheEnd /\ ExitMatchesNote

\* Against a backend that answers, either tool ends, whatever it is answered:
\* no response makes the episodes or the fires go on.  For the smoke run this
\* rests on the call budget, since a model may emit a call for ever.
ConductionEnds == <>(SmokeOver \/ WorkloadOver)
=============================================================================
