------------------------------ MODULE Workload ------------------------------
(***************************************************************************)
(* The workload-determinism check: run_check and main of                   *)
(* runner/workload_determinism.py.  An episode is run against the gateway  *)
(* and the context of its last model call is kept; the request made of it  *)
(* is fired twice back to back and twice with an unrelated request between.*)
(* Both pairs must attest their serving; the verdict is DETERMINISTIC when *)
(* the bodies of each pair are equal.                                      *)
(*                                                                         *)
(* Abstractions.  The n-th context of the episode is n, the request made   *)
(* of it and the SHA-256 of what was sent too.  A body is one of a few     *)
(* values, which stand for whole, cut and error outputs alike: neither     *)
(* status nor output_len of a response is looked at.  A printed text is    *)
(* left out, but not that printing may raise.                              *)
(***************************************************************************)
EXTENDS Backend, Integers, Sequences

CONSTANTS
  Outputs,   \* bodies of framed responses
  Depth,     \* CALL_BUDGET of the captured episode
  ReadAs     \* what _fire_raw makes of a header: see ReadHeader

ASSUME WorkloadAssumption ==
  /\ Depth \in Nat \ {0}
  /\ ReadAs \in [Headers -> Headers]

VARIABLES
  wpc,        \* where main, and run_check in it, is
  contexts,   \* how many contexts the capturing adapter holds
  fires,      \* what was sent and what came back, per fire
  wnote,      \* the file at --out
  exit,       \* the exit status
  ran         \* history: what served each fire

workloadVars == <<wpc, contexts, fires, wnote, exit, ran>>

EmptyBody == "no_body"
Running == -1        \* no exit status yet
Unflushed == 120     \* Python's, when standard output cannot be flushed at exit

Fire == [sent : Nat, hdr : Headers, body : Outputs \cup {EmptyBody}]

WorkloadSteps == {"args", "capture", "fire", "check", "between", "verdict", "halt",
                  "report",   \* the note is written, the summary is printed
                  "over"}
WorkloadOver == wpc = "over"

Verdicts == {"DETERMINISTIC", "NONDETERMINISTIC"}
Undischarged == "RUN_NOT_DISCHARGEABLE"

WorkloadInit ==
  /\ wpc = "args"
  /\ contexts = 0
  /\ fires = <<>>
  /\ wnote = Earlier
  /\ exit = Running
  /\ ran = <<>>

\* The arguments are good.
ArgsTaken ==
  /\ wpc = "args"
  /\ wpc' = "capture"
  /\ UNCHANGED <<contexts, fires, wnote, exit, ran>>

\* argparse ends the process: an argument it does not take, no socket, or --help.
ArgsEnd ==
  /\ wpc = "args"
  /\ exit' \in {2, 0, Unflushed}
  /\ wpc' = "over"
  /\ UNCHANGED <<contexts, fires, wnote, ran>>

\* One step of the captured episode: the wrapper keeps the context, then asks.
\* The gateway answers with a call or with the end of the episode.
Capture ==
  /\ wpc = "capture"
  /\ contexts' = contexts + 1
  /\ wpc' \in (IF contexts' = Depth THEN {} ELSE {"capture"}) \cup {"fire"}
  /\ UNCHANGED <<fires, wnote, exit, ran>>

DeepestContext == contexts

\* _fire_raw decodes the header with replacement characters, splits it at every
\* line boundary of Unicode and strips what it finds: fields that differ on the
\* wire may read the same, as empty, or as other fields.  (GatewayAdapter keeps
\* every value exactly, so that module Smoke reads Header itself.)
ReadHeader(sv, fields) == ReadAs[Header(sv, fields)]

\* A fire of the workload request.  A response without an empty line has
\* neither header nor body.
FireWorkload ==
  /\ wpc = "fire"
  /\ \E sv \in Servings :
       /\ ran' = Append(ran, sv)
       /\ \/ \E fields \in Reports, out \in Outputs :
               fires' = Append(fires,
                 [sent |-> DeepestContext, hdr |-> ReadHeader(sv, fields), body |-> out])
          \/ fires' = Append(fires,
               [sent |-> DeepestContext, hdr |-> NoHeader, body |-> EmptyBody])
  /\ wpc' = IF Len(fires') \in {2, 4} THEN "check"
            ELSE IF Len(fires') = 3 THEN "between" ELSE "fire"
  /\ UNCHANGED <<contexts, wnote, exit>>

\* The unrelated request; whatever comes back is dropped.
FireBetween ==
  /\ wpc = "between"
  /\ wpc' = "fire"
  /\ UNCHANGED <<contexts, fires, wnote, exit, ran>>

\* _assert_serving_attested on the two fires of a pair.  Faulty variant: the
\* header's string is compared with the integer pin.
AttestedUntyped(f, g) == FALSE
Attested(f, g) ==
  /\ \A h \in {f.hdr, g.hdr} : h.snap \notin {None, EmptyId} /\ h.temp = Pin
  /\ f.hdr.snap = g.hdr.snap

SameRequest(f, g) == f.sent = g.sent

PairStands ==
  LET n == Len(fires) IN
    /\ SameRequest(fires[n - 1], fires[n])
    /\ Attested(fires[n - 1], fires[n])

\* Faulty variant of RunStands: the two pairs are not compared.
PairsStand == TRUE
\* The four fires name one snapshot.
RunStands == \A i, j \in 1 .. 4 : fires[i].hdr.snap = fires[j].hdr.snap

CheckPair ==
  /\ wpc = "check"
  /\ wpc' = IF ~PairStands THEN "halt"
            ELSE IF Len(fires) = 2 THEN "fire"
            ELSE IF RunStands THEN "verdict" ELSE "halt"
  /\ UNCHANGED <<contexts, fires, wnote, exit, ran>>

\* Each pair's bodies are compared, never one pair's with the other's.
Verdict ==
  IF fires[1].body = fires[2].body /\ fires[3].body = fires[4].body
  THEN "DETERMINISTIC" ELSE "NONDETERMINISTIC"

\* write_record.
Record ==
  /\ wpc = "verdict"
  /\ wnote' = Verdict
  /\ wpc' = "report"
  /\ UNCHANGED <<contexts, fires, exit, ran>>

\* A WorkloadDeterminismFailure caught by main.
Halt ==
  /\ wpc = "halt"
  /\ wnote' = Undischarged
  /\ wpc' = "report"
  /\ UNCHANGED <<contexts, fires, exit, ran>>

\* Faulty variant: only a verdict can fail a run.
StatusOfVerdict(note) == IF note = "NONDETERMINISTIC" THEN 1 ELSE 0
Status(note) ==
  IF note = Undischarged THEN 2 ELSE IF note = "DETERMINISTIC" THEN 0 ELSE 1

\* The summary is printed and main returns.
Report ==
  /\ wpc = "report"
  /\ exit' = Status(wnote)
  /\ wpc' = "over"
  /\ UNCHANGED <<contexts, fires, wnote, ran>>

\* Any other exception (socket, adapter, C library, file, standard output) leaves
\* main.  While it is written the note may be left in part; while the summary is
\* printed it is complete already, and only then is there output to be flushed.
Escapes ==
  /\ ~WorkloadOver
  /\ wnote' \in {wnote} \cup (IF wpc \in {"verdict", "halt"} THEN {CutShort} ELSE {})
  /\ exit' \in {1} \cup (IF wpc = "report" THEN {Unflushed} ELSE {})
  /\ wpc' = "over"
  /\ UNCHANGED <<contexts, fires, ran>>

WorkloadRuns == ArgsTaken \/ ArgsEnd \/ CheckPair \/ Record \/ Halt \/ Report
WorkloadAnswers == Capture \/ FireWorkload \/ FireBetween

WorkloadNext == WorkloadRuns \/ WorkloadAnswers \/ Escapes

\* One thread; the gateway answers what it is asked.
WorkloadFairness == WF_workloadVars(WorkloadRuns) /\ WF_workloadVars(WorkloadAnswers)
-----------------------------------------------------------------------------
\* Part of the type invariant of Conduction.
WorkloadTypeOK ==
  /\ wpc \in WorkloadSteps
  /\ contexts \in 0 .. Depth
  /\ fires \in Seq(Fire) /\ Len(fires) <= 4
  /\ ran \in Seq(Servings) /\ Len(ran) = Len(fires)
  /\ wnote \in {Earlier, CutShort, Undischarged} \cup Verdicts
  /\ exit \in {Running, 0, 1, 2, Unflushed}

\* "No single determinism verdict is readable" over two backends
\* (workload_determinism.py:279): a verdict is written only if the header of
\* every fire, as it was read, names one and the same snapshot and the pin, and
\* is what the gateway reported of the serving; and what was fired is the context
\* of the episode's last model call (:15-20).  That one snapshot served all four
\* fires follows only if ids that differ never read the same.
VerdictIsAttested ==
  wnote \in Verdicts =>
    \E s \in Snapshots \ {EmptyId} : \A i \in 1 .. 4 :
      /\ \E fields \in Reports : ReadHeader(ran[i], fields) = [snap |-> s, temp |-> Pin]
      /\ fires[i].sent = contexts

\* The check refuses no honest backend: as long as every fire was served by one
\* snapshot at one temperature, the header said so each time and reads as a
\* named snapshot and the pin, and the output has been the same, the run is not
\* halted and no other verdict than DETERMINISTIC is written.  A check that can
\* only halt would satisfy every other property.
SteadyIsDecided ==
  (\E sv \in Servings, out \in Outputs :
     LET h == ReadHeader(sv, {"snapshot_id", "temperature_q16"}) IN
       /\ h.snap \notin {None, EmptyId} /\ h.temp = Pin
       /\ \A i \in DOMAIN fires :
            ran[i] = sv /\ fires[i].hdr = h /\ fires[i].body = out)
  => wpc # "halt" /\ wnote \notin {Undischarged, "NONDETERMINISTIC"}

\* main ended before its first call of the model.
Unasked == contexts = 0 /\ wnote = Earlier

\* What the exit status says of the note (main, :364-396).  A run that got past
\* its arguments ends with 0 only if its note says DETERMINISTIC, and with 2 only
\* if it says that the run is not dischargeable; the same statuses without a note
\* of this run are those of argparse, before any model call.  The converse is
\* not so: a complete note of any kind is left with status 1 or 120 when the
\* summary cannot be printed.
ExitMatchesNote ==
  WorkloadOver =>
    /\ exit = 0 => wnote = "DETERMINISTIC" \/ Unasked
    /\ exit = 2 => wnote = Undischarged \/ Unasked
    /\ wnote = "NONDETERMINISTIC" => exit \notin {0, 2}

\* "Proves the backend serves the REAL workload deterministically"
\* (workload_determinism.py:5-6): one request, one output.
DeterministicIsOneOutput ==
  wnote = "DETERMINISTIC" => \A i, j \in 1 .. 4 : fires[i].body = fires[j].body
=============================================================================
