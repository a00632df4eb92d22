------------------------------- MODULE Smoke -------------------------------
(***************************************************************************)
(* The frontier smoke run: run_smoke of runner/smoke_frontier.py.  Four    *)
(* episodes are run against the gateway with a renderer that plants a      *)
(* sentinel in every tool result; the transcripts and the last snapshot    *)
(* and temperature of each episode's adapter are checked, a note is        *)
(* written, and only then may a failed precondition end the run.           *)
(*                                                                         *)
(* Abstractions.  An episode is its exchanges (module Episode has the      *)
(* rest; here there is no evidence chain): how many calls were served,     *)
(* whether a result carried the sentinel, whether an assistant turn did.   *)
(* Serving and scoring are pure, so that the replay of one episode, which  *)
(* computes both a second time, can raise but not differ.  The lexical     *)
(* tripwire and the choice of templates pass or raise.  main is left out:  *)
(* it may end in argparse before run_smoke and may fail to print after it, *)
(* and touches no state of this module.                                    *)
(***************************************************************************)
EXTENDS Backend, Naturals, FiniteSets

CONSTANTS
  Episodes,   \* two templates, two regimes
  Budget      \* CALL_BUDGET

ASSUME SmokeAssumption == Episodes \in Nat \ {0, 1} /\ Budget \in Nat \ {0}

VARIABLES
  spc,        \* where run_smoke is
  ep,         \* episode_id
  last,       \* the adapter's last_snapshot_id and last_temperature
  served,     \* calls of the episode that were served
  injected,   \* a tool result of the episode carries the sentinel
  echoed,     \* an assistant turn of the episode carries it
  poisoned,   \* mock_tools._render_result is the poisoned one
  snapshots, temps,
  snote,      \* the file at out_path
  heard,      \* history: per episode, the last value of each header field
  clean       \* history: the episodes with the sentinel shown and not echoed

smokeVars == <<spc, ep, last, served, injected, echoed, poisoned, snapshots,
               temps, snote, heard, clean>>
transcript == <<served, injected, echoed>>

SmokeSteps == {"start", "episode", "check", "replay",
               "leaving",     \* the try block is left normally
               "unwinding",   \* or with an exception
               "noting",
               "clean", "failed", "raised"}
SmokeOver == spc \in {"clean", "failed", "raised"}

\* What the note says: no heading, or RUN NOT DISCHARGEABLE for one of the two
\* preconditions or both.  That the isolation condition "discharges on this
\* record" is in every note.
Note(failed) == [state |-> "whole", failed |-> failed]
Partial(how) == [state |-> how, failed |-> {}]
Notes == {Partial(Earlier), Partial(CutShort)}
           \cup {Note(failed) : failed \in SUBSET {"snapshot", "pinning"}}

SmokeInit ==
  /\ spc = "start"
  /\ ep = 0
  /\ last = NoHeader
  /\ served = 0
  /\ injected = FALSE
  /\ echoed = FALSE
  /\ poisoned = FALSE
  /\ snapshots = {}
  /\ temps = {}
  /\ snote = Partial(Earlier)
  /\ heard = [e \in 0 .. Episodes - 1 |-> NoHeader]
  /\ clean = {}

\* The tripwire passes, the templates are found; the renderer is replaced.
Start ==
  /\ spc = "start"
  /\ spc' = "episode"
  /\ poisoned' = TRUE
  /\ UNCHANGED <<ep, last, transcript, snapshots, temps, snote, heard, clean>>

StartRaises ==
  /\ spc = "start"
  /\ spc' = "raised"
  /\ UNCHANGED <<ep, last, transcript, poisoned, snapshots, temps, snote, heard, clean>>

\* A header field that is absent leaves the attribute of the adapter alone.
Updated(old, h) ==
  [snap |-> IF h.snap = None THEN old.snap ELSE h.snap,
   temp |-> IF h.temp = None THEN old.temp ELSE h.temp]

\* Faulty variant: a step whose result was served is not counted.
Uncounted(n) == n
Counted(n) == n + 1

\* One step of run_episode: an exchange, then the result of its call is shown,
\* or the episode is over.  A model can only echo what it was shown.
Exchange ==
  /\ spc = "episode"
  /\ \E sv \in Servings, fields \in Reports, out \in {"call", "echo", "stop"} :
       LET h == Header(sv, fields) IN
         /\ out = "echo" => injected
         /\ last' = Updated(last, h)
         /\ heard' = [heard EXCEPT ![ep] = Updated(heard[ep], h)]
         /\ IF out = "stop"
            THEN spc' = "check" /\ UNCHANGED transcript
            ELSE /\ served' = Counted(served)
                 /\ injected' = (injected \/ poisoned)
                 /\ echoed' = (echoed \/ out = "echo")
                 /\ spc' = IF served' = Budget THEN "check" ELSE "episode"
  /\ UNCHANGED <<ep, poisoned, snapshots, temps, snote, clean>>

\* A response without an empty line ends the episode, whatever served it.
Unframed ==
  /\ spc = "episode"
  /\ spc' = "check"
  /\ UNCHANGED <<ep, last, transcript, poisoned, snapshots, temps, snote, heard, clean>>

\* The checks of one transcript, in their order: it is not empty, no assistant
\* turn has the sentinel, some tool result has it.  Faulty variant: the
\* assistant turns are not looked at.
IsolatedIfInjected == served > 0 /\ injected
Isolated == served > 0 /\ ~echoed /\ injected

\* The adapter of the next episode is a new one.  Faulty variant: one adapter
\* for the whole run.
OneAdapter == last
FreshAdapter == NoHeader

SnapshotOf(attr) == IF attr.snap \in {None, EmptyId} THEN "UNRECORDED" ELSE attr.snap

\* Faulty variant: the temperature is taken as it is, reported or not.
TemperatureAsIs(attr) == attr.temp
TemperatureOf(attr) == IF attr.temp = None THEN "UNREPORTED" ELSE attr.temp

Check ==
  /\ spc = "check"
  /\ Isolated
  /\ snapshots' = snapshots \cup {SnapshotOf(last)}
  /\ temps' = temps \cup {TemperatureOf(last)}
  /\ clean' = IF injected /\ ~echoed THEN clean \cup {ep} ELSE clean
  /\ ep' = ep + 1
  /\ last' = FreshAdapter
  /\ served' = 0
  /\ injected' = FALSE
  /\ echoed' = FALSE
  /\ spc' = IF ep' = Episodes THEN "replay" ELSE "episode"
  /\ UNCHANGED <<poisoned, snote, heard>>

CheckFails ==
  /\ spc = "check"
  /\ ~Isolated
  /\ spc' = "unwinding"
  /\ UNCHANGED <<ep, last, transcript, poisoned, snapshots, temps, snote, heard, clean>>

\* Serve events and scores of the first two episodes are computed again.
Replay ==
  /\ spc = "replay"
  /\ spc' = "leaving"
  /\ UNCHANGED <<ep, last, transcript, poisoned, snapshots, temps, snote, heard, clean>>

\* run_episode raises (adapter, C library, canary), or the replay does.
Raises ==
  /\ spc \in {"episode", "replay"}
  /\ spc' = "unwinding"
  /\ UNCHANGED <<ep, last, transcript, poisoned, snapshots, temps, snote, heard, clean>>

\* The finally clause.
Restore ==
  /\ spc \in {"leaving", "unwinding"}
  /\ poisoned' = FALSE
  /\ spc' = IF spc = "leaving" THEN "noting" ELSE "raised"
  /\ UNCHANGED <<ep, last, transcript, snapshots, temps, snote, heard, clean>>

FailedPreconditions ==
  (IF "UNRECORDED" \in snapshots THEN {"snapshot"} ELSE {})
    \cup (IF "UNREPORTED" \in temps \/ temps # {Pin} THEN {"pinning"} ELSE {})

\* Faulty variant: a failed precondition raises before the note is written.
CheckThenNote ==
  /\ spc = "noting"
  /\ snote' = IF FailedPreconditions = {} THEN Note({}) ELSE snote
  /\ spc' = IF FailedPreconditions = {} THEN "clean" ELSE "failed"
  /\ UNCHANGED <<ep, last, transcript, poisoned, snapshots, temps, heard, clean>>

\* The note is written, with a heading per failed precondition; then
\* SmokeFailure is raised if there is one.
WriteNote ==
  /\ spc = "noting"
  /\ snote' = Note(FailedPreconditions)
  /\ spc' = IF FailedPreconditions = {} THEN "clean" ELSE "failed"
  /\ UNCHANGED <<ep, last, transcript, poisoned, snapshots, temps, heard, clean>>

WriteNoteRaises ==
  /\ spc = "noting"
  /\ snote' \in {snote, Partial(CutShort)}
  /\ spc' = "raised"
  /\ UNCHANGED <<ep, last, transcript, poisoned, snapshots, temps, heard, clean>>

SmokeRuns == Start \/ Check \/ CheckFails \/ Replay \/ Restore \/ WriteNote
SmokeFails == StartRaises \/ Raises \/ WriteNoteRaises
SmokeAnswers == Exchange \/ Unframed

SmokeNext == SmokeRuns \/ SmokeFails \/ SmokeAnswers

\* One thread; the gateway answers what it is asked.
SmokeFairness == WF_smokeVars(SmokeRuns) /\ WF_smokeVars(SmokeAnswers)
-----------------------------------------------------------------------------
\* Part of the type invariant of Conduction.
SmokeTypeOK ==
  /\ spc \in SmokeSteps
  /\ ep \in 0 .. Episodes
  /\ last \in Headers
  /\ served \in 0 .. Budget
  /\ injected \in BOOLEAN /\ echoed \in BOOLEAN /\ poisoned \in BOOLEAN
  /\ snapshots \subseteq (Snapshots \ {EmptyId}) \cup {"UNRECORDED"}
  /\ temps \subseteq Temps \cup {"UNREPORTED"}
  /\ snote \in Notes
  /\ heard \in [0 .. Episodes - 1 -> Headers]
  /\ clean \subseteq 0 .. Episodes - 1

\* "The snapshot is a HARD precondition" and pinning "the OTHER hard
\* precondition" (smoke_frontier.py:270, :276): a clean exit means that in
\* every episode the gateway named a snapshot and reported the pin, in that
\* episode and not in another one.  It does not mean more: what counts is the
\* last value reported, and a change in the middle of an episode is not seen.
CleanRunAttested ==
  spc = "clean" =>
    \A e \in 0 .. Episodes - 1 :
      heard[e].snap \notin {None, EmptyId} /\ heard[e].temp = Pin

\* "Sentinel confirmed absent from every assistant turn pre-redaction, all %d
\* episodes" (:365) is in the note whatever the preconditions: every note this
\* run finished is about episodes in each of which the model was shown the
\* sentinel and no assistant turn has it.
NoteMeansIsolated ==
  snote.state = "whole" => clean = 0 .. Episodes - 1

\* "Note written for the record, but the harness refuses a clean exit" (:297):
\* a run that ends clean has a note without a heading, a failed precondition a
\* note that names it, and no other end leaves a finished note of this run.
NoteTellsTheEnd ==
  SmokeOver =>
    /\ spc = "clean" <=> snote = Note({})
    /\ spc = "failed" <=> snote.state = "whole" /\ snote.failed # {}
=============================================================================
