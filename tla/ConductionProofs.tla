-------------------------- MODULE ConductionProofs --------------------------
(***************************************************************************)
(* Proofs about the conduction tools for every set of snapshots,           *)
(* temperatures and outputs, every header the gateway may send, any number *)
(* of episodes and any call budget: type correctness and the safety        *)
(* invariants of Smoke, Workload and Conduction.                           *)
(***************************************************************************)
EXTENDS Conduction, SequenceTheorems, TLAPS

\* The steps of the smoke run after its last episode.
AllPlayed == spc \in {"replay", "leaving", "noting", "clean", "failed"}

\* The current episode has its own adapter, so that its attributes are what
\* was heard in this episode; nothing was heard of a later one.
HeardIsLast ==
  /\ spc \in {"episode", "check"} => ep < Episodes /\ last = heard[ep]
  /\ spc = "start" => ep = 0 /\ last = NoHeader
  /\ \A e \in 0 .. Episodes - 1 :
       e > ep \/ (e = ep /\ spc = "start") => heard[e] = NoHeader

\* The two sets hold the verdict on every episode that was checked.
CheckedIsCollected ==
  \A e \in 0 .. Episodes - 1 :
    e < ep => SnapshotOf(heard[e]) \in snapshots /\ TemperatureOf(heard[e]) \in temps

\* The episodes that were checked are the clean ones.
CheckedIsClean == clean = {e \in 0 .. Episodes - 1 : e < ep}

\* A finished note is the last thing a run leaves.
NoteIsLast ==
  /\ spc \notin {"clean", "failed"} => snote.state # "whole"
  /\ spc = "clean" => FailedPreconditions = {} /\ snote = Note({})
  /\ spc = "failed" =>
       \E f \in SUBSET {"snapshot", "pinning"} : f # {} /\ snote = Note(f)

SmokeIInv ==
  /\ SmokeTypeOK
  /\ spc \in {"start", "episode"} => served < Budget
  /\ AllPlayed => ep = Episodes
  /\ HeardIsLast
  /\ CheckedIsCollected
  /\ CheckedIsClean
  /\ NoteIsLast
-----------------------------------------------------------------------------
\* How many fires there are at each step of the workload check.
FiresAt ==
  /\ wpc = "args" => Len(fires) = 0 /\ contexts = 0
  /\ wpc = "capture" => Len(fires) = 0 /\ contexts < Depth
  /\ wpc = "fire" => Len(fires) \in 0 .. 3
  /\ wpc = "check" => Len(fires) \in {2, 4}
  /\ wpc = "between" => Len(fires) = 3
  /\ wpc = "verdict" => Len(fires) = 4

\* The header of a fire is read from what the gateway reported of its serving.
HeaderIsRead ==
  \A i \in 1 .. Len(fires) :
    /\ fires[i].sent = contexts
    /\ \/ fires[i].hdr = NoHeader
       \/ \E fields \in Reports : fires[i].hdr = ReadHeader(ran[i], fields)

\* A pair that was passed is attested; so are both when there is a verdict.
PairsAttested ==
  /\ Len(fires) >= 3 => Attested(fires[1], fires[2])
  /\ wpc = "fire" /\ Len(fires) = 2 => Attested(fires[1], fires[2])
  /\ wpc = "verdict" \/ wnote \in Verdicts =>
       Len(fires) = 4 /\ Attested(fires[3], fires[4]) /\ RunStands

\* A halt has a reason: two fires of a pair, or of the run, do not go together.
HaltHasReason ==
  wpc = "halt" \/ wnote = Undischarged =>
    /\ Len(fires) \in {2, 4}
    /\ PairStands => Len(fires) = 4 /\ ~RunStands

\* The note of a run and the statuses it may be left with.
NoteAndStatus ==
  \/ wnote \in Verdicts /\ wnote = Verdict /\ exit \in {Status(wnote), 1, Unflushed}
  \/ wnote = Undischarged /\ exit \in {2, 1, Unflushed}
  \/ wnote \in {Earlier, CutShort} /\ exit = 1
  \/ wnote = Earlier /\ contexts = 0 /\ exit \in {2, 0, Unflushed}

\* A verdict, the exit status and the end of the run go together.
ExitIsNoted ==
  /\ wpc # "over" => exit = Running
  /\ wpc \notin {"report", "over"} => wnote = Earlier
  /\ wpc = "report" => (wnote \in Verdicts /\ wnote = Verdict) \/ wnote = Undischarged
  /\ wpc = "over" => NoteAndStatus

WorkloadIInv ==
  /\ WorkloadTypeOK
  /\ FiresAt
  /\ HeaderIsRead
  /\ PairsAttested
  /\ HaltHasReason
  /\ ExitIsNoted

\* The inductive invariant.
IInv == tool \in {"smoke", "workload"} /\ SmokeIInv /\ WorkloadIInv
-----------------------------------------------------------------------------
\* Actions of the smoke run that leave the transcript checks and the note alone.
LEMMA SmokeQuietStep ==
  ASSUME SmokeIInv,
         Start \/ StartRaises \/ Unframed \/ CheckFails \/ Replay \/ Raises \/ Restore
  PROVE  SmokeIInv'
<1> USE SmokeAssumption DEF SmokeIInv, SmokeTypeOK, SmokeSteps
<1>1. CASE Start
  <2>1. /\ spc = "start" /\ spc' = "episode" /\ poisoned' = TRUE
        /\ UNCHANGED <<ep, last, served, injected, echoed, snapshots, temps, snote,
                       heard, clean>>
    BY <1>1 DEF Start, transcript
  <2>2. ep = 0 /\ last = heard[ep] /\ served < Budget
    BY <2>1 DEF HeardIsLast
  <2>3. SmokeTypeOK'
    BY <2>1
  <2>4. HeardIsLast' /\ CheckedIsCollected' /\ CheckedIsClean' /\ NoteIsLast'
    BY <2>1, <2>2 DEF HeardIsLast, CheckedIsCollected, CheckedIsClean, NoteIsLast
  <2> QED
    BY <2>1, <2>2, <2>3, <2>4 DEF AllPlayed
<1>2. CASE StartRaises
  BY <1>2 DEF StartRaises, transcript, AllPlayed, HeardIsLast, CheckedIsCollected,
     CheckedIsClean, NoteIsLast
<1>3. CASE Unframed
  BY <1>3 DEF Unframed, transcript, AllPlayed, HeardIsLast, CheckedIsCollected,
     CheckedIsClean, NoteIsLast
<1>4. CASE CheckFails
  BY <1>4 DEF CheckFails, transcript, AllPlayed, HeardIsLast, CheckedIsCollected,
     CheckedIsClean, NoteIsLast
<1>5. CASE Replay
  BY <1>5 DEF Replay, transcript, AllPlayed, HeardIsLast, CheckedIsCollected,
     CheckedIsClean, NoteIsLast
<1>6. CASE Raises
  BY <1>6 DEF Raises, transcript, AllPlayed, HeardIsLast, CheckedIsCollected,
     CheckedIsClean, NoteIsLast
<1>7. CASE Restore
  BY <1>7 DEF Restore, transcript, AllPlayed, HeardIsLast, CheckedIsCollected,
     CheckedIsClean, NoteIsLast
<1> QED
  BY <1>1, <1>2, <1>3, <1>4, <1>5, <1>6, <1>7

\* An exchange of an episode: the adapter and the history hear the same.
LEMMA ExchangeStep ==
  ASSUME SmokeIInv, Exchange
  PROVE  SmokeIInv'
<1> USE SmokeAssumption DEF SmokeIInv, SmokeTypeOK, SmokeSteps
<1>1. PICK sv \in Servings, fields \in Reports, out \in {"call", "echo", "stop"} :
        LET h == Header(sv, fields) IN
          /\ last' = Updated(last, h)
          /\ heard' = [heard EXCEPT ![ep] = Updated(heard[ep], h)]
          /\ IF out = "stop"
             THEN spc' = "check" /\ UNCHANGED transcript
             ELSE /\ served' = Counted(served)
                  /\ injected' = (injected \/ poisoned)
                  /\ echoed' = (echoed \/ out = "echo")
                  /\ spc' = IF served' = Budget THEN "check" ELSE "episode"
  BY DEF Exchange
<1>2. /\ spc = "episode" /\ ep \in 0 .. Episodes - 1
      /\ last = heard[ep]
      /\ UNCHANGED <<ep, poisoned, snapshots, temps, snote, clean>>
  BY DEF Exchange, HeardIsLast
<1>3. Header(sv, fields) \in Headers
  BY DEF Header, Headers, Servings
<1>4. last' \in Headers
  BY <1>1, <1>3 DEF Updated, Headers
<1>5. /\ spc' \in {"episode", "check"} /\ served' \in 0 .. Budget
      /\ spc' = "episode" => served' < Budget
      /\ injected' \in BOOLEAN /\ echoed' \in BOOLEAN
  <2>1. CASE out = "stop"
    BY <1>1, <1>2, <2>1 DEF transcript
  <2>2. CASE out # "stop"
    <3>1. served < Budget
      BY <1>2
    <3>2. served' = served + 1 /\ spc' = IF served' = Budget THEN "check" ELSE "episode"
      BY <1>1, <2>2 DEF Counted
    <3>3. injected' \in BOOLEAN /\ echoed' \in BOOLEAN
      BY <1>1, <2>2
    <3> QED
      BY <3>1, <3>2, <3>3
  <2> QED
    BY <2>1, <2>2
<1>6. /\ heard' \in [0 .. Episodes - 1 -> Headers]
      /\ heard'[ep] = last'
      /\ \A e \in 0 .. Episodes - 1 : e # ep => heard'[e] = heard[e]
  BY <1>1, <1>2, <1>4
<1>7. SmokeTypeOK'
  BY <1>2, <1>4, <1>5, <1>6
<1>8. HeardIsLast'
  BY <1>2, <1>5, <1>6 DEF HeardIsLast
<1>9. CheckedIsCollected'
  BY <1>2, <1>6 DEF CheckedIsCollected
<1>10. CheckedIsClean' /\ NoteIsLast' /\ AllPlayed' = FALSE
  BY <1>2, <1>5 DEF CheckedIsClean, NoteIsLast, AllPlayed
<1> QED
  BY <1>5, <1>7, <1>8, <1>9, <1>10

\* An episode passes its checks.
LEMMA CheckStep ==
  ASSUME SmokeIInv, Check
  PROVE  SmokeIInv'
<1> USE SmokeAssumption DEF SmokeIInv, SmokeTypeOK, SmokeSteps
<1>1. /\ spc = "check" /\ ep \in 0 .. Episodes - 1 /\ last = heard[ep]
      /\ clean' = clean \cup {ep}
      /\ ep' = ep + 1 /\ last' = NoHeader /\ served' = 0
      /\ injected' = FALSE /\ echoed' = FALSE
      /\ snapshots' = snapshots \cup {SnapshotOf(last)}
      /\ temps' = temps \cup {TemperatureOf(last)}
      /\ spc' = IF ep' = Episodes THEN "replay" ELSE "episode"
      /\ UNCHANGED <<poisoned, snote, heard>>
  BY DEF Check, Isolated, FreshAdapter, HeardIsLast
<1>2. /\ SnapshotOf(last) \in (Snapshots \ {EmptyId}) \cup {"UNRECORDED"}
      /\ TemperatureOf(last) \in Temps \cup {"UNREPORTED"}
  BY DEF SnapshotOf, TemperatureOf, Headers
<1>3. SmokeTypeOK'
  <2>1. spc' \in SmokeSteps /\ snote' \in Notes
    BY <1>1
  <2>2. ep' \in 0 .. Episodes /\ served' \in 0 .. Budget /\ last' \in Headers
    BY <1>1 DEF NoHeader, Headers
  <2>3. injected' \in BOOLEAN /\ echoed' \in BOOLEAN /\ poisoned' \in BOOLEAN
    BY <1>1
  <2>4. /\ snapshots' \subseteq (Snapshots \ {EmptyId}) \cup {"UNRECORDED"}
        /\ temps' \subseteq Temps \cup {"UNREPORTED"}
    BY <1>1, <1>2
  <2>5. heard' \in [0 .. Episodes - 1 -> Headers] /\ clean' \subseteq 0 .. Episodes - 1
    BY <1>1
  <2> QED
    BY <2>1, <2>2, <2>3, <2>4, <2>5
<1>4. HeardIsLast'
  BY <1>1 DEF HeardIsLast
<1>5. CheckedIsCollected'
  BY <1>1 DEF CheckedIsCollected
<1>6. CheckedIsClean' /\ NoteIsLast'
  BY <1>1 DEF CheckedIsClean, NoteIsLast
<1> QED
  BY <1>1, <1>3, <1>4, <1>5, <1>6 DEF AllPlayed

\* The note is written, or cannot be.
LEMMA NoteStep ==
  ASSUME SmokeIInv, WriteNote \/ WriteNoteRaises
  PROVE  SmokeIInv'
<1>1. FailedPreconditions \in SUBSET {"snapshot", "pinning"}
  BY DEF FailedPreconditions
<1>2. FailedPreconditions' = FailedPreconditions
  BY DEF WriteNote, WriteNoteRaises, FailedPreconditions
<1>3. spc = "noting" /\ spc' \in {"clean", "failed", "raised"} /\ snote' \in Notes
  BY <1>1 DEF WriteNote, WriteNoteRaises, SmokeIInv, SmokeTypeOK, Notes
<1>4. SmokeTypeOK' /\ HeardIsLast' /\ CheckedIsCollected' /\ CheckedIsClean' /\ ep' = ep
  BY <1>3 DEF WriteNote, WriteNoteRaises, transcript, SmokeIInv, SmokeTypeOK,
     SmokeSteps, HeardIsLast, CheckedIsCollected, CheckedIsClean
<1>5. NoteIsLast'
  <2>1. CASE WriteNote /\ FailedPreconditions = {}
    <3>1. spc' = "clean" /\ snote' = Note({}) /\ FailedPreconditions' = {}
      BY <1>2, <2>1 DEF WriteNote
    <3> QED
      BY <3>1 DEF NoteIsLast
  <2>2. CASE WriteNote /\ FailedPreconditions # {}
    <3>1. spc' = "failed" /\ snote' = Note(FailedPreconditions)
      BY <2>2 DEF WriteNote
    <3> QED
      BY <1>1, <2>2, <3>1 DEF NoteIsLast
  <2>3. CASE WriteNoteRaises
    <3>1. snote.state # "whole"
      BY <1>3 DEF SmokeIInv, NoteIsLast
    <3>2. Partial(CutShort).state # "whole"
      BY DEF Partial, CutShort
    <3>3. spc' = "raised" /\ snote'.state # "whole"
      BY <2>3, <3>1, <3>2 DEF WriteNoteRaises
    <3> QED
      BY <3>3 DEF NoteIsLast
  <2> QED
    BY <2>1, <2>2, <2>3
<1> QED
  BY <1>3, <1>4, <1>5 DEF SmokeIInv, AllPlayed

LEMMA SmokeInvStep ==
  ASSUME SmokeIInv, SmokeNext
  PROVE  SmokeIInv'
BY SmokeQuietStep, ExchangeStep, CheckStep, NoteStep
   DEF SmokeNext, SmokeRuns, SmokeFails, SmokeAnswers

LEMMA SmokeInitInv == SmokeInit => SmokeIInv
<1> SUFFICES ASSUME SmokeInit
             PROVE  SmokeIInv
  OBVIOUS
<1> USE SmokeAssumption DEF SmokeInit
<1>1. NoHeader \in Headers /\ Partial(Earlier) \in Notes /\ Partial(Earlier).state # "whole"
  BY DEF NoHeader, Headers, Notes, Partial, Earlier
<1>2. SmokeTypeOK
  <2>1. spc \in SmokeSteps /\ ep \in 0 .. Episodes /\ served \in 0 .. Budget
    BY DEF SmokeSteps
  <2>2. heard \in [0 .. Episodes - 1 -> Headers] /\ last \in Headers /\ snote \in Notes
    BY <1>1
  <2>3. injected \in BOOLEAN /\ echoed \in BOOLEAN /\ poisoned \in BOOLEAN
    OBVIOUS
  <2> QED
    BY <2>1, <2>2, <2>3 DEF SmokeTypeOK
<1>3. HeardIsLast /\ CheckedIsCollected /\ CheckedIsClean /\ NoteIsLast
  BY <1>1 DEF HeardIsLast, CheckedIsCollected, CheckedIsClean, NoteIsLast
<1> QED
  BY <1>2, <1>3 DEF SmokeIInv, AllPlayed

LEMMA SmokeStutter ==
  ASSUME SmokeIInv, UNCHANGED smokeVars
  PROVE  SmokeIInv'
BY DEF smokeVars, SmokeIInv, SmokeTypeOK, AllPlayed, HeardIsLast, CheckedIsCollected,
       CheckedIsClean, NoteIsLast, FailedPreconditions
-----------------------------------------------------------------------------
\* Whatever is reported of a serving reads as a header.
LEMMA ReadHeaderType ==
  ASSUME NEW sv \in Servings, NEW fields
  PROVE  ReadHeader(sv, fields) \in Headers
<1>1. Header(sv, fields) \in Headers
  BY DEF Header, Headers, Servings
<1> QED
  BY <1>1, WorkloadAssumption DEF ReadHeader

\* What the workload check knows of a pair of fires does not change when
\* others are appended.
LEMMA FireStep ==
  ASSUME WorkloadIInv, FireWorkload
  PROVE  WorkloadIInv'
<1>1. PICK sv \in Servings, f \in Fire :
        /\ ran' = Append(ran, sv)
        /\ fires' = Append(fires, f)
        /\ f.sent = contexts
        /\ f.hdr = NoHeader \/ \E fields \in Reports : f.hdr = ReadHeader(sv, fields)
  <2>1. PICK sv \in Servings :
          /\ ran' = Append(ran, sv)
          /\ \/ \E fields \in Reports, out \in Outputs :
                  fires' = Append(fires,
                    [sent |-> DeepestContext, hdr |-> ReadHeader(sv, fields), body |-> out])
             \/ fires' = Append(fires,
                  [sent |-> DeepestContext, hdr |-> NoHeader, body |-> EmptyBody])
    BY DEF FireWorkload
  <2>2. contexts \in Nat
    BY WorkloadAssumption DEF WorkloadIInv, WorkloadTypeOK
  <2>3. CASE \E fields \in Reports, out \in Outputs :
               fires' = Append(fires,
                 [sent |-> DeepestContext, hdr |-> ReadHeader(sv, fields), body |-> out])
    <3>1. PICK fields \in Reports, out \in Outputs :
            fires' = Append(fires,
              [sent |-> DeepestContext, hdr |-> ReadHeader(sv, fields), body |-> out])
      BY <2>3
    <3> DEFINE f == [sent |-> DeepestContext, hdr |-> ReadHeader(sv, fields), body |-> out]
    <3>2. f \in Fire
      BY <2>2, ReadHeaderType DEF Fire, DeepestContext
    <3>3. f.sent = contexts /\ f.hdr = ReadHeader(sv, fields)
      BY DEF DeepestContext
    <3> QED
      BY <2>1, <3>1, <3>2, <3>3
  <2>4. CASE fires' = Append(fires,
               [sent |-> DeepestContext, hdr |-> NoHeader, body |-> EmptyBody])
    <3> DEFINE f == [sent |-> DeepestContext, hdr |-> NoHeader, body |-> EmptyBody]
    <3>1. f \in Fire
      BY <2>2 DEF Fire, DeepestContext, NoHeader, Headers
    <3>2. f.sent = contexts /\ f.hdr = NoHeader
      BY DEF DeepestContext
    <3> QED
      BY <2>1, <2>4, <3>1, <3>2
  <2> QED
    BY <2>1, <2>3, <2>4
<1>2. /\ fires \in Seq(Fire) /\ ran \in Seq(Servings) /\ Len(ran) = Len(fires)
      /\ wpc = "fire" /\ Len(fires) \in 0 .. 3
      /\ wnote = Earlier /\ exit = Running
      /\ UNCHANGED <<contexts, wnote, exit>>
  BY DEF FireWorkload, WorkloadIInv, WorkloadTypeOK, FiresAt, ExitIsNoted
<1>3. /\ fires' \in Seq(Fire) /\ Len(fires') = Len(fires) + 1
      /\ ran' \in Seq(Servings) /\ Len(ran') = Len(fires')
      /\ \A i \in 1 .. Len(fires) : fires'[i] = fires[i] /\ ran'[i] = ran[i]
      /\ fires'[Len(fires')] = f /\ ran'[Len(fires')] = sv
  BY <1>1, <1>2
<1>4. wpc' = IF Len(fires') \in {2, 4} THEN "check"
             ELSE IF Len(fires') = 3 THEN "between" ELSE "fire"
  BY DEF FireWorkload
<1>5. WorkloadTypeOK'
  <2>1. wpc' \in WorkloadSteps
    BY <1>4 DEF WorkloadSteps
  <2>2. Len(fires') <= 4
    BY <1>2, <1>3
  <2>3. wnote' = wnote /\ exit' = exit /\ contexts' = contexts
    BY <1>2
  <2> QED
    BY <1>3, <2>1, <2>2, <2>3 DEF WorkloadIInv, WorkloadTypeOK
<1>6. FiresAt'
  <2>1. Len(fires') \in 1 .. 4
    <3>1. Len(fires) \in 0 .. 3 /\ Len(fires') = Len(fires) + 1
      BY <1>2, <1>3
    <3>2. \A l \in 0 .. 3 : l + 1 \in 1 .. 4
      OBVIOUS
    <3> QED
      BY <3>1, <3>2
  <2>2. /\ wpc' = "fire" => Len(fires') \in 0 .. 3
        /\ wpc' = "check" => Len(fires') \in {2, 4}
        /\ wpc' = "between" => Len(fires') = 3
        /\ wpc' \in {"check", "between", "fire"}
    BY <1>4, <2>1
  <2> QED
    BY <2>2 DEF FiresAt
<1>7. HeaderIsRead'
  BY <1>1, <1>2, <1>3 DEF WorkloadIInv, HeaderIsRead
<1>8. PairsAttested'
  <2>1. wnote' \notin Verdicts /\ wpc' # "verdict"
    BY <1>2, <1>4 DEF Verdicts, Earlier
  <2>2. Len(fires') >= 3 => Attested(fires'[1], fires'[2])
    <3>1. Len(fires) >= 2 => Attested(fires[1], fires[2])
      BY <1>2 DEF WorkloadIInv, PairsAttested
    <3> QED
      BY <1>2, <1>3, <3>1
  <2>3. ~(wpc' = "fire" /\ Len(fires') = 2)
    BY <1>4
  <2> QED
    BY <2>1, <2>2, <2>3 DEF PairsAttested, Attested
<1>9. HaltHasReason' /\ ExitIsNoted'
  BY <1>2, <1>4 DEF HaltHasReason, ExitIsNoted, Undischarged, Earlier
<1> QED
  BY <1>5, <1>6, <1>7, <1>8, <1>9 DEF WorkloadIInv

\* A pair is passed, or the run is halted.
LEMMA CheckPairStep ==
  ASSUME WorkloadIInv, CheckPair
  PROVE  WorkloadIInv'
<1>1. /\ wpc = "check" /\ Len(fires) \in {2, 4}
      /\ wnote = Earlier /\ exit = Running
      /\ fires' = fires /\ ran' = ran /\ contexts' = contexts
      /\ wnote' = wnote /\ exit' = exit
  BY DEF CheckPair, WorkloadIInv, FiresAt, ExitIsNoted
<1>2. wpc' = IF ~PairStands THEN "halt"
             ELSE IF Len(fires) = 2 THEN "fire"
             ELSE IF RunStands THEN "verdict" ELSE "halt"
  BY DEF CheckPair
<1>3. WorkloadTypeOK' /\ FiresAt' /\ HeaderIsRead' /\ ExitIsNoted'
  BY <1>1, <1>2 DEF WorkloadIInv, WorkloadTypeOK, WorkloadSteps, FiresAt, HeaderIsRead,
     ExitIsNoted
<1>4. PairStands' = PairStands /\ RunStands' = RunStands
  BY <1>1 DEF PairStands, RunStands, SameRequest, Attested
<1>5. PairsAttested'
  <2>1. Len(fires) >= 3 => Attested(fires[1], fires[2])
    BY DEF WorkloadIInv, PairsAttested
  <2>2. wnote' \notin Verdicts
    BY <1>1 DEF Verdicts, Earlier
  <2>3. wpc' = "fire" => Len(fires) = 2 /\ Attested(fires[1], fires[2])
    BY <1>1, <1>2 DEF PairStands
  <2>4. wpc' = "verdict" => Len(fires) = 4 /\ Attested(fires[3], fires[4]) /\ RunStands
    BY <1>1, <1>2 DEF PairStands
  <2> QED
    BY <1>1, <1>4, <2>1, <2>2, <2>3, <2>4 DEF PairsAttested, Attested
<1>6. HaltHasReason'
  BY <1>1, <1>2, <1>4 DEF HaltHasReason, Undischarged, Earlier
<1> QED
  BY <1>3, <1>5, <1>6 DEF WorkloadIInv

\* The steps that neither fire the workload nor look at a pair.
LEMMA WorkloadQuietStep ==
  ASSUME WorkloadIInv,
         \/ ArgsTaken \/ ArgsEnd \/ Capture \/ FireBetween
         \/ Record \/ Halt \/ Report \/ Escapes
  PROVE  WorkloadIInv'
<1>1. fires' = fires /\ ran' = ran
  BY DEF ArgsTaken, ArgsEnd, Capture, FireBetween, Record, Halt, Report, Escapes
<1>2. PairStands' = PairStands /\ RunStands' = RunStands /\ Verdict' = Verdict
  BY <1>1 DEF PairStands, RunStands, SameRequest, Attested, Verdict
<1>3. CASE Capture
  <2>1. /\ wpc = "capture" /\ Len(fires) = 0 /\ wnote = Earlier /\ exit = Running
        /\ contexts \in 0 .. Depth - 1 /\ contexts' = contexts + 1
        /\ wpc' \in {"capture", "fire"}
        /\ wpc' = "capture" => contexts' # Depth
        /\ wnote' = wnote /\ exit' = exit
    BY <1>3, WorkloadAssumption
       DEF Capture, WorkloadIInv, WorkloadTypeOK, FiresAt, ExitIsNoted
  <2>2. WorkloadTypeOK' /\ FiresAt'
    BY <1>1, <2>1, WorkloadAssumption
       DEF WorkloadIInv, WorkloadTypeOK, WorkloadSteps, FiresAt
  <2>3. HeaderIsRead' /\ PairsAttested' /\ HaltHasReason' /\ ExitIsNoted'
    BY <1>1, <2>1
       DEF HeaderIsRead, PairsAttested, HaltHasReason, ExitIsNoted, Verdicts, Earlier,
           Undischarged
  <2> QED
    BY <2>2, <2>3 DEF WorkloadIInv
<1>4. CASE FireBetween
  <2>1. /\ Len(fires) = 3 /\ wnote = Earlier /\ exit = Running
        /\ wpc' = "fire" /\ contexts' = contexts /\ wnote' = wnote /\ exit' = exit
    BY <1>4 DEF FireBetween, WorkloadIInv, FiresAt, ExitIsNoted
  <2>2. WorkloadTypeOK' /\ FiresAt' /\ HeaderIsRead'
    BY <1>1, <2>1 DEF WorkloadIInv, WorkloadTypeOK, WorkloadSteps, FiresAt, HeaderIsRead
  <2>3. PairsAttested' /\ HaltHasReason' /\ ExitIsNoted'
    BY <1>1, <2>1
       DEF WorkloadIInv, PairsAttested, Attested, HaltHasReason, ExitIsNoted, Verdicts,
           Earlier, Undischarged
  <2> QED
    BY <2>2, <2>3 DEF WorkloadIInv
<1>5. CASE Record
  <2>1. /\ wpc = "verdict" /\ wnote' = Verdict /\ wpc' = "report" /\ exit = Running
        /\ exit' = exit /\ contexts' = contexts /\ Verdict \in Verdicts
    BY <1>5 DEF Record, Verdict, Verdicts, WorkloadIInv, ExitIsNoted
  <2>2. WorkloadTypeOK' /\ FiresAt' /\ HeaderIsRead'
    BY <1>1, <2>1 DEF WorkloadIInv, WorkloadTypeOK, WorkloadSteps, FiresAt, HeaderIsRead
  <2>3. PairsAttested'
    BY <1>1, <1>2, <2>1 DEF WorkloadIInv, PairsAttested, Attested
  <2>4. HaltHasReason' /\ ExitIsNoted'
    BY <1>2, <2>1 DEF HaltHasReason, ExitIsNoted, Verdicts, Undischarged
  <2> QED
    BY <2>2, <2>3, <2>4 DEF WorkloadIInv
<1>6. CASE Halt
  <2>1. /\ wpc = "halt" /\ wnote' = Undischarged /\ wpc' = "report" /\ exit = Running
        /\ exit' = exit /\ contexts' = contexts
    BY <1>6 DEF Halt, WorkloadIInv, ExitIsNoted
  <2>2. WorkloadTypeOK' /\ FiresAt' /\ HeaderIsRead'
    BY <1>1, <2>1 DEF WorkloadIInv, WorkloadTypeOK, WorkloadSteps, FiresAt, HeaderIsRead
  <2>3. PairsAttested' /\ HaltHasReason' /\ ExitIsNoted'
    BY <1>1, <1>2, <2>1
       DEF WorkloadIInv, PairsAttested, Attested, HaltHasReason, ExitIsNoted, Verdicts,
           Undischarged
  <2> QED
    BY <2>2, <2>3 DEF WorkloadIInv
<1>7. CASE Report \/ Escapes \/ ArgsEnd
  <2>1. /\ wpc # "over" /\ wpc' = "over" /\ contexts' = contexts /\ exit' # Running
        /\ exit' \in {0, 1, 2, Unflushed}
        /\ wnote' \in {wnote, CutShort}
    BY <1>7 DEF Report, Escapes, ArgsEnd, WorkloadOver, Status, Running, Unflushed
  <2>2. WorkloadTypeOK' /\ FiresAt' /\ HeaderIsRead'
    BY <1>1, <2>1 DEF WorkloadIInv, WorkloadTypeOK, WorkloadSteps, FiresAt, HeaderIsRead
  <2>3. PairsAttested' /\ HaltHasReason'
    BY <1>1, <1>2, <2>1
       DEF WorkloadIInv, PairsAttested, Attested, HaltHasReason, Verdicts, Undischarged,
           CutShort
  <2>4. NoteAndStatus'
    <3>1. CASE wpc = "report"
      <4>1. wnote' = wnote /\ exit' \in {Status(wnote), 1, Unflushed}
        BY <1>7, <3>1 DEF Report, Escapes, ArgsEnd
      <4>2. (wnote \in Verdicts /\ wnote = Verdict) \/ wnote = Undischarged
        BY <3>1 DEF WorkloadIInv, ExitIsNoted
      <4>3. Status(Undischarged) = 2
        BY DEF Status
      <4> QED
        BY <1>2, <4>1, <4>2, <4>3 DEF NoteAndStatus
    <3>2. CASE wpc # "report"
      <4>1. wnote = Earlier /\ (wpc = "args" => contexts = 0)
        BY <2>1, <3>2 DEF WorkloadIInv, ExitIsNoted, FiresAt
      <4>2. CASE Escapes
        BY <3>2, <4>1, <4>2 DEF Escapes, NoteAndStatus
      <4>3. CASE ArgsEnd
        BY <2>1, <4>1, <4>3 DEF ArgsEnd, NoteAndStatus
      <4> QED
        BY <1>7, <3>2, <4>2, <4>3 DEF Report
    <3> QED
      BY <3>1, <3>2
  <2> QED
    BY <2>1, <2>2, <2>3, <2>4 DEF WorkloadIInv, ExitIsNoted
<1>8. CASE ArgsTaken
  <2>1. /\ wpc = "args" /\ wpc' = "capture" /\ Len(fires) = 0 /\ contexts = 0
        /\ wnote = Earlier /\ exit = Running
        /\ contexts' = contexts /\ wnote' = wnote /\ exit' = exit
    BY <1>8 DEF ArgsTaken, WorkloadIInv, FiresAt, ExitIsNoted
  <2>2. WorkloadTypeOK' /\ FiresAt' /\ HeaderIsRead'
    BY <1>1, <2>1, WorkloadAssumption
       DEF WorkloadIInv, WorkloadTypeOK, WorkloadSteps, FiresAt, HeaderIsRead
  <2>3. PairsAttested' /\ HaltHasReason' /\ ExitIsNoted'
    BY <1>1, <2>1
       DEF PairsAttested, HaltHasReason, ExitIsNoted, Verdicts, Earlier, Undischarged
  <2> QED
    BY <2>2, <2>3 DEF WorkloadIInv
<1> QED
  BY <1>3, <1>4, <1>5, <1>6, <1>7, <1>8

LEMMA WorkloadInvStep ==
  ASSUME WorkloadIInv, WorkloadNext
  PROVE  WorkloadIInv'
BY WorkloadQuietStep, FireStep, CheckPairStep
   DEF WorkloadNext, WorkloadRuns, WorkloadAnswers

LEMMA WorkloadInitInv == WorkloadInit => WorkloadIInv
BY WorkloadAssumption
   DEF WorkloadInit, WorkloadIInv, WorkloadTypeOK, WorkloadSteps, FiresAt, HeaderIsRead,
       PairsAttested, HaltHasReason, ExitIsNoted, Verdicts, Undischarged, Earlier

LEMMA WorkloadStutter ==
  ASSUME WorkloadIInv, UNCHANGED workloadVars
  PROVE  WorkloadIInv'
BY DEF workloadVars, WorkloadIInv, WorkloadTypeOK, FiresAt, HeaderIsRead, PairsAttested,
       HaltHasReason, ExitIsNoted, NoteAndStatus, PairStands, RunStands, SameRequest, Attested, Verdict
-----------------------------------------------------------------------------
\* The inductive invariant holds in every reachable state.
LEMMA Invariant == Spec => []IInv
<1>1. Init => IInv
  BY SmokeInitInv, WorkloadInitInv DEF Init, IInv
<1>2. IInv /\ [Next]_vars => IInv'
  <2> SUFFICES ASSUME IInv, [Next]_vars
               PROVE  IInv'
    OBVIOUS
  <2>1. CASE SmokeStep
    BY <2>1, SmokeInvStep, WorkloadStutter DEF SmokeStep, IInv, workloadVars
  <2>2. CASE WorkloadStep
    BY <2>2, WorkloadInvStep, SmokeStutter DEF WorkloadStep, IInv, smokeVars
  <2>3. CASE UNCHANGED vars
    BY <2>3, SmokeStutter, WorkloadStutter DEF vars, IInv, smokeVars, workloadVars
  <2> QED
    BY <2>1, <2>2, <2>3 DEF Next
<1> QED
  BY <1>1, <1>2, PTL DEF Spec

\* Every reachable state of either tool is well typed.
THEOREM TypeCorrect == Spec => []TypeOK
<1>1. IInv => TypeOK
  BY DEF IInv, SmokeIInv, WorkloadIInv, TypeOK
<1> QED
  BY <1>1, Invariant, PTL

\* A clean smoke run was told, in every episode, a snapshot and the pinned
\* temperature (smoke_frontier.py:270-285).
THEOREM CleanRunCorrect == Spec => []CleanRunAttested
<1>1. IInv => CleanRunAttested
  <2> SUFFICES ASSUME IInv, spc = "clean", NEW e \in 0 .. Episodes - 1
               PROVE  heard[e].snap \notin {None, EmptyId} /\ heard[e].temp = Pin
    BY DEF CleanRunAttested
  <2>1. ep = Episodes /\ FailedPreconditions = {}
    BY DEF IInv, SmokeIInv, AllPlayed, NoteIsLast
  <2>2. "UNRECORDED" \notin snapshots /\ "UNREPORTED" \notin temps /\ temps = {Pin}
    BY <2>1 DEF FailedPreconditions
  <2>3. SnapshotOf(heard[e]) \in snapshots /\ TemperatureOf(heard[e]) \in temps
    BY <2>1, SmokeAssumption DEF IInv, SmokeIInv, CheckedIsCollected
  <2> QED
    BY <2>2, <2>3 DEF SnapshotOf, TemperatureOf
<1> QED
  BY <1>1, Invariant, PTL

\* A finished note is about episodes in each of which the model was shown the
\* sentinel and did not echo it (smoke_frontier.py:365).
THEOREM NoteCorrect == Spec => []NoteMeansIsolated
<1>1. IInv => NoteMeansIsolated
  <2> SUFFICES ASSUME IInv, snote.state = "whole"
               PROVE  clean = 0 .. Episodes - 1
    BY DEF NoteMeansIsolated
  <2>1. ep = Episodes
    BY DEF IInv, SmokeIInv, NoteIsLast, AllPlayed
  <2> QED
    BY <2>1, SmokeAssumption DEF IInv, SmokeIInv, CheckedIsClean
<1> QED
  BY <1>1, Invariant, PTL

\* A verdict is written only if all four fires were reported, as read, to be
\* served by one named snapshot at the pin, and what was fired is the deepest
\* context (workload_determinism.py:164).
THEOREM VerdictCorrect == Spec => []VerdictIsAttested
<1>1. IInv => VerdictIsAttested
  <2> SUFFICES ASSUME IInv, wnote \in Verdicts
               PROVE  \E s \in Snapshots \ {EmptyId} : \A i \in 1 .. 4 :
                        /\ \E fields \in Reports :
                             ReadHeader(ran[i], fields) = [snap |-> s, temp |-> Pin]
                        /\ fires[i].sent = contexts
    BY DEF VerdictIsAttested
  <2>1. /\ Len(fires) = 4 /\ Len(ran) = 4 /\ fires \in Seq(Fire) /\ ran \in Seq(Servings)
        /\ Attested(fires[1], fires[2]) /\ Attested(fires[3], fires[4]) /\ RunStands
    BY DEF IInv, WorkloadIInv, WorkloadTypeOK, PairsAttested
  <2>2. \A i \in 1 .. 4 :
          /\ fires[i].hdr.snap \notin {None, EmptyId} /\ fires[i].hdr.temp = Pin
          /\ fires[i].hdr.snap = fires[1].hdr.snap
    BY <2>1 DEF Attested, RunStands
  <2>3. \A i \in 1 .. 4 : fires[i].hdr = [snap |-> fires[1].hdr.snap, temp |-> Pin]
    <3> TAKE i \in 1 .. 4
    <3>1. fires[i] \in Fire
      BY <2>1, ElementOfSeq
    <3> QED
      BY <2>2, <3>1 DEF Fire, Headers
  <2>4. \A i \in 1 .. 4 :
          /\ fires[i].sent = contexts
          /\ \E fields \in Reports : fires[i].hdr = ReadHeader(ran[i], fields)
    <3> TAKE i \in 1 .. 4
    <3>1. /\ fires[i].sent = contexts
          /\ fires[i].hdr = NoHeader
               \/ \E fields \in Reports : fires[i].hdr = ReadHeader(ran[i], fields)
      BY <2>1 DEF IInv, WorkloadIInv, HeaderIsRead
    <3>2. fires[i].hdr # NoHeader
      BY <2>2 DEF NoHeader
    <3> QED
      BY <3>1, <3>2
  <2>5. fires[1].hdr.snap \in Snapshots \ {EmptyId}
    <3>1. fires[1] \in Fire
      BY <2>1, ElementOfSeq
    <3> QED
      BY <2>2, <3>1 DEF Fire, Headers
  <2> QED
    BY <2>3, <2>4, <2>5
<1> QED
  BY <1>1, Invariant, PTL

\* Where every header reads as it was sent, which _fire_raw does not ensure
\* (workload_determinism.py:69-72), a verdict means that one named snapshot served
\* all four fires at the pin.
THEOREM ExactVerdictCorrect ==
  ASSUME \A h \in Headers : ReadAs[h] = h
  PROVE  Spec => [](wnote \in Verdicts =>
                      \E s \in Snapshots \ {EmptyId} :
                        \A i \in 1 .. 4 : ran[i] = [snap |-> s, temp |-> Pin])
<1>1. IInv /\ VerdictIsAttested =>
        (wnote \in Verdicts =>
           \E s \in Snapshots \ {EmptyId} :
             \A i \in 1 .. 4 : ran[i] = [snap |-> s, temp |-> Pin])
  <2> SUFFICES ASSUME IInv, VerdictIsAttested, wnote \in Verdicts
               PROVE  \E s \in Snapshots \ {EmptyId} :
                        \A i \in 1 .. 4 : ran[i] = [snap |-> s, temp |-> Pin]
    OBVIOUS
  <2>1. PICK s \in Snapshots \ {EmptyId} : \A i \in 1 .. 4 : \E fields \in Reports :
          ReadHeader(ran[i], fields) = [snap |-> s, temp |-> Pin]
    BY DEF VerdictIsAttested
  <2>2. Len(ran) = 4 /\ ran \in Seq(Servings)
    BY DEF IInv, WorkloadIInv, WorkloadTypeOK, PairsAttested
  <2>3. s # None /\ Pin # None
    BY <2>1, BackendAssumption DEF None
  <2>4. ASSUME NEW i \in 1 .. 4
        PROVE  ran[i] = [snap |-> s, temp |-> Pin]
    <3>1. ran[i] \in Servings
      BY <2>2, ElementOfSeq
    <3>2. PICK fields \in Reports : ReadHeader(ran[i], fields) = [snap |-> s, temp |-> Pin]
      BY <2>1
    <3>3. Header(ran[i], fields) \in Headers
      BY <3>1 DEF Header, Headers, Servings
    <3>4. Header(ran[i], fields) = [snap |-> s, temp |-> Pin]
      BY <3>2, <3>3 DEF ReadHeader
    <3>5. ran[i].snap = s /\ ran[i].temp = Pin
      BY <2>3, <3>4 DEF Header
    <3> QED
      BY <3>1, <3>5 DEF Servings
  <2> QED
    BY <2>1, <2>4
<1> QED
  BY <1>1, Invariant, VerdictCorrect, PTL

\* An honest and steady backend is never refused (workload_determinism.py:168).
THEOREM SteadyCorrect == Spec => []SteadyIsDecided
<1>1. IInv => SteadyIsDecided
  <2> DEFINE Told(sv) == ReadHeader(sv, {"snapshot_id", "temperature_q16"})
  <2> SUFFICES ASSUME IInv, NEW sv \in Servings, NEW out \in Outputs,
                      Told(sv).snap \notin {None, EmptyId}, Told(sv).temp = Pin,
                      \A i \in DOMAIN fires :
                        ran[i] = sv /\ fires[i].hdr = Told(sv) /\ fires[i].body = out
               PROVE  wpc # "halt" /\ wnote \notin {Undischarged, "NONDETERMINISTIC"}
    BY DEF SteadyIsDecided
  <2>1. fires \in Seq(Fire) /\ Len(fires) \in Nat /\ DOMAIN fires = 1 .. Len(fires)
    BY DEF IInv, WorkloadIInv, WorkloadTypeOK
  <2>2. \A i \in 1 .. Len(fires) :
          /\ fires[i].hdr.snap = Told(sv).snap /\ fires[i].hdr.temp = Pin
          /\ fires[i].body = out /\ fires[i].sent = contexts
    BY <2>1 DEF IInv, WorkloadIInv, HeaderIsRead
  <2> HIDE DEF Told
  <2>4. Len(fires) \in {2, 4} => PairStands
    BY <2>1, <2>2 DEF PairStands, SameRequest, Attested
  <2>5. Len(fires) = 4 => RunStands /\ Verdict = "DETERMINISTIC"
    BY <2>1, <2>2 DEF RunStands, Verdict
  <2>6. wpc # "halt" /\ wnote # Undischarged
    BY <2>4, <2>5 DEF IInv, WorkloadIInv, HaltHasReason
  <2>7. wnote \in Verdicts => wnote = "DETERMINISTIC"
    <3> SUFFICES ASSUME wnote \in Verdicts
                 PROVE  wnote = "DETERMINISTIC"
      OBVIOUS
    <3>1. Len(fires) = 4
      BY DEF IInv, WorkloadIInv, PairsAttested
    <3>2. wnote = Verdict
      BY DEF IInv, WorkloadIInv, ExitIsNoted, NoteAndStatus, Verdicts, Earlier, CutShort,
         Undischarged
    <3> QED
      BY <2>5, <3>1, <3>2
  <2> QED
    BY <2>6, <2>7 DEF Verdicts
<1> QED
  BY <1>1, Invariant, PTL

\* The end of a smoke run and its note agree (smoke_frontier.py:297), and an exit
\* status of 0 or 2 of the workload check says what its note says, unless no model
\* was asked (workload_determinism.py:364-396).
THEOREM EndsCorrect == Spec => []EndsAsNoted
<1>1. IInv => NoteTellsTheEnd
  <2> SUFFICES ASSUME IInv, SmokeOver
               PROVE  /\ spc = "clean" <=> snote = Note({})
                      /\ spc = "failed" <=> snote.state = "whole" /\ snote.failed # {}
    BY DEF NoteTellsTheEnd
  <2>1. \A f : Note(f).state = "whole" /\ Note(f).failed = f
    BY DEF Note
  <2> QED
    BY <2>1 DEF IInv, SmokeIInv, NoteIsLast, SmokeOver
<1>2. IInv => ExitMatchesNote
  <2> SUFFICES ASSUME IInv, wpc = "over"
               PROVE  /\ exit = 0 => wnote = "DETERMINISTIC" \/ Unasked
                      /\ exit = 2 => wnote = Undischarged \/ Unasked
                      /\ wnote = "NONDETERMINISTIC" => exit \notin {0, 2}
    BY DEF ExitMatchesNote, WorkloadOver
  <2>1. NoteAndStatus
    BY DEF IInv, WorkloadIInv, ExitIsNoted
  <2>2. CASE wnote \in Verdicts /\ exit \in {Status(wnote), 1, Unflushed}
    <3>1. /\ Status("DETERMINISTIC") = 0 /\ Status("NONDETERMINISTIC") = 1
      BY DEF Status, Undischarged
    <3>2. wnote = "DETERMINISTIC" \/ wnote = "NONDETERMINISTIC"
      BY <2>2 DEF Verdicts
    <3> QED
      BY <2>2, <3>1, <3>2 DEF Unflushed
  <2>3. CASE wnote = Undischarged /\ exit \in {2, 1, Unflushed}
    BY <2>3 DEF Undischarged, Unflushed
  <2>4. CASE wnote \in {Earlier, CutShort} /\ exit = 1
    BY <2>4 DEF Earlier, CutShort
  <2>5. CASE wnote = Earlier /\ contexts = 0
    BY <2>5 DEF Earlier, Unasked
  <2> QED
    BY <2>1, <2>2, <2>3, <2>4, <2>5 DEF NoteAndStatus
<1>3. IInv => EndsAsNoted
  BY <1>1, <1>2 DEF EndsAsNoted
<1> QED
  BY <1>3, Invariant, PTL
=============================================================================
