------------------------------ MODULE Witness ------------------------------
(***************************************************************************)
(* The determinism witness of runner/detwitness.py: a gateway serves       *)
(* requests and commits them to its chain, a runner keeps what it received *)
(* and fires a request again, and check_witness adjudicates the two from   *)
(* an export of the chain and the runner's list of calls.                  *)
(*                                                                         *)
(* Abstractions.                                                           *)
(*  - A chain head is the sequence of the frames it is the head of, and a  *)
(*    response hash the head and the body of the response it hashes.       *)
(*  - A frame is an AX:OBS record that parses, or any other; of a record's *)
(*    params only whether the temperature is the pinned one is kept.       *)
(*  - An export is frames that replay, or bytes that read_export refuses.  *)
(*  - At most one of the two parties misreports: a gateway may commit an   *)
(*    output it did not serve, a runner may list bodies and a hash of what *)
(*    it did not receive.  The heads listed are those the gateway echoed:  *)
(*    who changes an export cannot make the gateway echo its head.         *)
(***************************************************************************)
EXTENDS Integers, Sequences, SequencesExt

CONSTANTS
  Inputs,     \* requests, by input_hash
  Outputs,    \* response bodies
  Snapshots,  \* model ids
  Parties,    \* who may misreport
  MaxFrames,  \* bound of the model: frames of the gateway's chain
  MaxCalls    \* bound of the model: witnessed calls

ASSUME WitnessAssumption ==
  /\ Parties \subseteq {"nobody", "gateway", "runner"}
  /\ MaxFrames \in Nat
  /\ MaxCalls \in Nat

VARIABLES
  liar,     \* the party that misreports
  gw,       \* the gateway's chain
  served,   \* history: the body on the wire, per frame
  export,   \* the export given to the checker
  calls,    \* the runner's list of calls
  phase     \* "serving", "witness"

vars == <<liar, gw, served, export, calls, phase>>

Other == [tag |-> "other"]
ObsFrames == [tag : {"OBS"}, input : Inputs, model : Snapshots, complete : BOOLEAN,
              pinned : BOOLEAN, output : Outputs]

HeadAt(frames, seq) == SubSeq(frames, 1, seq)
ResponseHash(head, body) == [head |-> head, body |-> body]
-----------------------------------------------------------------------------
\* The checker, check_witness.  A cited frame is an oracle record that parses.
IsObs(frames, seq) == seq \in DOMAIN frames /\ frames[seq].tag = "OBS"

\* Faulty variant: the echoed heads are not compared.
CitedUnechoed(frames, c) ==
  IsObs(frames, c.recorded_seq) /\ IsObs(frames, c.refire_seq)

\* Both frames a call cites are in the export, under the heads echoed when they
\* were served.
Cited(frames, c) ==
  /\ IsObs(frames, c.recorded_seq) /\ c.recorded_head = HeadAt(frames, c.recorded_seq)
  /\ IsObs(frames, c.refire_seq) /\ c.refire_head = HeadAt(frames, c.refire_seq)

\* Faulty variant: the response is reconstructed with the latest head.
PreconditionsLatest(frames, c) ==
  LET r == frames[c.recorded_seq]
      f == frames[c.refire_seq]
  IN  /\ r.model = f.model
      /\ r.complete /\ f.complete
      /\ r.pinned /\ f.pinned
      /\ c.response_hash = ResponseHash(frames, r.output)

\* Snapshot matched, both complete, pin served on both, and the response hash
\* of the recorded call (of that call only) cross-bound.
Preconditions(frames, c) ==
  LET r == frames[c.recorded_seq]
      f == frames[c.refire_seq]
  IN  /\ r.model = f.model
      /\ r.complete /\ f.complete
      /\ r.pinned /\ f.pinned
      /\ c.response_hash = ResponseHash(HeadAt(frames, c.recorded_seq), r.output)

\* Faulty variant: the input hashes are not compared.
ReconstructedAnyhow(frames, c) == TRUE

\* Assertion 1: the request was reconstructed.
Reconstructed(frames, c) ==
  frames[c.recorded_seq].input = frames[c.refire_seq].input

\* Assertion 2b: the gateway attests one output for both fires.
SameAttested(frames, c) ==
  frames[c.recorded_seq].output = frames[c.refire_seq].output

\* Faulty variant: the refired body is not looked at.
RecordedBodyOnly(frames, c) ==
  c.recorded_body = frames[c.recorded_seq].output

\* Assertion 2a, and the recorded body against the record.
SameBodies(frames, c) ==
  /\ c.recorded_body = c.refire_body
  /\ c.recorded_body = frames[c.recorded_seq].output

CallVerdict(frames, c) ==
  IF ~Cited(frames, c) \/ ~Preconditions(frames, c) \/ ~Reconstructed(frames, c)
  THEN "NOT-DISCHARGEABLE"
  ELSE IF ~SameAttested(frames, c) THEN "VOID"
  ELSE IF SameBodies(frames, c) THEN "DETERMINISTIC"
  ELSE "NOT-DISCHARGEABLE"

\* The run verdict: NOT-DISCHARGEABLE for an export that does not replay, else
\* the worst of the calls by _PRECEDENCE.
Verdict(e, cs) ==
  LET verdicts == {CallVerdict(e.frames, cs[i]) : i \in DOMAIN cs} IN
    IF ~e.whole \/ "NOT-DISCHARGEABLE" \in verdicts THEN "NOT-DISCHARGEABLE"
    ELSE IF "VOID" \in verdicts THEN "VOID"
    ELSE "DETERMINISTIC"
-----------------------------------------------------------------------------
Init ==
  /\ liar \in Parties
  /\ gw = <<>>
  /\ served = <<>>
  /\ export = [whole |-> TRUE, frames |-> <<>>]
  /\ calls = <<>>
  /\ phase = "serving"

\* The gateway serves a request, under whatever model and temperature it has,
\* and commits the exchange: the output it served, or, if it misreports, any.
Exchange ==
  /\ phase = "serving"
  /\ Len(gw) < MaxFrames
  /\ \E frame \in ObsFrames, body \in Outputs :
       /\ frame.output = body \/ liar = "gateway"
       /\ gw' = Append(gw, frame)
       /\ served' = Append(served, body)
  /\ UNCHANGED <<liar, export, calls, phase>>

\* The gateway commits a frame that is not an oracle record, or a record the
\* checker cannot parse.
OtherFrame ==
  /\ phase = "serving"
  /\ Len(gw) < MaxFrames
  /\ gw' = Append(gw, Other)
  /\ \E body \in Outputs : served' = Append(served, body)
  /\ UNCHANGED <<liar, export, calls, phase>>

\* The export: complete, stale, changed in one record, or not replayable.
Changed ==
  {[gw EXCEPT ![i].output = o] : i \in {j \in DOMAIN gw : gw[j] # Other}, o \in Outputs}

Export ==
  /\ phase = "serving"
  /\ export' \in {[whole |-> TRUE, frames |-> SubSeq(gw, 1, n)] : n \in 0 .. Len(gw)}
                \cup {[whole |-> TRUE, frames |-> g] : g \in Changed}
                \cup {[whole |-> FALSE, frames |-> <<>>]}
  /\ phase' = "witness"
  /\ UNCHANGED <<liar, gw, served, calls>>

\* A listed call: the heads echoed, the hash committed of a body, the bodies of
\* the transcripts.
Listed(r, f, hashed, recorded, refired) ==
  [recorded_seq |-> r, refire_seq |-> f,
   recorded_head |-> HeadAt(gw, r), refire_head |-> HeadAt(gw, f),
   response_hash |-> ResponseHash(HeadAt(gw, r), hashed),
   recorded_body |-> recorded, refire_body |-> refired]

\* What the runner received for the exchanges it lists.
Received(r, f) == Listed(r, f, served[r], served[r], served[f])

\* What a runner that misreports may list instead.
Misreported(r, f) == {Listed(r, f, h, b1, b2) : h, b1, b2 \in Outputs}

AddCall ==
  /\ phase = "witness"
  /\ Len(calls) < MaxCalls
  /\ \E r, f \in DOMAIN gw :
       \E c \in {Received(r, f)} \cup (IF liar = "runner" THEN Misreported(r, f) ELSE {}) :
         calls' = Append(calls, c)
  /\ UNCHANGED <<liar, gw, served, export, phase>>

Next == Exchange \/ OtherFrame \/ Export \/ AddCall

Spec == Init /\ [][Next]_vars
-----------------------------------------------------------------------------
Calls == {calls[i] : i \in DOMAIN calls}
RunVerdict == Verdict(export, calls)

\* One model at the pin served the exchanges r and f, whole, for one input.
OneSetting(r, f) ==
  /\ gw[r].tag = "OBS" /\ gw[f].tag = "OBS"
  /\ gw[r].input = gw[f].input
  /\ gw[r].model = gw[f].model
  /\ gw[r].pinned /\ gw[f].pinned
  /\ gw[r].complete /\ gw[f].complete

\* "Neither party can unilaterally misreport what was served"
\* (detwitness.py:43-44): if the verdict is DETERMINISTIC, then for every call
\* the gateway recorded both exchanges it cites as one model's complete answers
\* to one input at the pin, the bodies on the wire were the same, and the
\* export attests those bodies, whichever one party misreports.  A call whose
\* two seqs are one, which lists one exchange as both fires, passes the checks
\* of the code too, and so does an empty list of calls: what is said of two
\* serves is said of the calls that cite two.
DeterministicWasServed ==
  phase = "witness" /\ RunVerdict = "DETERMINISTIC" =>
    \A c \in Calls :
      /\ OneSetting(c.recorded_seq, c.refire_seq)
      /\ served[c.recorded_seq] = served[c.refire_seq]
      /\ export.frames[c.recorded_seq].output = served[c.recorded_seq]
      /\ export.frames[c.refire_seq].output = served[c.refire_seq]

\* VOID is a serving-determinism failure (detwitness.py:34-35): unless the
\* gateway attests what it did not serve, one model at the pinned temperature
\* did serve two outputs for one input.  No misreport of the runner and no
\* fault of the export is taken for one.  A gateway's can be: the record of the
\* repeated exchange is not compared with the body the runner received.
VoidWasServed ==
  phase = "witness" /\ RunVerdict = "VOID" /\ liar # "gateway" =>
    \E i, j \in DOMAIN gw :
      /\ gw[i].tag = "OBS" /\ gw[j].tag = "OBS"
      /\ gw[i].input = gw[j].input
      /\ gw[i].model = gw[j].model
      /\ gw[i].pinned /\ gw[j].pinned
      /\ served[i] # served[j]

\* "An unreadable, stale, torn, or integrity-failing export is
\* NOT-DISCHARGEABLE" (detwitness.py:49-51): a verdict on calls is given only
\* on an export that is the gateway's chain up to every frame a call cites.
ExportIsTheChain ==
  phase = "witness" /\ RunVerdict # "NOT-DISCHARGEABLE" =>
    /\ export.whole
    /\ \A c \in Calls : \A s \in {c.recorded_seq, c.refire_seq} :
         /\ s <= Len(export.frames)
         /\ SubSeq(export.frames, 1, s) = SubSeq(gw, 1, s)

\* When nobody misreports, the export is complete and every call fires one
\* request again under one model and the pin, the run is decided, and by what
\* was served: the checker is not so strict that it never decides.
HonestIsDecided ==
  phase = "witness" /\ liar = "nobody" /\ export = [whole |-> TRUE, frames |-> gw]
  /\ (\A c \in Calls :
        /\ gw[c.recorded_seq].tag = "OBS" /\ gw[c.refire_seq].tag = "OBS"
        /\ [gw[c.recorded_seq] EXCEPT !.output = served[c.refire_seq]]
             = gw[c.refire_seq]
        /\ gw[c.refire_seq].complete /\ gw[c.refire_seq].pinned) =>
    RunVerdict = IF \A c \in Calls : served[c.recorded_seq] = served[c.refire_seq]
                 THEN "DETERMINISTIC" ELSE "VOID"
=============================================================================
