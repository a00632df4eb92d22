---------------------------- MODULE WitnessProofs ----------------------------
(***************************************************************************)
(* Proofs about Witness for any requests, bodies and models, any number of *)
(* exchanges and of witnessed calls, every export and whichever party      *)
(* misreports: what each run verdict says of what was on the wire.         *)
(***************************************************************************)
EXTENDS Witness, SequenceTheorems, TLAPS

Frame == ObsFrames \cup {Other}

CallType ==
  [recorded_seq : Nat, refire_seq : Nat,
   recorded_head : Seq(Frame), refire_head : Seq(Frame),
   response_hash : [head : Seq(Frame), body : Outputs],
   recorded_body : Outputs, refire_body : Outputs]

TypeInv ==
  /\ gw \in Seq(Frame)
  /\ calls \in Seq(CallType)
  /\ served \in Seq(Outputs) /\ Len(served) = Len(gw)
  /\ phase \in {"serving", "witness"}

\* A gateway that does not misreport attests what it served.
GatewayHonest ==
  liar # "gateway" =>
    \A i \in 1 .. Len(gw) : gw[i].tag = "OBS" => gw[i].output = served[i]

\* An export that replays is made of frames; there are no calls before it.
ExportTyped ==
  /\ export.frames \in Seq(Frame)
  /\ phase = "serving" => calls = <<>>

\* The heads of a call are those the gateway echoed; a runner that does not
\* misreport lists what it received.
CallTrue(c) ==
  /\ c.recorded_seq \in 1 .. Len(gw) /\ c.refire_seq \in 1 .. Len(gw)
  /\ c.recorded_head = HeadAt(gw, c.recorded_seq)
  /\ c.refire_head = HeadAt(gw, c.refire_seq)
  /\ liar # "runner" => c = Received(c.recorded_seq, c.refire_seq)

CallsTrue == \A i \in 1 .. Len(calls) : CallTrue(calls[i])

\* The inductive invariant.
IInv == TypeInv /\ GatewayHonest /\ ExportTyped /\ CallsTrue
-----------------------------------------------------------------------------
LEMMA InitInv == Init => IInv
BY DEF Init, IInv, TypeInv, GatewayHonest, ExportTyped, CallsTrue

\* The gateway commits one more frame.
LEMMA CommitStep ==
  ASSUME IInv, Exchange \/ OtherFrame
  PROVE  IInv'
<1>1. PICK fr \in Frame, body \in Outputs :
        /\ gw' = Append(gw, fr) /\ served' = Append(served, body)
        /\ liar # "gateway" /\ fr.tag = "OBS" => fr.output = body
  <2>1. CASE Exchange
    BY <2>1 DEF Exchange, Frame
  <2>2. CASE OtherFrame
    BY <2>2 DEF OtherFrame, Frame, Other
  <2> QED
    BY <2>1, <2>2
<1>2. /\ phase = "serving" /\ calls = <<>>
      /\ UNCHANGED <<liar, export, calls, phase>>
  BY DEF Exchange, OtherFrame, IInv, ExportTyped
<1>3. /\ gw' \in Seq(Frame) /\ served' \in Seq(Outputs)
      /\ Len(gw') = Len(gw) + 1 /\ Len(served') = Len(gw')
      /\ gw'[Len(gw')] = fr /\ served'[Len(gw')] = body
      /\ \A i \in 1 .. Len(gw) : gw'[i] = gw[i] /\ served'[i] = served[i]
  BY <1>1 DEF IInv, TypeInv
<1>4. TypeInv' /\ ExportTyped' /\ CallsTrue'
  BY <1>2, <1>3 DEF IInv, TypeInv, ExportTyped, CallsTrue
<1>5. GatewayHonest'
  BY <1>1, <1>2, <1>3 DEF IInv, TypeInv, GatewayHonest
<1> QED
  BY <1>4, <1>5 DEF IInv

\* An export with one record changed is made of frames too.
LEMMA ChangedFrames ==
  ASSUME IInv, NEW g \in Changed
  PROVE  g \in Seq(Frame)
<1>1. PICK i \in {j \in DOMAIN gw : gw[j] # Other}, o \in Outputs :
        g = [gw EXCEPT ![i].output = o]
  BY DEF Changed
<1>2. gw[i] \in ObsFrames /\ i \in 1 .. Len(gw)
  BY DEF IInv, TypeInv, Frame
<1>3. [gw[i] EXCEPT !.output = o] \in ObsFrames
  BY <1>2 DEF ObsFrames
<1>4. g = [gw EXCEPT ![i] = [gw[i] EXCEPT !.output = o]]
  BY <1>1
<1>5. [gw EXCEPT ![i] = [gw[i] EXCEPT !.output = o]] \in Seq(Frame)
  BY <1>2, <1>3, ExceptSeq DEF IInv, TypeInv, Frame
<1> QED
  BY <1>4, <1>5

LEMMA ExportStep ==
  ASSUME IInv, Export
  PROVE  IInv'
<1>1. UNCHANGED <<liar, gw, served, calls>> /\ calls = <<>> /\ phase' = "witness"
  BY DEF Export, IInv, ExportTyped
<1>2. export'.frames \in Seq(Frame)
  <2>1. CASE \E n \in 0 .. Len(gw) : export' = [whole |-> TRUE, frames |-> SubSeq(gw, 1, n)]
    BY <2>1 DEF IInv, TypeInv
  <2>2. CASE \E g \in Changed : export' = [whole |-> TRUE, frames |-> g]
    <3>1. PICK g \in Changed : export' = [whole |-> TRUE, frames |-> g]
      BY <2>2
    <3>2. g \in Seq(Frame)
      BY ChangedFrames
    <3> QED
      BY <3>1, <3>2
  <2>3. CASE export' = [whole |-> FALSE, frames |-> <<>>]
    BY <2>3
  <2> QED
    BY <2>1, <2>2, <2>3 DEF Export
<1> QED
  BY <1>1, <1>2 DEF IInv, TypeInv, GatewayHonest, ExportTyped, CallsTrue

\* A listed call is well typed and has the heads the gateway echoed.
LEMMA ListedCall ==
  ASSUME IInv, NEW r \in 1 .. Len(gw), NEW f \in 1 .. Len(gw),
         NEW h \in Outputs, NEW b1 \in Outputs, NEW b2 \in Outputs
  PROVE  LET c == Listed(r, f, h, b1, b2) IN
           /\ c \in CallType
           /\ c.recorded_seq = r /\ c.refire_seq = f
           /\ c.recorded_head = HeadAt(gw, r) /\ c.refire_head = HeadAt(gw, f)
<1>1. HeadAt(gw, r) \in Seq(Frame) /\ HeadAt(gw, f) \in Seq(Frame)
  BY DEF IInv, TypeInv, HeadAt
<1> QED
  BY <1>1 DEF Listed, ResponseHash, CallType

LEMMA CallStep ==
  ASSUME IInv, AddCall
  PROVE  IInv'
<1>1. PICK r \in DOMAIN gw, f \in DOMAIN gw :
        \E c \in {Received(r, f)} \cup (IF liar = "runner" THEN Misreported(r, f) ELSE {}) :
          calls' = Append(calls, c)
  BY DEF AddCall
<1>2. PICK c \in {Received(r, f)} \cup (IF liar = "runner" THEN Misreported(r, f) ELSE {}) :
        calls' = Append(calls, c)
  BY <1>1
<1>3. phase = "witness" /\ UNCHANGED <<liar, gw, served, export, phase>>
  BY DEF AddCall
<1>4. r \in 1 .. Len(gw) /\ f \in 1 .. Len(gw)
  BY DEF IInv, TypeInv
<1>5. CallTrue(c) /\ c \in CallType
  <2>1. CASE c = Received(r, f)
    <3>1. served[r] \in Outputs /\ served[f] \in Outputs
      BY <1>4 DEF IInv, TypeInv
    <3> QED
      BY <1>4, <2>1, <3>1, ListedCall DEF CallTrue, Received
  <2>2. CASE liar = "runner" /\ c \in Misreported(r, f)
    <3>1. PICK h \in Outputs, b1 \in Outputs, b2 \in Outputs : c = Listed(r, f, h, b1, b2)
      BY <2>2 DEF Misreported
    <3> QED
      BY <1>4, <2>2, <3>1, ListedCall DEF CallTrue
  <2> QED
    BY <1>2, <2>1, <2>2
<1>6. calls' \in Seq(CallType) /\ Len(calls') = Len(calls) + 1
      /\ calls'[Len(calls')] = c /\ \A i \in 1 .. Len(calls) : calls'[i] = calls[i]
  BY <1>2, <1>5 DEF IInv, TypeInv
<1>7. CallsTrue'
  <2>1. \A y : CallTrue(y) => CallTrue(y)'
    BY <1>3 DEF CallTrue, Received, Listed
  <2>2. \A i \in 1 .. Len(calls) : CallTrue(calls[i])
    BY DEF IInv, CallsTrue
  <2>3. \A i \in 1 .. Len(calls') : CallTrue(calls'[i])
    BY <1>5, <1>6, <2>2 DEF IInv, TypeInv
  <2> QED
    BY <2>1, <2>3 DEF CallsTrue
<1> QED
  BY <1>3, <1>6, <1>7 DEF IInv, TypeInv, GatewayHonest, ExportTyped

LEMMA Invariant == Spec => []IInv
<1>1. IInv /\ [Next]_vars => IInv'
  <2> SUFFICES ASSUME IInv, [Next]_vars
               PROVE  IInv'
    OBVIOUS
  <2>1. CASE UNCHANGED vars
    BY <2>1 DEF vars, IInv, TypeInv, GatewayHonest, ExportTyped, CallsTrue, CallTrue, Received, Listed
  <2> QED
    BY <2>1, CommitStep, ExportStep, CallStep DEF Next
<1> QED
  BY <1>1, InitInv, PTL DEF Spec
-----------------------------------------------------------------------------
\* Two chains with one head agree up to it: the frame an echoed head names is
\* the gateway's own.
LEMMA SameHead ==
  ASSUME NEW f \in Seq(Frame), NEW g \in Seq(Frame), NEW n \in 1 .. Len(f), n <= Len(g),
         HeadAt(f, n) = HeadAt(g, n)
  PROVE  f[n] = g[n]
BY DEF HeadAt

\* What a call shows that has every precondition: the frames it cites are
\* oracle records of the gateway's chain.
LEMMA CitedIsServed ==
  ASSUME IInv, NEW i \in 1 .. Len(calls), Cited(export.frames, calls[i])
  PROVE  LET c == calls[i] IN
           /\ CallTrue(c)
           /\ \A s \in {c.recorded_seq, c.refire_seq} :
                /\ s \in 1 .. Len(gw) /\ s \in 1 .. Len(export.frames)
                /\ HeadAt(export.frames, s) = HeadAt(gw, s)
                /\ export.frames[s] = gw[s] /\ gw[s].tag = "OBS"
<1> DEFINE c == calls[i]
           frames == export.frames
<1>1. CallTrue(c)
  BY DEF IInv, CallsTrue
<1>2. frames \in Seq(Frame) /\ gw \in Seq(Frame)
  BY DEF IInv, TypeInv, ExportTyped
<1>3. /\ IsObs(frames, c.recorded_seq) /\ c.recorded_head = HeadAt(frames, c.recorded_seq)
      /\ IsObs(frames, c.refire_seq) /\ c.refire_head = HeadAt(frames, c.refire_seq)
  BY DEF Cited
<1> HIDE DEF c, frames
<1>4. ASSUME NEW s \in {c.recorded_seq, c.refire_seq}
      PROVE  /\ s \in 1 .. Len(gw) /\ s \in 1 .. Len(frames)
             /\ HeadAt(frames, s) = HeadAt(gw, s)
             /\ frames[s] = gw[s] /\ gw[s].tag = "OBS"
  <2>1. /\ s \in 1 .. Len(gw) /\ IsObs(frames, s)
        /\ HeadAt(frames, s) = HeadAt(gw, s)
    BY <1>1, <1>3 DEF CallTrue
  <2>2. s \in 1 .. Len(frames) /\ frames[s].tag = "OBS"
    BY <1>2, <2>1 DEF IsObs
  <2>3. frames[s] = gw[s]
    BY <1>2, <2>1, <2>2, SameHead
  <2> QED
    BY <2>1, <2>2, <2>3
<1> QED
  BY <1>1, <1>4 DEF c, frames

\* The verdict on a run is that of every call, or the worst of them.
LEMMA RunVerdictCases ==
  ASSUME IInv
  PROVE  /\ RunVerdict # "NOT-DISCHARGEABLE" =>
              /\ export.whole
              /\ \A i \in 1 .. Len(calls) :
                   CallVerdict(export.frames, calls[i]) # "NOT-DISCHARGEABLE"
         /\ RunVerdict = "VOID" =>
              \E i \in 1 .. Len(calls) : CallVerdict(export.frames, calls[i]) = "VOID"
         /\ RunVerdict = "DETERMINISTIC" =>
              \A i \in 1 .. Len(calls) : CallVerdict(export.frames, calls[i]) # "VOID"
<1>1. DOMAIN calls = 1 .. Len(calls)
  BY DEF IInv, TypeInv
<1> QED
  BY <1>1 DEF RunVerdict, Verdict

\* The set of the calls, by their positions.
LEMMA CallsListed == ASSUME IInv PROVE Calls = {calls[i] : i \in 1 .. Len(calls)}
  BY DEF Calls, IInv, TypeInv

\* DETERMINISTIC means that the two exchanges a call cites are of one model and
\* one input at the pin, complete, and had one body on the wire, whichever one
\* party misreports (detwitness.py:43-44).
THEOREM DeterministicCorrect == Spec => []DeterministicWasServed
<1>1. IInv => DeterministicWasServed
  <2> SUFFICES ASSUME IInv, RunVerdict = "DETERMINISTIC", NEW i \in 1 .. Len(calls)
               PROVE  LET c == calls[i] IN
                        /\ OneSetting(c.recorded_seq, c.refire_seq)
                        /\ served[c.recorded_seq] = served[c.refire_seq]
                        /\ export.frames[c.recorded_seq].output = served[c.recorded_seq]
                        /\ export.frames[c.refire_seq].output = served[c.refire_seq]
    BY DEF DeterministicWasServed, Calls, IInv, TypeInv
  <2> DEFINE c == calls[i]
             r == c.recorded_seq
             f == c.refire_seq
             frames == export.frames
  <2>1. CallVerdict(frames, c) = "DETERMINISTIC"
    BY RunVerdictCases DEF CallVerdict
  <2>2. /\ Cited(frames, c)
        /\ frames[r].output = frames[f].output
        /\ c.recorded_body = c.refire_body /\ c.recorded_body = frames[r].output
    BY <2>1 DEF CallVerdict, SameAttested, SameBodies
  <2>3. Preconditions(frames, c) /\ Reconstructed(frames, c)
    BY <2>1 DEF CallVerdict
  <2>4. /\ CallTrue(c)
        /\ r \in 1 .. Len(gw) /\ frames[r] = gw[r] /\ gw[r].tag = "OBS"
        /\ f \in 1 .. Len(gw) /\ frames[f] = gw[f] /\ gw[f].tag = "OBS"
    BY <2>2, CitedIsServed
  <2>5. OneSetting(r, f)
    BY <2>3, <2>4 DEF Preconditions, Reconstructed, OneSetting
  <2>6. CASE liar # "gateway"
    <3>1. gw[r].output = served[r] /\ gw[f].output = served[f]
      BY <2>4, <2>6 DEF IInv, GatewayHonest
    <3> QED
      BY <2>2, <2>4, <2>5, <3>1
  <2>7. CASE liar = "gateway"
    <3>1. c = Received(r, f)
      BY <2>4, <2>7 DEF CallTrue
    <3>2. c.recorded_body = served[r] /\ c.refire_body = served[f]
      BY <3>1 DEF Received, Listed
    <3> QED
      BY <2>2, <2>5, <3>2
  <2> QED
    BY <2>6, <2>7
<1> QED
  BY <1>1, Invariant, PTL

\* VOID means that one model at the pin did serve two outputs for one input,
\* unless the gateway attests what it did not serve (detwitness.py:34-35).
THEOREM VoidCorrect == Spec => []VoidWasServed
<1>1. IInv => VoidWasServed
  <2> SUFFICES ASSUME IInv, RunVerdict = "VOID", liar # "gateway"
               PROVE  \E i, j \in DOMAIN gw :
                        /\ gw[i].tag = "OBS" /\ gw[j].tag = "OBS"
                        /\ gw[i].input = gw[j].input
                        /\ gw[i].model = gw[j].model
                        /\ gw[i].pinned /\ gw[j].pinned
                        /\ served[i] # served[j]
    BY DEF VoidWasServed
  <2> DEFINE frames == export.frames
  <2>1. PICK i \in 1 .. Len(calls) : CallVerdict(frames, calls[i]) = "VOID"
    BY RunVerdictCases
  <2> DEFINE c == calls[i]
             r == c.recorded_seq
             f == c.refire_seq
  <2>2. /\ Cited(frames, c) /\ Preconditions(frames, c)
        /\ Reconstructed(frames, c) /\ ~SameAttested(frames, c)
    BY <2>1 DEF CallVerdict
  <2>3. /\ r \in 1 .. Len(gw) /\ frames[r] = gw[r] /\ gw[r].tag = "OBS"
        /\ f \in 1 .. Len(gw) /\ frames[f] = gw[f] /\ gw[f].tag = "OBS"
    BY <2>2, CitedIsServed
  <2>4. /\ gw[r].input = gw[f].input /\ gw[r].model = gw[f].model
        /\ gw[r].pinned /\ gw[f].pinned
        /\ gw[r].output # gw[f].output
    BY <2>2, <2>3 DEF Preconditions, Reconstructed, SameAttested
  <2>5. served[r] # served[f]
    BY <2>3, <2>4 DEF IInv, GatewayHonest
  <2>6. r \in DOMAIN gw /\ f \in DOMAIN gw
    BY <2>3 DEF IInv, TypeInv
  <2> QED
    BY <2>3, <2>4, <2>5, <2>6
<1> QED
  BY <1>1, Invariant, PTL

\* A verdict on calls is given only on an export that is the gateway's chain up
\* to every frame a call cites (detwitness.py:49-51).
THEOREM ExportCorrect == Spec => []ExportIsTheChain
<1>1. IInv => ExportIsTheChain
  <2> DEFINE InChain(s) == /\ s <= Len(export.frames)
                           /\ SubSeq(export.frames, 1, s) = SubSeq(gw, 1, s)
  <2> SUFFICES ASSUME IInv, RunVerdict # "NOT-DISCHARGEABLE"
               PROVE  /\ export.whole
                      /\ \A i \in 1 .. Len(calls) :
                           /\ InChain(calls[i].recorded_seq)
                           /\ InChain(calls[i].refire_seq)
    <3> HIDE DEF InChain
    <3> SUFFICES ASSUME IInv,
                        RunVerdict # "NOT-DISCHARGEABLE" =>
                          /\ export.whole
                          /\ \A i \in 1 .. Len(calls) :
                               /\ InChain(calls[i].recorded_seq)
                               /\ InChain(calls[i].refire_seq)
                 PROVE  RunVerdict # "NOT-DISCHARGEABLE" =>
                          /\ export.whole
                          /\ \A c \in Calls :
                               \A s \in {c.recorded_seq, c.refire_seq} : InChain(s)
      BY DEF ExportIsTheChain, InChain
    <3> QED
      BY CallsListed
  <2>1. ASSUME NEW i \in 1 .. Len(calls)
        PROVE  Cited(export.frames, calls[i])
    <3>1. CallVerdict(export.frames, calls[i]) # "NOT-DISCHARGEABLE"
      BY RunVerdictCases
    <3> QED
      BY <3>1 DEF CallVerdict
  <2>2. export.frames \in Seq(Frame)
    BY DEF IInv, ExportTyped
  <2> QED
    BY <2>1, <2>2, RunVerdictCases, CitedIsServed DEF HeadAt
<1> QED
  BY <1>1, Invariant, PTL

\* When nobody misreports and the same request was fired again under the same
\* model and the pin, the run is decided, and by what was served.
THEOREM HonestCorrect == Spec => []HonestIsDecided
<1>1. IInv => HonestIsDecided
  <2> SUFFICES ASSUME IInv, liar = "nobody", export = [whole |-> TRUE, frames |-> gw],
                      \A i \in 1 .. Len(calls) : LET c == calls[i] IN
                        /\ gw[c.recorded_seq].tag = "OBS" /\ gw[c.refire_seq].tag = "OBS"
                        /\ [gw[c.recorded_seq] EXCEPT !.output = served[c.refire_seq]]
                             = gw[c.refire_seq]
                        /\ gw[c.refire_seq].complete /\ gw[c.refire_seq].pinned
               PROVE  RunVerdict =
                        IF \A i \in 1 .. Len(calls) :
                             served[calls[i].recorded_seq] = served[calls[i].refire_seq]
                        THEN "DETERMINISTIC" ELSE "VOID"
    BY CallsListed DEF HonestIsDecided, IInv
  <2>1. ASSUME NEW i \in 1 .. Len(calls)
        PROVE  CallVerdict(gw, calls[i]) =
                 IF served[calls[i].recorded_seq] = served[calls[i].refire_seq]
                 THEN "DETERMINISTIC" ELSE "VOID"
    <3> DEFINE c == calls[i]
               r == c.recorded_seq
               f == c.refire_seq
    <3>1. /\ r \in 1 .. Len(gw) /\ f \in 1 .. Len(gw)
          /\ c.recorded_head = HeadAt(gw, r) /\ c.refire_head = HeadAt(gw, f)
          /\ c = Received(r, f)
      BY DEF IInv, CallsTrue, CallTrue
    <3>2. /\ c.response_hash = ResponseHash(HeadAt(gw, r), served[r])
          /\ c.recorded_body = served[r] /\ c.refire_body = served[f]
      BY <3>1 DEF Received, Listed
    <3>3. gw[r] \in Frame /\ gw[f] \in Frame /\ r \in DOMAIN gw /\ f \in DOMAIN gw
      BY <3>1 DEF IInv, TypeInv
    <3>4. gw[r].tag = "OBS" /\ gw[f].tag = "OBS"
      OBVIOUS
    <3>5. gw[r] \in ObsFrames /\ gw[f] \in ObsFrames
      BY <3>3, <3>4 DEF Frame, Other
    <3>6. /\ gw[r].input = gw[f].input /\ gw[r].model = gw[f].model
          /\ gw[r].complete = gw[f].complete /\ gw[r].pinned = gw[f].pinned
          /\ gw[f].complete /\ gw[f].pinned
      BY <3>5 DEF ObsFrames
    <3>7. gw[r].output = served[r] /\ gw[f].output = served[f]
      BY <3>1, <3>4 DEF IInv, GatewayHonest
    <3>8. Cited(gw, c)
      BY <3>1, <3>3, <3>4 DEF Cited, IsObs
    <3>9. Preconditions(gw, c)
      BY <3>2, <3>6, <3>7 DEF Preconditions
    <3>10. Reconstructed(gw, c)
      BY <3>6 DEF Reconstructed
    <3>11. SameAttested(gw, c) <=> served[r] = served[f]
      BY <3>7 DEF SameAttested
    <3>12. served[r] = served[f] => SameBodies(gw, c)
      BY <3>2, <3>7 DEF SameBodies
    <3> QED
      BY <3>8, <3>9, <3>10, <3>11, <3>12 DEF CallVerdict
  <2>2. DOMAIN calls = 1 .. Len(calls)
    BY DEF IInv, TypeInv
  <2>3. export.whole /\ export.frames = gw
    OBVIOUS
  <2>4. RunVerdict # "NOT-DISCHARGEABLE"
    BY <2>1, <2>2, <2>3 DEF RunVerdict, Verdict
  <2>5. CASE \A i \in 1 .. Len(calls) :
               served[calls[i].recorded_seq] = served[calls[i].refire_seq]
    <3>1. RunVerdict # "VOID"
      BY <2>1, <2>3, <2>5, RunVerdictCases
    <3> QED
      BY <2>4, <2>5, <3>1 DEF RunVerdict, Verdict
  <2>6. CASE \E i \in 1 .. Len(calls) :
               served[calls[i].recorded_seq] # served[calls[i].refire_seq]
    BY <2>1, <2>2, <2>3, <2>4, <2>6 DEF RunVerdict, Verdict
  <2> QED
    BY <2>5, <2>6
<1> QED
  BY <1>1, Invariant, PTL
=============================================================================
