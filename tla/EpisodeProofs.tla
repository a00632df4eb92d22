---------------------------- MODULE EpisodeProofs ----------------------------
(***************************************************************************)
(* Proofs about Episode for every vocabulary, schedule, call budget, kind  *)
(* of adapter, gateway and number of other clients: what is on the         *)
(* evidence chain of an episode, wherever the episode ends.                *)
(***************************************************************************)
EXTENDS Episode, SequenceTheorems, FiniteSetTheorems, TLAPS

ObsRecords == [tag : {"OBS"}, ep : Nat, call : Nat, seq : Nat,
               snap : Snapshots \cup {NoSnap}, xch : Nat]
ProofRecords == [tag : {"PROOF"}, index : Nat, event : Events, of : Nat]
Exchanges == [client : {"runner", "other"}, ep : Nat, snap : Snapshots]

TypeInv ==
  /\ log \in Seq(ObsRecords \cup ProofRecords)
  /\ torn \in BOOLEAN
  /\ gw \in Seq(Exchanges)
  /\ source \in Sources
  /\ pc \in Steps
  /\ ep \in EpisodeIds
  /\ sched \in Schedules
  /\ call \in 0 .. Budget
  /\ calls \in Seq(Calls)
  /\ shown \in Seq(Events)
  /\ wire \in Wires
  /\ dec \in Decisions
  /\ last \in [seq : Nat, snap : Snapshots \cup {NoSnap}]
  /\ seqs \in Seq(Nat)
  /\ proved \in Nat

\* In the loop, up to the record of a call.
Deciding == pc \in {"ask", "waiting", "answered", "commit"}
\* After the loop.
Left == pc \in {"finish", "prove", "done"}

\* How the counters of the loop go together.
CountInv ==
  /\ Len(calls) <= call
  /\ Deciding => call = Len(calls) /\ call < Budget
  /\ pc = "serve" => call = Len(calls) + 1 /\ dec.out # Stop
  /\ Left => call = Len(calls) + 1 \/ (call = Len(calls) /\ call = Budget)
  /\ proved <= Len(calls)
  /\ pc \notin {"prove", "done", "raised"} => proved = 0
  /\ pc = "done" => proved = Len(calls)

\* The model was shown the events of the stream it has made.
ShownInv ==
  /\ Len(shown) = Len(calls)
  /\ \A i \in 1 .. Len(calls) : shown[i] = ServeEvent(sched, calls, i)

\* The log holds the first n oracle records and then the first m serve events.
LogIs(n, m) ==
  /\ Len(log) = n + m
  /\ \A i \in 1 .. n : log[i].tag = "OBS" /\ log[i].ep = ep /\ log[i].call = i - 1
  /\ \A i \in 1 .. m : log[n + i] = Proof(i - 1, ServeEvent(sched, calls, i))

\* The oracle records of an episode that has not failed.
Made == IF Live THEN call ELSE 0

\* An append that raised may have left its record.
LogInv ==
  \/ LogIs(Made, proved)
  \/ pc = "raised" /\ Live /\ proved = 0 /\ LogIs(call + 1, 0)
  \/ pc = "raised" /\ proved < Len(calls) /\ LogIs(Made, proved + 1)

\* The exchange of the call in progress, if the gateway served one.
Pending == CASE pc = "answered" -> {wire.xch} \ {0}
             [] pc = "commit" -> {dec.xch} \ {0}
             [] OTHER -> {}

\* The exchanges the gateway served to the episode are those in its records
\* and the one in progress; a failure loses that one at most.
ExchangeInv ==
  /\ pc # "raised" => RunnerExchanges = RecordedExchanges \cup Pending
  /\ pc = "raised" =>
       /\ RecordedExchanges \subseteq RunnerExchanges
       /\ \E x \in 0 .. Len(gw) : RunnerExchanges \subseteq RecordedExchanges \cup {x}
  /\ source # "gateway" =>
       pc \notin {"waiting", "answered"} /\ (pc = "commit" => dec.xch = 0)

\* Every call of a gateway adapter has an exchange, except one that ended the
\* loop because nothing was framed.
ServedInv ==
  source = "gateway" /\ pc # "raised" =>
    /\ pc = "answered" /\ wire.framed => wire.xch # 0
    /\ pc = "commit" /\ dec.out # Stop => dec.xch # 0
    /\ Cardinality(RunnerExchanges) \in
         IF Left THEN {call - 1, call} ELSE {call + Cardinality(Pending)}
    /\ \A i \in 1 .. Len(log) :
         log[i].tag = "OBS" /\ (Left => log[i].call + 1 < call) => log[i].xch # 0

\* Every framed response says which exchange it is.
AllReported == Reports \subseteq {{"seq", "snapshot_id"}}

\* A seq and the snapshot that goes with it name exchange x of the gateway.
Names(seq, snap, x) == x \in 1 .. Len(gw) /\ seq = x /\ snap = gw[x].snap

NamesInv ==
  source = "gateway" =>
    /\ pc = "answered" /\ wire.framed => Names(wire.seq, wire.snap, wire.xch)
    /\ pc = "commit" /\ dec.seq # NoSeq => Names(dec.seq, last.snap, dec.xch)
    /\ \A i \in 1 .. Len(log) :
         log[i].tag = "OBS" /\ log[i].seq # NoSeq =>
           Names(log[i].seq, log[i].snap, log[i].xch)

\* The snapshot in the last record of the log.
Heard == IF Len(log) = 0 THEN NoSnap ELSE log[Len(log)].snap

\* Up to the next framed response the adapter keeps the snapshot of the last
\* record; a record without a seq takes it over and is the last one.
StaleInv ==
  source = "gateway" =>
    /\ pc \in {"ask", "waiting", "answered", "serve"} => last.snap = Heard
    /\ pc = "commit" /\ dec.seq = NoSeq => last.snap = Heard /\ dec.out = Stop
    /\ \A i \in 1 .. Len(log) :
         log[i].tag = "OBS" /\ log[i].seq = NoSeq =>
           /\ Left \/ pc = "raised"
           /\ \A k \in 1 .. Len(log) : log[k].tag = "OBS" => k <= i
           /\ log[i].snap = IF i = 1 THEN NoSnap ELSE log[i - 1].snap

\* The inductive invariant.
IInv ==
  /\ TypeInv /\ CountInv /\ ShownInv /\ LogInv /\ ExchangeInv /\ ServedInv
  /\ AllReported => NamesInv /\ StaleInv
-----------------------------------------------------------------------------
\* A sequence that an element was appended to.
LEMMA Grown ==
  ASSUME NEW S, NEW s \in Seq(S), NEW e \in S, NEW t, t = Append(s, e)
  PROVE  /\ t \in Seq(S)
         /\ Len(t) = Len(s) + 1
         /\ \A i \in 1 .. Len(s) : t[i] = s[i]
         /\ t[Len(s) + 1] = e
  BY AppendProperties

\* A count of eligible arrivals is a number.
LEMMA EligibleIsNat ==
  ASSUME NEW cs, NEW i \in Nat
  PROVE  EligibleBefore(cs, i) \in Nat
<1>1. IsFiniteSet(1 .. i - 1)
  BY FS_Interval
<1>2. IsFiniteSet({j \in 1 .. i - 1 : cs[j] \notin Predicates})
  BY <1>1, FS_Subset
<1> QED
  BY <1>2, FS_CardinalityType DEF EligibleBefore

\* serve_stream returns events.
LEMMA ServeEventType ==
  ASSUME NEW cs \in Seq(Calls), NEW i \in 1 .. Len(cs), NEW s \in Schedules
  PROVE  ServeEvent(s, cs, i) \in Events
<1> DEFINE elig == EligibleBefore(cs, i)
           pred == cs[i] \in Predicates
<1>1. elig \in Nat
  BY EligibleIsNat
<1>2. cs[i] \in Calls
  BY ElementOfSeq
<1>3. (~pred /\ elig < Slots /\ s[elig]) \in BOOLEAN /\ pred \in BOOLEAN
  OBVIOUS
<1>4. (IF pred THEN NoSlot ELSE elig) \in {NoSlot} \cup Nat
  BY <1>1
<1> HIDE DEF elig, pred
<1> QED
  BY <1>2, <1>3, <1>4 DEF ServeEvent, Events, elig, pred

\* What an event says does not change when the stream grows: the events of the
\* calls already made are served again unchanged.
LEMMA ServeEventStable ==
  ASSUME NEW cs \in Seq(Calls), NEW c \in Calls, NEW i \in 1 .. Len(cs), NEW s
  PROVE  ServeEvent(s, Append(cs, c), i) = ServeEvent(s, cs, i)
<1>1. \A j \in 1 .. Len(cs) : Append(cs, c)[j] = cs[j]
  BY AppendProperties
<1>2. EligibleBefore(Append(cs, c), i) = EligibleBefore(cs, i)
  <2>1. {j \in 1 .. i - 1 : Append(cs, c)[j] \notin Predicates}
          = {j \in 1 .. i - 1 : cs[j] \notin Predicates}
    BY <1>1
  <2> QED
    BY <2>1 DEF EligibleBefore
<1> QED
  BY <1>1, <1>2 DEF ServeEvent

\* The event shown for the last call of a stream that has one.
LEMMA ServedIsLast ==
  ASSUME NEW cs \in Seq(Calls), Len(cs) > 0
  PROVE  Served(cs) = ServeEvent(sched, cs, Len(cs))
<1>1. Len(ServeStream(sched, cs)) = Len(cs)
  BY DEF ServeStream
<1> QED
  BY <1>1 DEF Served, Last, ServeStream
-----------------------------------------------------------------------------
LEMMA InitInv == Init => IInv
<1> SUFFICES ASSUME Init PROVE IInv
  OBVIOUS
<1> USE EpisodeAssumption DEF Init
<1>1. last \in [seq : Nat, snap : Snapshots \cup {NoSnap}]
  BY DEF FreshAdapter, NoSeq
<1>2. NoWire \in Wires /\ NoDecision \in Decisions
  BY DEF NoWire, Unframed, NoDecision, Wires, Decisions, NoSeq
<1>3. TypeInv
  <2>1. /\ <<>> \in Seq(ObsRecords \cup ProofRecords) /\ <<>> \in Seq(Exchanges)
        /\ <<>> \in Seq(Calls) /\ <<>> \in Seq(Events) /\ <<>> \in Seq(Nat)
    BY EmptySeq
  <2>2. torn \in BOOLEAN
    BY Zenon
  <2>3. pc \in Steps /\ proved \in Nat
    BY DEF Steps
  <2>4. call \in 0 .. Budget
    OBVIOUS
  <2> QED
    BY <1>1, <1>2, <2>1, <2>2, <2>3, <2>4 DEF TypeInv
<1>4. CountInv /\ ShownInv
  BY DEF CountInv, ShownInv, Deciding, Left
<1>5. LogIs(Made, proved)
  BY DEF LogIs, Made
<1>6. RunnerExchanges = {} /\ RecordedExchanges = {} /\ Pending = {}
  BY DEF RunnerExchanges, RecordedExchanges, ObsAt, Pending
<1>7. ExchangeInv /\ ServedInv
  BY <1>6, FS_EmptySet DEF ExchangeInv, ServedInv, Left
<1>8. NamesInv /\ StaleInv
  BY DEF NamesInv, StaleInv, Heard, FreshAdapter
<1> QED
  BY <1>3, <1>4, <1>5, <1>7, <1>8 DEF IInv, LogInv

\* The record of a call, a serve event and a gateway's exchange have their types.
LEMMA RecordTypes ==
  ASSUME TypeInv
  PROVE  /\ ThisObs \in ObsRecords
         /\ proved < Len(calls) =>
              /\ NextProof = Proof(proved, ServeEvent(sched, calls, proved + 1))
              /\ NextProof \in ProofRecords
         /\ NextProof.tag = "PROOF"
         /\ ep \in Nat
<1> USE EpisodeAssumption DEF TypeInv
<1>1. ThisObs \in ObsRecords
  BY DEF ThisObs, Obs, ObsRecords, Decisions
<1>2. ASSUME proved < Len(calls)
      PROVE  /\ NextProof = Proof(proved, ServeEvent(sched, calls, proved + 1))
             /\ NextProof \in ProofRecords
  <2>1. proved + 1 \in 1 .. Len(calls)
    BY <1>2
  <2>2. NextProof = Proof(proved, ServeEvent(sched, calls, proved + 1))
    BY <2>1 DEF NextProof, ServeStream
  <2>3. ServeEvent(sched, calls, proved + 1) \in Events
    BY <2>1, ServeEventType
  <2> QED
    BY <2>2, <2>3 DEF Proof, ProofRecords
<1> QED
  BY <1>1, <1>2 DEF NextProof, Proof

\* How a step changes the log: it stays, or an oracle record is added in the
\* step that commits one, or a serve event in one that proves.
LEMMA LogGrows ==
  ASSUME TypeInv, [Next]_vars
  PROVE  \/ log' = log /\ (CommitObs => ~Live) /\ ~Prove
         \/ (CommitObs \/ CommitRaises) /\ Live /\ log' = Append(log, ThisObs)
         \/ (Prove \/ ProveRaises) /\ proved < Len(calls) /\ log' = Append(log, NextProof)
<1>1. CASE CommitObs
  <2>1. IF Live THEN log' = Append(log, ThisObs) ELSE log' = log
    BY <1>1 DEF CommitObs, Appended, Recorded, chain
  <2>2. ~Prove
    BY <1>1 DEF CommitObs, Prove
  <2> QED
    BY <1>1, <2>1, <2>2
<1>2. CASE CommitRaises
  <2>1. pc = "commit" /\ pc' = "raised" /\ Live /\ (log' = log \/ log' = Append(log, ThisObs))
    BY <1>2 DEF CommitRaises, AppendRaised, Recorded
  <2>2. ~Prove /\ ~CommitObs
    BY <2>1 DEF Prove, CommitObs
  <2> QED
    BY <1>2, <2>1, <2>2
<1>3. CASE Prove
  BY <1>3 DEF Prove, Appended
<1>4. CASE ProveRaises
  <2>1. /\ pc = "prove" /\ pc' = "raised" /\ proved < Len(calls)
        /\ log' = log \/ log' = Append(log, NextProof)
    BY <1>4 DEF ProveRaises, AppendRaised
  <2>2. ~Prove /\ ~CommitObs
    BY <2>1 DEF Prove, CommitObs
  <2> QED
    BY <1>4, <2>1, <2>2
<1>5. CASE Send \/ Receive \/ LocalStep \/ ServeCall \/ Finish \/ Complete
             \/ StepRaises \/ ServeRaises \/ Gateway \/ UNCHANGED vars
  <2>1. log' = log
    BY <1>5 DEF Send, Receive, LocalStep, ServeCall, Finish, Complete, StepRaises,
       ServeRaises, Gateway, GatewayAnswers, GatewayCloses, OtherClient, chain, vars
  <2>2. ~Prove
    BY <1>5 DEF Prove, Send, Receive, Received, LocalStep, ServeCall, Finish, Complete,
       StepRaises, ServeRaises, Gateway, GatewayAnswers, GatewayCloses, OtherClient, vars, TypeInv
  <2>3. CommitObs => ~Live
    BY <2>1, AppendProperties DEF CommitObs, Appended, Recorded, TypeInv
  <2> QED
    BY <2>1, <2>2, <2>3
<1> QED
  BY <1>1, <1>2, <1>3, <1>4, <1>5 DEF Next, Runs, Fails
-----------------------------------------------------------------------------
\* Which actions change what.
LEMMA Moves ==
  ASSUME [Next]_vars
  PROVE  /\ UNCHANGED args
         /\ ServeCall \/ UNCHANGED <<calls, shown, seqs>>
         /\ Prove \/ UNCHANGED proved
         /\ CommitObs \/ UNCHANGED call
         /\ GatewayAnswers \/ OtherClient \/ UNCHANGED gw
         /\ GatewayAnswers \/ GatewayCloses \/ Receive \/ UNCHANGED wire
         /\ Receive \/ LocalStep \/ UNCHANGED dec
         /\ Receive \/ UNCHANGED last
  BY DEF Next, Runs, Fails, Gateway, Send, Receive, LocalStep, CommitObs, ServeCall,
     Finish, Prove, Complete, StepRaises, ServeRaises, CommitRaises, ProveRaises, GatewayAnswers,
     GatewayCloses, OtherClient, chain, args, vars

LEMMA TypeStep ==
  ASSUME TypeInv, CountInv, [Next]_vars
  PROVE  TypeInv'
<1> USE EpisodeAssumption
<1>1. (log \in Seq(ObsRecords \cup ProofRecords))'
  <2> DEFINE R == ObsRecords \cup ProofRecords
  <2>1. CASE log' = log
    BY <2>1 DEF TypeInv
  <2>2. CASE log' = Append(log, ThisObs)
    <3>1. ThisObs \in R
      BY RecordTypes
    <3> QED
      BY <2>2, <3>1, Grown DEF TypeInv
  <2>3. CASE proved < Len(calls) /\ log' = Append(log, NextProof)
    <3>1. NextProof \in R
      BY <2>3, RecordTypes
    <3> QED
      BY <2>3, <3>1, Grown DEF TypeInv
  <2> QED
    BY <2>1, <2>2, <2>3, LogGrows
<1>2. (torn \in BOOLEAN)'
  BY DEF TypeInv, Next, Runs, Fails, Gateway, Send, Receive, LocalStep, CommitObs,
     ServeCall, Finish, Prove, Complete, StepRaises, ServeRaises, CommitRaises, ProveRaises,
     GatewayAnswers, GatewayCloses, OtherClient, chain, vars, Appended, AppendRaised
<1>3. (gw \in Seq(Exchanges))'
  <2>1. ep \in Nat
    BY RecordTypes
  <2>2. CASE GatewayAnswers
    <3>1. PICK m \in Snapshots : gw' = Append(gw, [client |-> "runner", ep |-> ep, snap |-> m])
      BY <2>2 DEF GatewayAnswers
    <3>2. [client |-> "runner", ep |-> ep, snap |-> m] \in Exchanges
      BY <2>1 DEF Exchanges
    <3> QED
      BY <3>1, <3>2, Grown DEF TypeInv
  <2>3. CASE OtherClient
    <3>1. PICK m \in Snapshots : gw' = Append(gw, [client |-> "other", ep |-> 0, snap |-> m])
      BY <2>3 DEF OtherClient
    <3>2. [client |-> "other", ep |-> 0, snap |-> m] \in Exchanges
      BY DEF Exchanges
    <3> QED
      BY <3>1, <3>2, Grown DEF TypeInv
  <2> QED
    BY <2>2, <2>3, Moves DEF TypeInv
<1>4. (source \in Sources /\ ep \in EpisodeIds /\ sched \in Schedules)'
  BY Moves DEF TypeInv, args
<1>5. (pc \in Steps)'
  BY DEF TypeInv, Steps, Next, Runs, Fails, Gateway, Send, Receive, LocalStep, CommitObs,
     ServeCall, Finish, Prove, Complete, StepRaises, ServeRaises, CommitRaises, ProveRaises,
     GatewayAnswers, GatewayCloses, OtherClient, vars
<1>6. (call \in 0 .. Budget)'
  BY Moves DEF TypeInv, CountInv, Deciding, CommitObs
<1>7. (calls \in Seq(Calls) /\ shown \in Seq(Events) /\ seqs \in Seq(Nat))'
  <2>1. CASE ServeCall
    <3>1. dec.out \in Calls
      BY <2>1 DEF ServeCall, CountInv, TypeInv, Decisions
    <3>2. calls' \in Seq(Calls) /\ Len(calls') > 0
      BY <2>1, <3>1, Grown DEF ServeCall, TypeInv
    <3>3. Served(calls') = ServeEvent(sched, calls', Len(calls'))
      BY <3>2, ServedIsLast
    <3>4. shown' \in Seq(Events)
      <4>1. Len(calls') \in 1 .. Len(calls') /\ sched \in Schedules
        BY <3>2 DEF TypeInv
      <4>2. Served(calls') \in Events
        BY <3>2, <3>3, <4>1, ServeEventType
      <4>3. shown \in Seq(Events) /\ shown' = Append(shown, Served(calls'))
        BY <2>1 DEF ServeCall, TypeInv
      <4> QED
        BY <4>2, <4>3, Grown
    <3>5. last.seq \in Nat
      BY DEF TypeInv
    <3>6. seqs' \in Seq(Nat)
      BY <2>1, <3>5, Grown DEF ServeCall, TypeInv
    <3> QED
      BY <3>2, <3>4, <3>6
  <2> QED
    BY <2>1, Moves DEF TypeInv
<1>8. (wire \in Wires)'
  <2>1. \A x \in Nat : Unframed(x) \in Wires
    BY DEF Unframed, Wires, NoSeq
  <2>2. CASE GatewayAnswers
    <3>1. Len(gw) + 1 \in Nat
      BY DEF TypeInv
    <3>2. CASE wire' = Unframed(Len(gw) + 1)
      BY <2>1, <3>1, <3>2
    <3>3. ASSUME NEW m \in Snapshots, NEW out \in Calls \cup {Stop}, NEW fields \in Reports,
                 wire' = [framed |-> TRUE,
                          seq |-> IF "seq" \in fields THEN Len(gw) + 1 ELSE NoSeq,
                          snap |-> IF "snapshot_id" \in fields THEN m ELSE NoSnap,
                          out |-> out,
                          xch |-> Len(gw) + 1]
          PROVE  wire' \in Wires
      <4>1. TRUE \in BOOLEAN
        OBVIOUS
      <4>2. (IF "seq" \in fields THEN Len(gw) + 1 ELSE NoSeq) \in Nat
        BY <3>1 DEF NoSeq
      <4>3. (IF "snapshot_id" \in fields THEN m ELSE NoSnap) \in Snapshots \cup {NoSnap}
        OBVIOUS
      <4> QED
        BY <3>1, <3>3, <4>1, <4>2, <4>3 DEF Wires
    <3> QED
      BY <2>2, <3>2, <3>3 DEF GatewayAnswers
  <2>3. CASE GatewayCloses \/ Receive
    BY <2>1, <2>3 DEF GatewayCloses, Receive, NoWire
  <2> QED
    BY <2>2, <2>3, Moves DEF TypeInv
<1>9. (dec \in Decisions)'
  BY Moves DEF TypeInv, Receive, LocalStep, Decisions, Wires, NoSeq
<1>10. (last \in [seq : Nat, snap : Snapshots \cup {NoSnap}])'
  BY Moves DEF TypeInv, Receive, Wires
<1>11. (proved \in Nat)'
  BY Moves DEF TypeInv, Prove
<1> QED
  BY <1>1, <1>2, <1>3, <1>4, <1>5, <1>6, <1>7, <1>8, <1>9, <1>10, <1>11 DEF TypeInv

LEMMA CountStep ==
  ASSUME TypeInv, CountInv, [Next]_vars
  PROVE  CountInv'
<1> USE EpisodeAssumption DEF TypeInv, CountInv, Deciding, Left
<1>1. CASE Send \/ GatewayAnswers \/ GatewayCloses \/ OtherClient \/ StepRaises
             \/ ServeRaises \/ Finish
  BY <1>1 DEF Send, GatewayAnswers, GatewayCloses, OtherClient, StepRaises, ServeRaises, Finish
<1>2. CASE Receive \/ LocalStep
  BY <1>2 DEF Receive, Received, LocalStep
<1>3. CASE CommitObs \/ CommitRaises
  BY <1>3 DEF CommitObs, CommitRaises
<1>4. CASE ServeCall
  <2>1. dec.out \in Calls
    BY <1>4 DEF ServeCall, Decisions
  <2>2. Len(calls') = Len(calls) + 1
    BY <1>4, <2>1, Grown DEF ServeCall
  <2> QED
    BY <1>4, <2>2 DEF ServeCall, Exhausted
<1>5. CASE ProveRaises
  BY <1>5 DEF ProveRaises
<1>6. CASE Prove
  <2>1. proved' \in Nat /\ proved' <= Len(calls)
    BY <1>6 DEF Prove
  <2> QED
    BY <1>6, <2>1 DEF Prove
<1>7. CASE Complete
  BY <1>7 DEF Complete, AllProved
<1>8. CASE UNCHANGED vars
  BY <1>8 DEF vars
<1> QED
  BY <1>1, <1>2, <1>3, <1>4, <1>5, <1>7, <1>8, <1>6 DEF Next, Runs, Fails, Gateway
-----------------------------------------------------------------------------
\* An episode that raised stays as it is.
LEMMA RaisedStays ==
  ASSUME pc = "raised", [Next]_vars
  PROVE  UNCHANGED vars
  BY DEF Next, Runs, Fails, Gateway, Send, Receive, Received, LocalStep, CommitObs,
     ServeCall, Finish, Prove, Complete, StepRaises, ServeRaises, CommitRaises, ProveRaises,
     GatewayAnswers, GatewayCloses, OtherClient, Over

LEMMA ShownStep ==
  ASSUME TypeInv, CountInv, ShownInv, [Next]_vars
  PROVE  ShownInv'
<1>1. CASE ServeCall
  <2>1. dec.out \in Calls
    BY <1>1 DEF ServeCall, CountInv, TypeInv, Decisions
  <2>2. /\ calls' = Append(calls, dec.out) /\ calls' \in Seq(Calls)
        /\ Len(calls') = Len(calls) + 1
    BY <1>1, <2>1, Grown DEF ServeCall, TypeInv
  <2>3. Len(calls) + 1 \in 1 .. Len(calls') /\ sched \in Schedules
    BY <2>2 DEF TypeInv
  <2>4. ServeEvent(sched, calls', Len(calls) + 1) \in Events
    BY <2>2, <2>3, ServeEventType
  <2>5. shown' = Append(shown, ServeEvent(sched, calls', Len(calls) + 1))
    <3>1. Served(calls') = ServeEvent(sched, calls', Len(calls'))
      <4>1. Len(calls') > 0
        BY <2>2 DEF TypeInv
      <4> QED
        BY <2>2, <4>1, ServedIsLast
    <3> QED
      BY <1>1, <2>2, <3>1 DEF ServeCall
  <2>6. /\ Len(shown') = Len(shown) + 1
        /\ \A i \in 1 .. Len(shown) : shown'[i] = shown[i]
        /\ shown'[Len(shown) + 1] = ServeEvent(sched, calls', Len(calls) + 1)
    BY <2>4, <2>5, Grown DEF TypeInv
  <2>7. \A i \in 1 .. Len(calls) : ServeEvent(sched, calls', i) = ServeEvent(sched, calls, i)
    BY <2>1, <2>2, ServeEventStable DEF TypeInv
  <2>8. sched' = sched
    BY Moves DEF args
  <2>9. /\ Len(shown) = Len(calls) /\ Len(calls) \in Nat
        /\ \A i \in 1 .. Len(calls) : shown[i] = ServeEvent(sched, calls, i)
    BY DEF ShownInv, TypeInv
  <2>10. \A i \in 1 .. Len(calls') : shown'[i] = ServeEvent(sched, calls', i)
    BY <2>2, <2>6, <2>7, <2>9
  <2> QED
    BY <2>2, <2>6, <2>8, <2>9, <2>10 DEF ShownInv
<1>2. CASE UNCHANGED <<calls, shown>>
  BY <1>2, Moves DEF ShownInv, args
<1> QED
  BY <1>1, <1>2, Moves

LEMMA LogStep ==
  ASSUME TypeInv, CountInv, LogInv, [Next]_vars
  PROVE  LogInv'
<1>1. CASE pc = "raised"
  <2>1. /\ UNCHANGED <<log, pc, source, ep, sched, call, calls, proved>>
        /\ Made' = Made
    BY <1>1, RaisedStays DEF vars, Made, Live
  <2>2. \A n, m : LogIs(n, m) => LogIs(n, m)'
    BY <2>1 DEF LogIs, Proof
  <2> QED
    BY <2>1, <2>2 DEF LogInv, Live
<1>2. CASE pc # "raised"
  <2>1. LogIs(Made, proved) /\ Made \in Nat /\ proved \in Nat /\ call \in Nat
    <3>1. LogIs(Made, proved)
      BY <1>2 DEF LogInv
    <3>2. proved \in Nat /\ call \in Nat
      BY EpisodeAssumption DEF TypeInv
    <3>3. Made \in Nat
      BY <3>2 DEF Made
    <3> QED
      BY <3>1, <3>2, <3>3
  <2>2. sched' = sched /\ ep' = ep /\ source' = source /\ (Live' <=> Live)
    BY Moves DEF args, Live
  <2>3. CASE log' = log /\ (CommitObs => ~Live) /\ ~Prove
    <3>1. Made' = Made /\ proved' = proved
      <4>1. call' = call \/ ~Live
        BY <2>3, Moves
      <4> QED
        BY <2>2, <2>3, <4>1, Moves DEF Made
    <3>2. \A i \in 1 .. proved : ServeEvent(sched, calls', i) = ServeEvent(sched, calls, i)
      <4>1. CASE ServeCall
        BY <2>1, <4>1 DEF ServeCall, CountInv
      <4>2. CASE UNCHANGED calls
        BY <4>2
      <4> QED
        BY <4>1, <4>2, Moves
    <3>3. LogIs(Made, proved)'
      BY <2>1, <2>2, <2>3, <3>1, <3>2 DEF Proof, LogIs
    <3> QED
      BY <3>3 DEF LogInv
  <2>4. CASE (CommitObs \/ CommitRaises) /\ Live /\ log' = Append(log, ThisObs)
    <3>1. /\ pc = "commit" /\ proved = 0 /\ proved' = 0 /\ Live' /\ Made = call
          /\ (CommitObs /\ call' = call + 1) \/ (pc' = "raised" /\ call' = call)
      <4>1. /\ pc = "commit" /\ proved = 0
            /\ (CommitObs /\ call' = call + 1) \/ (pc' = "raised" /\ call' = call)
            /\ proved' = proved
        BY <2>4 DEF CommitObs, CommitRaises, CountInv
      <4> QED
        BY <2>2, <2>4, <4>1 DEF Made
    <3>2. /\ Len(log') = Len(log) + 1 /\ log'[Len(log) + 1] = ThisObs
          /\ \A i \in 1 .. Len(log) : log'[i] = log[i]
      <4>1. ThisObs \in ObsRecords \cup ProofRecords
        BY RecordTypes
      <4> QED
        BY <2>4, <4>1, Grown DEF TypeInv
    <3>3. ThisObs.tag = "OBS" /\ ThisObs.ep = ep /\ ThisObs.call = call
      BY DEF ThisObs, Obs
    <3>4. Len(log) = call
      BY <2>1, <3>1 DEF LogIs
    <3>5. /\ Len(log') = call + 1
          /\ \A i \in 1 .. call + 1 :
               log'[i].tag = "OBS" /\ log'[i].ep = ep' /\ log'[i].call = i - 1
      BY <2>1, <2>2, <3>1, <3>2, <3>3, <3>4 DEF LogIs
    <3>6. CASE CommitObs /\ call' = call + 1
      <4>1. Made' = call + 1
        BY <3>1, <3>6 DEF Made
      <4>2. LogIs(Made, proved)'
        BY <2>1, <3>1, <3>5, <4>1 DEF LogIs
      <4> QED
        BY <4>2 DEF LogInv
    <3>7. CASE pc' = "raised" /\ call' = call
      <4>1. LogIs(call + 1, 0)'
        BY <2>1, <3>5, <3>7 DEF LogIs
      <4> QED
        BY <3>1, <3>7, <4>1 DEF LogInv
    <3> QED
      BY <3>1, <3>6, <3>7
  <2>5. CASE (Prove \/ ProveRaises) /\ proved < Len(calls) /\ log' = Append(log, NextProof)
    <3>1. /\ UNCHANGED <<call, calls>>
          /\ proved' = proved + 1 \/ (pc' = "raised" /\ proved' = proved)
      BY <2>5 DEF Prove, ProveRaises
    <3>2. /\ Len(log') = Len(log) + 1
          /\ log'[Len(log) + 1] = Proof(proved, ServeEvent(sched, calls, proved + 1))
          /\ \A i \in 1 .. Len(log) : log'[i] = log[i]
      <4>1. NextProof \in ObsRecords \cup ProofRecords
        BY <2>5, RecordTypes
      <4> QED
        BY <2>5, <4>1, RecordTypes, Grown DEF TypeInv
    <3>3. Len(log) = Made + proved /\ Len(log') = Made + (proved + 1)
      BY <2>1, <3>2 DEF LogIs
    <3>4. \A i \in 1 .. Made :
            log'[i].tag = "OBS" /\ log'[i].ep = ep' /\ log'[i].call = i - 1
      BY <2>1, <2>2, <3>2, <3>3 DEF LogIs
    <3>5. \A i \in 1 .. proved + 1 :
            log'[Made + i] = Proof(i - 1, ServeEvent(sched, calls, i))'
      <4>1. ASSUME NEW i \in 1 .. proved + 1
            PROVE  log'[Made + i] = Proof(i - 1, ServeEvent(sched, calls, i))
        <5>1. CASE i = proved + 1
          <6>1. Made + i = Len(log) + 1 /\ i - 1 = proved
            BY <2>1, <3>3, <5>1
          <6> QED
            BY <3>2, <5>1, <6>1
        <5>2. CASE i \in 1 .. proved
          <6>1. Made + i \in 1 .. Len(log)
            BY <2>1, <3>3, <5>2
          <6> QED
            BY <2>1, <3>2, <5>2, <6>1 DEF LogIs
        <5> QED
          BY <2>1, <5>1, <5>2
      <4> QED
        BY <2>2, <3>1, <4>1 DEF Proof
    <3>6. Made' = Made
      BY <2>2, <3>1 DEF Made
    <3>7. CASE proved' = proved + 1
      <4>1. LogIs(Made, proved)'
        BY <3>3, <3>4, <3>5, <3>6, <3>7 DEF LogIs
      <4> QED
        BY <4>1 DEF LogInv
    <3>8. CASE pc' = "raised" /\ proved' = proved
      <4>1. LogIs(Made, proved + 1)'
        BY <3>3, <3>4, <3>5, <3>6, <3>8 DEF LogIs
      <4> QED
        BY <2>5, <3>1, <3>8, <4>1 DEF LogInv
    <3> QED
      BY <3>1, <3>7, <3>8
  <2> QED
    BY <2>3, <2>4, <2>5, LogGrows
<1> QED
  BY <1>1, <1>2
-----------------------------------------------------------------------------
\* An exchange the gateway serves to the episode is on its chain.
LEMMA AnswerGrows ==
  ASSUME TypeInv, GatewayAnswers
  PROVE  /\ Len(gw) \in Nat /\ Len(gw') = Len(gw) + 1
         /\ \A i \in 1 .. Len(gw) : gw'[i] = gw[i]
         /\ gw'[Len(gw) + 1].client = "runner" /\ gw'[Len(gw) + 1].ep = ep
<1>1. PICK m \in Snapshots : gw' = Append(gw, [client |-> "runner", ep |-> ep, snap |-> m])
  BY DEF GatewayAnswers
<1>2. [client |-> "runner", ep |-> ep, snap |-> m] \in Exchanges
  BY RecordTypes DEF Exchanges
<1>3. /\ Len(gw') = Len(gw) + 1 /\ Len(gw) \in Nat
      /\ \A i \in 1 .. Len(gw) : gw'[i] = gw[i]
      /\ gw'[Len(gw) + 1] = [client |-> "runner", ep |-> ep, snap |-> m]
  BY <1>1, <1>2, Grown DEF TypeInv
<1> QED
  BY <1>3

\* The exchanges the gateway served to the episode, as it serves one more.
LEMMA RunnerGrows ==
  ASSUME TypeInv, [Next]_vars
  PROVE  /\ GatewayAnswers =>
              /\ RunnerExchanges' = RunnerExchanges \cup {Len(gw) + 1}
              /\ Len(gw) + 1 \notin RunnerExchanges
         /\ ~GatewayAnswers => RunnerExchanges' = RunnerExchanges
<1>1. ep' = ep /\ ep \in Nat
  BY Moves, RecordTypes DEF args
<1>2. CASE GatewayAnswers
  <2> QED
    BY <1>1, <1>2, AnswerGrows DEF RunnerExchanges
<1>3. CASE OtherClient
  <2>1. PICK m \in Snapshots : gw' = Append(gw, [client |-> "other", ep |-> 0, snap |-> m])
    BY <1>3 DEF OtherClient
  <2>2. [client |-> "other", ep |-> 0, snap |-> m] \in Exchanges
    BY DEF Exchanges
  <2>3. /\ Len(gw') = Len(gw) + 1 /\ Len(gw) \in Nat
        /\ \A i \in 1 .. Len(gw) : gw'[i] = gw[i]
        /\ gw'[Len(gw) + 1] = [client |-> "other", ep |-> 0, snap |-> m]
    BY <2>1, <2>2, Grown DEF TypeInv
  <2>4. RunnerExchanges' = RunnerExchanges
    BY <1>1, <2>3 DEF RunnerExchanges
  <2>5. ~GatewayAnswers
    BY <1>3 DEF OtherClient, GatewayAnswers
  <2> QED
    BY <2>4, <2>5
<1>4. CASE UNCHANGED gw
  <2>1. ~GatewayAnswers
    BY <1>4, AnswerGrows
  <2> QED
    BY <1>1, <1>4, <2>1 DEF RunnerExchanges
<1> QED
  BY <1>2, <1>3, <1>4, Moves

\* An exchange is recorded when an oracle record of the episode has it.
LEMMA RecordedMember ==
  ASSUME NEW x
  PROVE  x \in RecordedExchanges <=>
           /\ x # 0
           /\ \E i \in 1 .. Len(log) :
                log[i].tag = "OBS" /\ log[i].ep = ep /\ log[i].xch = x
  BY DEF RecordedExchanges, ObsAt, IsObs

\* The recorded exchanges, as the log grows.
LEMMA RecordedGrows ==
  ASSUME TypeInv, [Next]_vars
  PROVE  \/ /\ log' = log /\ (CommitObs => ~Live)
            /\ RecordedExchanges' = RecordedExchanges
         \/ /\ (CommitObs \/ CommitRaises) /\ Live /\ log' = Append(log, ThisObs)
            /\ RecordedExchanges' = RecordedExchanges \cup ({dec.xch} \ {0})
         \/ /\ (Prove \/ ProveRaises) /\ proved < Len(calls)
            /\ log' = Append(log, NextProof)
            /\ RecordedExchanges' = RecordedExchanges
<1>1. ep' = ep
  BY Moves DEF args
<1>2. ASSUME NEW x
      PROVE  x \in RecordedExchanges' <=>
               /\ x # 0
               /\ \E i \in 1 .. Len(log') :
                    log'[i].tag = "OBS" /\ log'[i].ep = ep /\ log'[i].xch = x
  BY <1>1 DEF RecordedExchanges, ObsAt, IsObs
<1>3. CASE log' = log /\ (CommitObs => ~Live)
  <2>1. \A x : x \in RecordedExchanges' <=> x \in RecordedExchanges
    BY <1>2, <1>3, RecordedMember
  <2> QED
    BY <1>3, <2>1
<1>4. CASE (CommitObs \/ CommitRaises) /\ Live /\ log' = Append(log, ThisObs)
  <2>1. ThisObs \in ObsRecords \cup ProofRecords
    BY RecordTypes
  <2>2. /\ Len(log') = Len(log) + 1 /\ Len(log) \in Nat
        /\ \A i \in 1 .. Len(log) : log'[i] = log[i]
        /\ log'[Len(log) + 1] = ThisObs
    BY <1>4, <2>1, Grown DEF TypeInv
  <2>3. ThisObs.tag = "OBS" /\ ThisObs.ep = ep /\ ThisObs.xch = dec.xch
    BY DEF ThisObs, Obs
  <2>4. \A x : x \in RecordedExchanges' <=> x \in RecordedExchanges \cup ({dec.xch} \ {0})
    BY <1>2, <2>2, <2>3, RecordedMember
  <2> QED
    BY <1>4, <2>4
<1>5. CASE (Prove \/ ProveRaises) /\ proved < Len(calls) /\ log' = Append(log, NextProof)
  <2>1. NextProof \in ObsRecords \cup ProofRecords /\ NextProof.tag = "PROOF"
    BY <1>5, RecordTypes
  <2>2. /\ Len(log') = Len(log) + 1 /\ Len(log) \in Nat
        /\ \A i \in 1 .. Len(log) : log'[i] = log[i]
        /\ log'[Len(log) + 1] = NextProof
    BY <1>5, <2>1, Grown DEF TypeInv
  <2>3. \A x : x \in RecordedExchanges' <=> x \in RecordedExchanges
    BY <1>2, <2>1, <2>2, RecordedMember
  <2> QED
    BY <1>5, <2>3
<1> QED
  BY <1>3, <1>4, <1>5, LogGrows

\* The exchange of the call in progress, step by step.
LEMMA PendingMoves ==
  ASSUME TypeInv, [Next]_vars
  PROVE  /\ GatewayAnswers => Pending = {} /\ Pending' = {Len(gw) + 1}
         /\ CommitObs => Pending = {dec.xch} \ {0} /\ Pending' = {}
         /\ ~GatewayAnswers /\ ~CommitObs /\ pc' # "raised" =>
              Pending' = Pending \/ (LocalStep /\ Pending = {} /\ Pending' = {})
<1> USE DEF Pending
<1>1. CASE GatewayAnswers
  <2>1. pc = "waiting" /\ pc' = "answered" /\ wire'.xch = Len(gw) + 1 /\ Len(gw) \in Nat
    BY <1>1 DEF GatewayAnswers, Unframed, TypeInv
  <2>2. {Len(gw) + 1} \ {0} = {Len(gw) + 1}
    BY <2>1
  <2>3. ~CommitObs
    BY <2>1 DEF CommitObs
  <2> QED
    BY <1>1, <2>1, <2>2, <2>3
<1>2. CASE GatewayCloses
  <2>1. pc = "waiting" /\ pc' = "answered" /\ wire'.xch = 0 /\ gw' = gw
    BY <1>2 DEF GatewayCloses, NoWire, Unframed
  <2>2. ~GatewayAnswers
    BY <2>1, AnswerGrows
  <2> QED
    BY <2>1, <2>2 DEF CommitObs
<1>3. CASE Receive
  <2>1. pc = "answered" /\ pc' = "commit" /\ dec'.xch = wire.xch
    BY <1>3 DEF Receive, Received
  <2> QED
    BY <2>1 DEF GatewayAnswers, CommitObs
<1>4. CASE LocalStep
  <2>1. pc = "ask" /\ pc' = "commit" /\ dec'.xch = 0
    BY <1>4 DEF LocalStep
  <2> QED
    BY <1>4, <2>1 DEF GatewayAnswers, CommitObs
<1>5. CASE CommitObs
  BY <1>5 DEF CommitObs, GatewayAnswers
<1>6. CASE Send \/ OtherClient \/ StepRaises \/ ServeRaises \/ CommitRaises \/ ServeCall
             \/ Finish \/ Prove
             \/ ProveRaises \/ Complete \/ UNCHANGED vars
  BY <1>6 DEF Send, OtherClient, StepRaises, ServeRaises, CommitRaises, ServeCall, Finish, Prove,
     ProveRaises, Complete, vars, GatewayAnswers, CommitObs
<1> QED
  BY <1>1, <1>2, <1>3, <1>4, <1>5, <1>6 DEF Next, Runs, Fails, Gateway
-----------------------------------------------------------------------------
LEMMA ExchangeStep ==
  ASSUME TypeInv, ExchangeInv, [Next]_vars
  PROVE  ExchangeInv'
<1>1. (source # "gateway" =>
         pc \notin {"waiting", "answered"} /\ (pc = "commit" => dec.xch = 0))'
  BY DEF ExchangeInv, Next, Runs, Fails, Gateway, Send, Receive, Received, LocalStep,
     CommitObs, ServeCall, Finish, Prove, Complete, StepRaises, ServeRaises, CommitRaises, ProveRaises,
     GatewayAnswers, GatewayCloses, OtherClient, args, vars
<1>2. CASE pc = "raised"
  <2>1. /\ UNCHANGED <<pc, gw>> /\ RunnerExchanges' = RunnerExchanges
        /\ RecordedExchanges' = RecordedExchanges
    BY <1>2, RaisedStays DEF vars, RunnerExchanges, RecordedExchanges, ObsAt, IsObs
  <2> QED
    BY <1>1, <1>2, <2>1 DEF ExchangeInv
<1>3. CASE pc # "raised" /\ pc' # "raised"
  <2>1. RunnerExchanges = RecordedExchanges \cup Pending
    BY <1>3 DEF ExchangeInv
  <2>2. CASE GatewayAnswers
    <3>1. RecordedExchanges' = RecordedExchanges
      BY <2>2, RecordedGrows DEF GatewayAnswers, CommitObs, CommitRaises, Prove, ProveRaises
    <3> QED
      BY <1>1, <1>3, <2>1, <2>2, <3>1, RunnerGrows, PendingMoves DEF ExchangeInv
  <2>3. CASE CommitObs
    <3>1. ~GatewayAnswers /\ ~Prove /\ ~ProveRaises /\ pc = "commit"
      BY <2>3 DEF CommitObs, GatewayAnswers, Prove, ProveRaises
    <3>2. RecordedExchanges' = RecordedExchanges \cup ({dec.xch} \ {0})
      <4>1. CASE Live
        BY <2>3, <3>1, <4>1, RecordedGrows
      <4>2. CASE ~Live
        <5>1. dec.xch = 0
          BY <3>1, <4>2 DEF ExchangeInv, Live
        <5>2. RecordedExchanges' = RecordedExchanges
          BY <3>1, <4>2, RecordedGrows
        <5> QED
          BY <5>1, <5>2
      <4> QED
        BY <4>1, <4>2
    <3> QED
      BY <1>1, <1>3, <2>1, <2>3, <3>1, <3>2, RunnerGrows, PendingMoves DEF ExchangeInv
  <2>4. CASE ~GatewayAnswers /\ ~CommitObs
    <3>1. ~CommitRaises
      BY <1>3 DEF CommitRaises
    <3>2. RecordedExchanges' = RecordedExchanges
      BY <2>4, <3>1, RecordedGrows
    <3>3. Pending' = Pending
      BY <1>3, <2>4, PendingMoves
    <3> QED
      BY <1>1, <1>3, <2>1, <2>4, <3>2, <3>3, RunnerGrows DEF ExchangeInv
  <2> QED
    BY <2>2, <2>3, <2>4
<1>4. CASE pc # "raised" /\ pc' = "raised"
  <2>1. RunnerExchanges = RecordedExchanges \cup Pending
    BY <1>4 DEF ExchangeInv
  <2>2. gw' = gw /\ ~GatewayAnswers
    BY <1>4, Moves DEF GatewayAnswers, OtherClient
  <2>3. RunnerExchanges' = RunnerExchanges
    BY <2>2, RunnerGrows
  <2>4. \E x \in 0 .. Len(gw) : Pending \subseteq {x}
    <3>1. 0 \in 0 .. Len(gw) /\ RunnerExchanges \subseteq 0 .. Len(gw)
      BY DEF TypeInv, RunnerExchanges
    <3>2. Pending \subseteq RunnerExchanges
      BY <2>1
    <3> QED
      BY <3>1, <3>2 DEF Pending
  <2>5. \/ RecordedExchanges' = RecordedExchanges
        \/ pc = "commit" /\ RecordedExchanges' = RecordedExchanges \cup ({dec.xch} \ {0})
    BY RecordedGrows DEF CommitObs, CommitRaises
  <2>6. /\ RecordedExchanges \subseteq RecordedExchanges'
        /\ RecordedExchanges' \subseteq RecordedExchanges \cup Pending
    BY <2>5 DEF Pending
  <2> QED
    BY <1>1, <1>4, <2>1, <2>2, <2>3, <2>4, <2>6 DEF ExchangeInv
<1> QED
  BY <1>2, <1>3, <1>4

LEMMA RunnerFinite == ASSUME TypeInv PROVE IsFiniteSet(RunnerExchanges)
<1>1. RunnerExchanges \in SUBSET (1 .. Len(gw)) /\ Len(gw) \in Int
  BY DEF RunnerExchanges, TypeInv
<1>2. IsFiniteSet(1 .. Len(gw))
  BY <1>1, FS_Interval
<1> QED
  BY <1>1, <1>2, FS_Subset

\* There is at most one pending exchange.
LEMMA PendingCount ==
  ASSUME TypeInv
  PROVE  /\ Cardinality(Pending) \in {0, 1}
         /\ Pending = {} => Cardinality(Pending) = 0
         /\ \A x : Pending = {x} => Cardinality(Pending) = 1
<1>1. Pending = {} \/ \E x : Pending = {x}
  BY DEF Pending
<1> QED
  BY <1>1, FS_EmptySet, FS_Singleton

LEMMA ServedStep ==
  ASSUME TypeInv, CountInv, ExchangeInv, ServedInv, [Next]_vars
  PROVE  ServedInv'
<1> SUFFICES ASSUME source = "gateway", pc' # "raised"
             PROVE  ServedInv'
  BY Moves DEF ServedInv, args
<1>1. pc # "raised" /\ Live
  BY RaisedStays DEF vars, Live
<1>2. (pc = "answered" /\ wire.framed => wire.xch # 0)'
  <2>1. CASE GatewayAnswers
    BY <2>1 DEF GatewayAnswers, Unframed, TypeInv
  <2>2. CASE GatewayCloses
    BY <2>2 DEF GatewayCloses, NoWire, Unframed
  <2>3. CASE ~GatewayAnswers /\ ~GatewayCloses
    <3>1. pc' = "answered" => pc = "answered" /\ wire' = wire
      BY <2>3 DEF Next, Runs, Fails, Gateway, Send, Receive, LocalStep, CommitObs,
         ServeCall, Finish, Prove, Complete, StepRaises, ServeRaises, CommitRaises, ProveRaises,
         OtherClient, vars
    <3> QED
      BY <1>1, <3>1 DEF ServedInv
  <2> QED
    BY <2>1, <2>2, <2>3
<1>3. (pc = "commit" /\ dec.out # Stop => dec.xch # 0)'
  <2>1. CASE Receive
    BY <1>1, <2>1 DEF Receive, Received, ServedInv
  <2>2. CASE ~Receive
    <3>1. pc' = "commit" => pc = "commit" /\ dec' = dec
      BY <2>2 DEF Next, Runs, Fails, Gateway, Send, LocalStep, CommitObs,
         ServeCall, Finish, Prove, Complete, StepRaises, ServeRaises, CommitRaises, ProveRaises,
         OtherClient, GatewayAnswers, GatewayCloses, vars
    <3> QED
      BY <1>1, <3>1 DEF ServedInv
  <2> QED
    BY <2>1, <2>2
<1>4. (Cardinality(RunnerExchanges) \in
         IF Left THEN {call - 1, call} ELSE {call + Cardinality(Pending)})'
  <2>1. /\ Cardinality(RunnerExchanges) \in
             IF Left THEN {call - 1, call} ELSE {call + Cardinality(Pending)}
        /\ call \in Nat
    BY <1>1, EpisodeAssumption DEF ServedInv, TypeInv
  <2>2. CASE GatewayAnswers
    <3>1. ~Left /\ ~Left' /\ call' = call
      BY <2>2 DEF GatewayAnswers, Left
    <3>2. IsFiniteSet(RunnerExchanges)
      BY RunnerFinite
    <3>3. Cardinality(RunnerExchanges') = Cardinality(RunnerExchanges) + 1
      BY <2>2, <3>2, RunnerGrows, FS_AddElement
    <3>4. Cardinality(Pending) = 0 /\ Cardinality(Pending') = 1
      BY <2>2, PendingMoves, FS_EmptySet, FS_Singleton
    <3> QED
      BY <2>1, <3>1, <3>3, <3>4
  <2>3. CASE CommitObs
    <3>1. ~Left /\ pc = "commit" /\ call' = call + 1
      BY <2>3 DEF CommitObs, Left
    <3>2. RunnerExchanges' = RunnerExchanges
      BY <3>1, RunnerGrows DEF GatewayAnswers
    <3>3. Cardinality(Pending) \in {0, 1} /\ Cardinality(Pending') = 0
      BY <2>3, PendingMoves, PendingCount, FS_EmptySet
    <3>4. dec.out # Stop => Cardinality(Pending) = 1
      <4>1. dec.out # Stop => Pending = {dec.xch}
        BY <1>1, <2>3, <3>1, PendingMoves DEF ServedInv
      <4> QED
        BY <4>1, PendingCount
    <3>5. dec.out # Stop <=> ~Left'
      BY <2>3 DEF CommitObs, Left
    <3> QED
      BY <2>1, <3>1, <3>2, <3>3, <3>4, <3>5
  <2>4. CASE ~GatewayAnswers /\ ~CommitObs
    <3>1. /\ RunnerExchanges' = RunnerExchanges /\ call' = call
          /\ Cardinality(Pending') = Cardinality(Pending)
      BY <2>4, RunnerGrows, PendingMoves, Moves
    <3>2. CASE ServeCall
      <4>1. ~Left /\ Pending = {}
        BY <3>2 DEF ServeCall, Left, Pending
      <4>2. Cardinality(Pending) = 0
        BY <4>1, FS_EmptySet
      <4> QED
        BY <2>1, <3>1, <4>1, <4>2
    <3>3. CASE ~ServeCall
      <4>1. Left' <=> Left
        BY <1>1, <2>4, <3>3 DEF Left, Next, Runs, Fails, Gateway, Send, Receive, Received,
           LocalStep, Finish, Prove, Complete, StepRaises, ServeRaises, CommitRaises, ProveRaises,
           OtherClient, GatewayCloses, vars
      <4> QED
        BY <2>1, <3>1, <4>1
    <3> QED
      BY <3>2, <3>3
  <2> QED
    BY <2>2, <2>3, <2>4
<1>5. (\A i \in 1 .. Len(log) :
         log[i].tag = "OBS" /\ (Left => log[i].call + 1 < call) => log[i].xch # 0)'
  <2>1. \A i \in 1 .. Len(log) :
          log[i].tag = "OBS" /\ (Left => log[i].call + 1 < call) => log[i].xch # 0
    BY <1>1 DEF ServedInv
  <2>2. CASE CommitObs
    <3>1. pc = "commit" /\ ~Left /\ call' = call + 1 /\ log' = Append(log, ThisObs)
      BY <1>1, <2>2, LogGrows DEF CommitObs, Left, Prove, ProveRaises
    <3>2. ThisObs \in ObsRecords \cup ProofRecords
      BY RecordTypes
    <3>3. /\ Len(log') = Len(log) + 1 /\ Len(log) \in Nat
          /\ \A i \in 1 .. Len(log) : log'[i] = log[i]
          /\ log'[Len(log) + 1] = ThisObs
      BY <3>1, <3>2, Grown DEF TypeInv
    <3>4. ThisObs.call = call /\ ThisObs.xch = dec.xch /\ call \in Nat
      BY EpisodeAssumption DEF ThisObs, Obs, TypeInv
    <3>5. dec.out # Stop => dec.xch # 0
      BY <1>1, <3>1 DEF ServedInv
    <3>6. dec.out = Stop => Left'
      BY <2>2 DEF CommitObs, Left
    <3> QED
      BY <2>1, <3>1, <3>3, <3>4, <3>5, <3>6
  <2>3. CASE ~CommitObs
    <3>1. ~CommitRaises /\ ~ProveRaises /\ call' = call
      BY <2>3, Moves DEF CommitRaises, ProveRaises
    <3>2. Left => Left'
      BY <1>1 DEF Left, Next, Runs, Fails, Gateway, Send, Receive, Received, LocalStep,
         CommitObs, ServeCall, Finish, Prove, Complete, StepRaises, ServeRaises, CommitRaises,
         ProveRaises, OtherClient, GatewayAnswers, GatewayCloses, vars
    <3>3. CASE log' = log
      BY <2>1, <3>1, <3>2, <3>3
    <3>4. CASE Prove /\ proved < Len(calls) /\ log' = Append(log, NextProof)
      <4>1. NextProof \in ObsRecords \cup ProofRecords /\ NextProof.tag = "PROOF"
        BY <3>4, RecordTypes
      <4>2. /\ Len(log') = Len(log) + 1 /\ Len(log) \in Nat
            /\ \A i \in 1 .. Len(log) : log'[i] = log[i]
            /\ log'[Len(log) + 1] = NextProof
        BY <3>4, <4>1, Grown DEF TypeInv
      <4> QED
        BY <2>1, <3>1, <3>2, <4>1, <4>2
    <3> QED
      BY <2>3, <3>1, <3>3, <3>4, LogGrows
  <2> QED
    BY <2>2, <2>3
<1> QED
  BY <1>2, <1>3, <1>4, <1>5 DEF ServedInv
-----------------------------------------------------------------------------
\* What a seq and a snapshot name stays named as the gateway's chain grows.
LEMMA NamesStay ==
  ASSUME TypeInv, [Next]_vars, NEW seq, NEW snap, NEW x
  PROVE  Names(seq, snap, x) =>
           x \in 1 .. Len(gw') /\ seq = x /\ snap = gw'[x].snap
<1>1. /\ Len(gw) \in Nat /\ Len(gw') \in Nat /\ Len(gw) <= Len(gw')
      /\ \A i \in 1 .. Len(gw) : gw'[i] = gw[i]
  <2>1. CASE GatewayAnswers
    BY <2>1, AnswerGrows
  <2>2. CASE OtherClient
    <3>1. PICK m \in Snapshots : gw' = Append(gw, [client |-> "other", ep |-> 0, snap |-> m])
      BY <2>2 DEF OtherClient
    <3>2. [client |-> "other", ep |-> 0, snap |-> m] \in Exchanges
      BY DEF Exchanges
    <3> QED
      BY <3>1, <3>2, Grown DEF TypeInv
  <2> QED
    BY <2>1, <2>2, Moves DEF TypeInv
<1> QED
  BY <1>1 DEF Names

LEMMA NamesStep ==
  ASSUME AllReported, TypeInv, NamesInv, [Next]_vars
  PROVE  NamesInv'
<1> SUFFICES ASSUME source = "gateway"
             PROVE  NamesInv'
  BY Moves DEF NamesInv, args
<1>1. /\ pc = "answered" /\ wire.framed => Names(wire.seq, wire.snap, wire.xch)
      /\ pc = "commit" /\ dec.seq # NoSeq => Names(dec.seq, last.snap, dec.xch)
      /\ \A i \in 1 .. Len(log) :
           log[i].tag = "OBS" /\ log[i].seq # NoSeq =>
             Names(log[i].seq, log[i].snap, log[i].xch)
  BY DEF NamesInv
<1>2. (pc = "answered" /\ wire.framed => Names(wire.seq, wire.snap, wire.xch))'
  <2>1. CASE GatewayAnswers /\ wire'.framed
    <3>1. PICK m \in Snapshots, out \in Calls \cup {Stop}, fields \in Reports :
            /\ gw' = Append(gw, [client |-> "runner", ep |-> ep, snap |-> m])
            /\ wire' = [framed |-> TRUE,
                        seq |-> IF "seq" \in fields THEN Len(gw) + 1 ELSE NoSeq,
                        snap |-> IF "snapshot_id" \in fields THEN m ELSE NoSnap,
                        out |-> out,
                        xch |-> Len(gw) + 1]
      BY <2>1 DEF GatewayAnswers, Unframed
    <3>2. fields = {"seq", "snapshot_id"}
      BY DEF AllReported
    <3>3. wire'.seq = Len(gw) + 1 /\ wire'.xch = Len(gw) + 1 /\ wire'.snap = m
      BY <3>1, <3>2
    <3>4. [client |-> "runner", ep |-> ep, snap |-> m] \in Exchanges
      BY RecordTypes DEF Exchanges
    <3>5. /\ Len(gw') = Len(gw) + 1 /\ Len(gw) \in Nat
          /\ gw'[Len(gw) + 1] = [client |-> "runner", ep |-> ep, snap |-> m]
      BY <3>1, <3>4, Grown DEF TypeInv
    <3> QED
      BY <3>3, <3>5 DEF Names
  <2>2. CASE GatewayCloses
    BY <2>2 DEF GatewayCloses, NoWire, Unframed
  <2>3. CASE ~GatewayAnswers /\ ~GatewayCloses
    <3>1. pc' = "answered" => pc = "answered" /\ wire' = wire
      BY <2>3 DEF Next, Runs, Fails, Gateway, Send, Receive, LocalStep, CommitObs,
         ServeCall, Finish, Prove, Complete, StepRaises, ServeRaises, CommitRaises, ProveRaises,
         OtherClient, vars
    <3> QED
      BY <1>1, <3>1, NamesStay DEF Names
  <2> QED
    BY <2>1, <2>2, <2>3
<1>3. (pc = "commit" /\ dec.seq # NoSeq => Names(dec.seq, last.snap, dec.xch))'
  <2>1. CASE Receive
    <3>1. pc = "answered" /\ gw' = gw
      BY <2>1 DEF Receive, Received
    <3>2. CASE wire.framed
      <4>1. wire.seq # NoSeq /\ wire.snap # NoSnap
        <5>1. /\ wire.xch \in 1 .. Len(gw) /\ wire.seq = wire.xch
              /\ wire.snap = gw[wire.xch].snap
          BY <1>1, <3>1, <3>2 DEF Names
        <5>2. gw[wire.xch] \in Exchanges
          BY <5>1, ElementOfSeq DEF TypeInv
        <5> QED
          BY <5>1, <5>2, EpisodeAssumption DEF Exchanges, NoSeq, TypeInv
      <4>2. /\ dec'.seq = wire.seq /\ dec'.xch = wire.xch /\ last'.snap = wire.snap
        BY <2>1, <3>2, <4>1 DEF Receive
      <4> QED
        BY <1>1, <3>1, <3>2, <4>2 DEF Names
    <3>3. CASE ~wire.framed
      BY <2>1, <3>3 DEF Receive
    <3> QED
      BY <3>2, <3>3
  <2>2. CASE LocalStep
    BY <2>2 DEF LocalStep
  <2>3. CASE ~Receive /\ ~LocalStep
    <3>1. dec' = dec /\ last' = last
      BY <2>3, Moves
    <3>2. pc' = "commit" => pc = "commit"
      BY <2>3 DEF Next, Runs, Fails, Gateway, Send, CommitObs, ServeCall, Finish, Prove,
         Complete, StepRaises, ServeRaises, CommitRaises, ProveRaises, OtherClient, GatewayAnswers,
         GatewayCloses, vars
    <3> QED
      BY <1>1, <3>1, <3>2, NamesStay DEF Names
  <2> QED
    BY <2>1, <2>2, <2>3
<1>4. (\A i \in 1 .. Len(log) :
         log[i].tag = "OBS" /\ log[i].seq # NoSeq =>
           Names(log[i].seq, log[i].snap, log[i].xch))'
  <2> DEFINE Named(rec) == rec.tag = "OBS" /\ rec.seq # NoSeq
                             => /\ rec.xch \in 1 .. Len(gw') /\ rec.seq = rec.xch
                                /\ rec.snap = gw'[rec.xch].snap
  <2>0. \A i \in 1 .. Len(log) : Named(log[i])
    BY <1>1, NamesStay
  <2>1. CASE log' = log
    BY <2>0, <2>1 DEF Names
  <2>2. CASE pc = "commit" /\ log' = Append(log, ThisObs)
    <3>1. ThisObs \in ObsRecords \cup ProofRecords
      BY RecordTypes
    <3>2. /\ Len(log') = Len(log) + 1 /\ Len(log) \in Nat
          /\ \A i \in 1 .. Len(log) : log'[i] = log[i]
          /\ log'[Len(log) + 1] = ThisObs
      BY <2>2, <3>1, Grown DEF TypeInv
    <3>3. ThisObs.seq = dec.seq /\ ThisObs.snap = last.snap /\ ThisObs.xch = dec.xch
      BY DEF ThisObs, Obs
    <3>4. Named(ThisObs)
      BY <1>1, <2>2, <3>3, NamesStay
    <3> HIDE DEF Named
    <3>5. \A i \in 1 .. Len(log') : Named(log'[i])
      BY <2>0, <3>2, <3>4
    <3> QED
      BY <3>5 DEF Named, Names
  <2>3. CASE proved < Len(calls) /\ log' = Append(log, NextProof)
    <3>1. NextProof \in ObsRecords \cup ProofRecords /\ NextProof.tag = "PROOF"
      BY <2>3, RecordTypes
    <3>2. /\ Len(log') = Len(log) + 1 /\ Len(log) \in Nat
          /\ \A i \in 1 .. Len(log) : log'[i] = log[i]
          /\ log'[Len(log) + 1] = NextProof
      BY <2>3, <3>1, Grown DEF TypeInv
    <3>3. Named(NextProof)
      BY <3>1
    <3> HIDE DEF Named
    <3>4. \A i \in 1 .. Len(log') : Named(log'[i])
      BY <2>0, <3>2, <3>3
    <3> QED
      BY <3>4 DEF Named, Names
  <2>4. CommitObs \/ CommitRaises => pc = "commit"
    BY DEF CommitObs, CommitRaises
  <2>5. \/ log' = log
        \/ (CommitObs \/ CommitRaises) /\ log' = Append(log, ThisObs)
        \/ proved < Len(calls) /\ log' = Append(log, NextProof)
    BY LogGrows
  <2> QED
    BY <2>1, <2>2, <2>3, <2>4, <2>5
<1> QED
  BY <1>2, <1>3, <1>4 DEF NamesInv

\* A record that stays where it is, and a new last one.
LEMMA StaleRecords ==
  ASSUME TypeInv, StaleInv, source = "gateway", Left' \/ pc' = "raised",
         NEW rec \in ObsRecords \cup ProofRecords, log' = Append(log, rec),
         rec.tag = "OBS" /\ rec.seq = NoSeq => rec.snap = Heard,
         rec.tag = "OBS" =>
           \A i \in 1 .. Len(log) : ~(log[i].tag = "OBS" /\ log[i].seq = NoSeq)
  PROVE  StaleInv'
<1>1. /\ Len(log') = Len(log) + 1 /\ Len(log) \in Nat
      /\ \A i \in 1 .. Len(log) : log'[i] = log[i]
      /\ log'[Len(log) + 1] = rec
  BY Grown DEF TypeInv
<1>2. pc' \notin {"ask", "waiting", "answered", "serve", "commit"}
  BY DEF Left
<1>3. ASSUME NEW i \in 1 .. Len(log'), log'[i].tag = "OBS" /\ log'[i].seq = NoSeq
      PROVE  /\ \A k \in 1 .. Len(log') : log'[k].tag = "OBS" => k <= i
             /\ log'[i].snap = IF i = 1 THEN NoSnap ELSE log'[i - 1].snap
  <2>1. CASE i = Len(log) + 1
    <3>1. rec.snap = Heard
      BY <1>1, <1>3, <2>1
    <3> QED
      BY <1>1, <2>1, <3>1 DEF Heard
  <2>2. CASE i \in 1 .. Len(log)
    <3>1. log'[i] = log[i] /\ rec.tag # "OBS"
      BY <1>1, <1>3, <2>2
    <3>2. /\ \A k \in 1 .. Len(log) : log[k].tag = "OBS" => k <= i
          /\ log[i].snap = IF i = 1 THEN NoSnap ELSE log[i - 1].snap
      BY <1>3, <2>2, <3>1 DEF StaleInv
    <3>3. i # 1 => i - 1 \in 1 .. Len(log)
      BY <1>1, <2>2
    <3> QED
      BY <1>1, <2>2, <3>1, <3>2, <3>3
  <2> QED
    BY <1>1, <2>1, <2>2
<1> QED
  BY <1>2, <1>3 DEF StaleInv

\* The snapshot of a record is that of the last response that reported one.
LEMMA StaleStep ==
  ASSUME AllReported, TypeInv, NamesInv, StaleInv, [Next]_vars
  PROVE  StaleInv'
<1> SUFFICES ASSUME source = "gateway", source' = "gateway"
             PROVE  StaleInv'
  BY Moves DEF StaleInv, args
<1>1. Live
  BY DEF Live
<1> DEFINE Bare == \E i \in 1 .. Len(log) : log[i].tag = "OBS" /\ log[i].seq = NoSeq
<1>2. Bare => Left \/ pc = "raised"
  BY DEF StaleInv
<1>3. CASE CommitObs \/ CommitRaises
  <2>1. pc = "commit" /\ ~Bare
    BY <1>2, <1>3 DEF CommitObs, CommitRaises, Left
  <2>2. ThisObs \in ObsRecords /\ ThisObs.tag = "OBS"
        /\ ThisObs.seq = dec.seq /\ ThisObs.snap = last.snap
    BY RecordTypes DEF ThisObs, Obs
  <2>3. dec.seq = NoSeq => last.snap = Heard /\ dec.out = Stop
    BY <2>1 DEF StaleInv
  <2>4. CASE log' = log
    <3>1. pc' = "raised"
      BY <1>1, <1>3, <2>4, AppendProperties
         DEF CommitObs, CommitRaises, Appended, Recorded, TypeInv
    <3> QED
      BY <2>1, <2>4, <3>1 DEF StaleInv, Left
  <2>5. CASE log' = Append(log, ThisObs) /\ (Left' \/ pc' = "raised")
    BY <2>1, <2>2, <2>3, <2>5, StaleRecords
  <2>6. CASE log' = Append(log, ThisObs) /\ ~(Left' \/ pc' = "raised")
    <3>1. CommitObs /\ pc' = "serve" /\ dec.out # Stop /\ last' = last
      BY <1>3, <2>6 DEF CommitObs, CommitRaises, Left
    <3>2. dec.seq # NoSeq
      BY <2>3, <3>1
    <3>3. /\ Len(log') = Len(log) + 1 /\ Len(log) \in Nat
          /\ \A i \in 1 .. Len(log) : log'[i] = log[i]
          /\ log'[Len(log) + 1] = ThisObs
      BY <2>2, <2>6, Grown DEF TypeInv
    <3>4. last'.snap = Heard'
      BY <2>2, <3>1, <3>3 DEF Heard
    <3>5. \A i \in 1 .. Len(log') : ~(log'[i].tag = "OBS" /\ log'[i].seq = NoSeq)
      BY <2>1, <2>2, <3>2, <3>3
    <3> QED
      BY <3>1, <3>4, <3>5 DEF StaleInv
  <2>7. log' = log \/ log' = Append(log, ThisObs)
    BY <1>3 DEF CommitObs, CommitRaises, Appended, AppendRaised, Recorded, chain
  <2> QED
    BY <2>4, <2>5, <2>6, <2>7
<1>4. CASE (Prove \/ ProveRaises) /\ log' # log
  <2>1. NextProof \in ProofRecords /\ NextProof.tag = "PROOF" /\ log' = Append(log, NextProof)
    BY <1>4, RecordTypes DEF Prove, ProveRaises, Appended, AppendRaised
  <2>2. Left' \/ pc' = "raised"
    BY <1>4 DEF Prove, ProveRaises, Left
  <2> QED
    BY <2>1, <2>2, StaleRecords
<1>5. CASE log' = log /\ ~CommitObs /\ ~CommitRaises
  <2>1. Left \/ pc = "raised" => Left' \/ pc' = "raised"
    BY <1>5 DEF Left, Next, Runs, Fails, Gateway, Send, Receive, Received, LocalStep,
       ServeCall, Finish, Prove, Complete, StepRaises, ServeRaises, ProveRaises,
       GatewayAnswers, GatewayCloses, OtherClient, vars
  <2>2. (\A i \in 1 .. Len(log) :
          log[i].tag = "OBS" /\ log[i].seq = NoSeq =>
            /\ Left \/ pc = "raised"
            /\ \A k \in 1 .. Len(log) : log[k].tag = "OBS" => k <= i
            /\ log[i].snap = IF i = 1 THEN NoSnap ELSE log[i - 1].snap)'
    BY <1>5, <2>1 DEF StaleInv
  <2>3. Heard' = Heard
    BY <1>5 DEF Heard
  <2>4. CASE Receive
    <3>1. pc = "answered" /\ pc' = "commit" /\ last.snap = Heard
      BY <2>4 DEF Receive, Received, StaleInv
    <3>2. CASE wire.framed
      <4>1. Names(wire.seq, wire.snap, wire.xch)
        BY <3>1, <3>2 DEF NamesInv
      <4>2. wire.seq \in Nat /\ wire.seq # NoSeq
        BY <4>1 DEF Names, NoSeq, TypeInv
      <4>3. dec'.seq # NoSeq
        BY <2>4, <3>2, <4>2 DEF Receive
      <4> QED
        BY <2>2, <3>1, <4>3 DEF StaleInv
    <3>3. CASE ~wire.framed
      <4>1. last' = last /\ dec'.out = Stop
        BY <2>4, <3>3 DEF Receive
      <4> QED
        BY <2>2, <2>3, <3>1, <4>1 DEF StaleInv
    <3> QED
      BY <3>2, <3>3
  <2>5. CASE ~Receive
    <3>1. ~LocalStep
      BY DEF LocalStep
    <3>2. dec' = dec /\ last' = last
      BY <2>5, <3>1, Moves
    <3>3. /\ pc' \in {"ask", "waiting", "answered", "serve"} =>
               pc \in {"ask", "waiting", "answered", "serve"}
          /\ pc' = "commit" => pc = "commit"
      BY <1>5, <2>5, <3>1 DEF Next, Runs, Fails, Gateway, Send, ServeCall, Finish, Prove,
         Complete, StepRaises, ServeRaises, ProveRaises, GatewayAnswers, GatewayCloses,
         OtherClient, vars
    <3>4. /\ pc' \in {"ask", "waiting", "answered", "serve"} => last'.snap = Heard'
          /\ pc' = "commit" /\ dec'.seq = NoSeq => last'.snap = Heard' /\ dec'.out = Stop
      BY <2>3, <3>2, <3>3 DEF StaleInv
    <3> QED
      BY <2>2, <3>4 DEF StaleInv
  <2> QED
    BY <2>4, <2>5
<1> QED
  BY <1>3, <1>4, <1>5, LogGrows

LEMMA Invariant == Spec => []IInv
<1>1. IInv /\ [Next]_vars => IInv'
  <2> SUFFICES ASSUME IInv, [Next]_vars PROVE IInv'
    OBVIOUS
  <2>1. AllReported => NamesInv' /\ StaleInv'
    BY NamesStep, StaleStep DEF IInv
  <2> QED
    BY <2>1, TypeStep, CountStep, ShownStep, LogStep, ExchangeStep, ServedStep
    DEF IInv, AllReported
<1> QED
  BY <1>1, InitInv, PTL DEF Spec
-----------------------------------------------------------------------------
\* How many oracle records and how many serve events are on the log.
LEMMA LogShape ==
  ASSUME IInv
  PROVE  \E n, m \in Nat :
           /\ LogIs(n, m)
           /\ m <= Len(calls)
           /\ Live => n >= call
           /\ pc # "raised" => n = Made /\ m = proved
<1>1. call \in Nat /\ proved \in Nat /\ Made \in Nat /\ proved <= Len(calls)
      /\ Len(calls) \in Nat
  BY EpisodeAssumption DEF IInv, TypeInv, CountInv, Made
<1>2. Live => Made = call
  BY DEF Made
<1>3. CASE LogIs(Made, proved)
  <2>1. Live => Made >= call
    BY <1>1, <1>2
  <2> QED
    BY <1>1, <1>3, <2>1
<1>4. CASE pc = "raised" /\ Live /\ proved = 0 /\ LogIs(call + 1, 0)
  <2>1. call + 1 \in Nat /\ 0 \in Nat /\ 0 <= Len(calls) /\ call + 1 >= call
    BY <1>1
  <2> QED
    BY <1>4, <2>1
<1>5. CASE pc = "raised" /\ proved < Len(calls) /\ LogIs(Made, proved + 1)
  <2>1. proved + 1 \in Nat /\ proved + 1 <= Len(calls) /\ (Live => Made >= call)
    BY <1>1, <1>2, <1>5
  <2> QED
    BY <1>1, <1>5, <2>1
<1> QED
  BY <1>3, <1>4, <1>5 DEF IInv, LogInv

\* The oracle records come first, then the serve events.
LEMMA Positions ==
  ASSUME NEW n \in Nat, NEW m \in Nat, LogIs(n, m)
  PROVE  /\ ObsAt(ep) = 1 .. n
         /\ ProofsAt(ep) = n + 1 .. n + m
         /\ \A i \in 1 .. n : log[i].tag = "OBS" /\ log[i].call = i - 1
         /\ \A i \in n + 1 .. n + m :
              log[i] = Proof(i - n - 1, ServeEvent(sched, calls, i - n))
<1>1. Len(log) = n + m
  BY DEF LogIs
<1>2. \A i \in 1 .. n : log[i].tag = "OBS" /\ log[i].ep = ep /\ log[i].call = i - 1
  BY DEF LogIs
<1>3. ASSUME NEW i \in n + 1 .. n + m
      PROVE  log[i] = Proof(i - n - 1, ServeEvent(sched, calls, i - n))
  <2>1. i - n \in 1 .. m /\ n + (i - n) = i
    OBVIOUS
  <2> QED
    BY <2>1 DEF LogIs
<1>4. \A i \in n + 1 .. n + m : log[i].tag = "PROOF" /\ log[i].of = ep
  <2>1. \A k, ev : Proof(k, ev).tag = "PROOF" /\ Proof(k, ev).of = ep
    BY DEF Proof
  <2> QED
    BY <1>3, <2>1
<1>5. ObsAt(ep) = 1 .. n
  BY <1>1, <1>2, <1>4 DEF ObsAt, IsObs
<1>6. ProofsAt(ep) = n + 1 .. n + m
  BY <1>1, <1>2, <1>4 DEF ProofsAt, IsProof
<1> QED
  BY <1>2, <1>3, <1>5, <1>6

\* Counting in an interval.
LEMMA IntervalCounts ==
  ASSUME NEW a \in Nat, NEW b \in Nat, a <= b + 1
  PROVE  /\ Cardinality(a .. b) = b - a + 1
         /\ \A i \in a .. b : Before(a .. b, i) = i - a
<1>1. Cardinality(a .. b) = b - a + 1
  BY FS_Interval
<1>2. ASSUME NEW i \in a .. b
      PROVE  Before(a .. b, i) = i - a
  <2>1. {k \in a .. b : k < i} = a .. i - 1
    OBVIOUS
  <2>2. Cardinality(a .. i - 1) = i - a
    <3>1. a \in Int /\ i - 1 \in Int
      OBVIOUS
    <3>2. Cardinality(a .. i - 1) = IF a > i - 1 THEN 0 ELSE (i - 1) - a + 1
      BY <3>1, FS_Interval
    <3> QED
      BY <3>2
  <2> QED
    BY <2>1, <2>2 DEF Before
<1> QED
  BY <1>1, <1>2

THEOREM TypeCorrect == Spec => []TypeOK
<1>1. IInv => TypeOK
  <2> SUFFICES ASSUME IInv PROVE TypeOK
    OBVIOUS
  <2>1. \A i \in 1 .. Len(log) : log[i].tag \in {"OBS", "PROOF"}
    <3>1. \A r \in ObsRecords \cup ProofRecords : r.tag \in {"OBS", "PROOF"}
      BY DEF ObsRecords, ProofRecords
    <3> QED
      BY <3>1, ElementOfSeq DEF IInv, TypeInv
  <2>2. Len(calls) <= Budget /\ proved \in 0 .. Len(calls)
    BY EpisodeAssumption DEF IInv, TypeInv, CountInv
  <2> QED
    BY <2>1, <2>2 DEF IInv, TypeInv, TypeOK
<1> QED
  BY <1>1, Invariant, PTL

\* Every call of a live model has its oracle record before its result is shown,
\* numbered without a gap, wherever the episode fails (agent_loop.py:181).
THEOREM ObsCorrect == Spec => []ObsBeforeServe
<1>1. IInv => ObsBeforeServe
  <2> SUFFICES ASSUME IInv, Live PROVE ObsBeforeServe
    BY DEF ObsBeforeServe
  <2>1. PICK n \in Nat, m \in Nat : LogIs(n, m) /\ n >= call
    BY LogShape
  <2>2. /\ ObsAt(ep) = 1 .. n /\ Cardinality(ObsAt(ep)) = n
        /\ \A i \in 1 .. n : log[i].call = i - 1 /\ Before(ObsAt(ep), i) = i - 1
    <3>1. ObsAt(ep) = 1 .. n /\ \A i \in 1 .. n : log[i].call = i - 1
      BY <2>1, Positions
    <3>2. 1 \in Nat /\ 1 <= n + 1
      OBVIOUS
    <3>3. Cardinality(1 .. n) = n - 1 + 1 /\ \A i \in 1 .. n : Before(1 .. n, i) = i - 1
      BY <3>2, IntervalCounts
    <3>4. n - 1 + 1 = n
      OBVIOUS
    <3> QED
      BY <3>1, <3>3, <3>4
  <2>3. Len(shown) <= call /\ call \in Nat /\ Len(shown) \in Nat
    BY EpisodeAssumption DEF IInv, TypeInv, CountInv, ShownInv
  <2> QED
    BY <2>1, <2>2, <2>3 DEF ObsBeforeServe
<1> QED
  BY <1>1, Invariant, PTL

\* The serve events on the chain are those the model was shown, in their order.
THEOREM ProofsCorrect == Spec => []ProvedAsShown
<1>1. IInv => ProvedAsShown
  <2> SUFFICES ASSUME IInv, NEW i \in ProofsAt(ep)
               PROVE  /\ log[i].index = Before(ProofsAt(ep), i)
                      /\ log[i].index < Len(shown)
                      /\ log[i].event = shown[log[i].index + 1]
    BY DEF ProvedAsShown
  <2>1. PICK n \in Nat, m \in Nat : LogIs(n, m) /\ m <= Len(calls)
    BY LogShape
  <2>2. ProofsAt(ep) = n + 1 .. n + m
    BY <2>1, Positions
  <2>3. i \in n + 1 .. n + m /\ log[i] = Proof(i - n - 1, ServeEvent(sched, calls, i - n))
    BY <2>1, <2>2, Positions
  <2>4. /\ log[i].index = i - n - 1 /\ log[i].event = ServeEvent(sched, calls, i - n)
    BY <2>3 DEF Proof
  <2>5. Before(ProofsAt(ep), i) = i - (n + 1)
    <3>1. n + 1 \in Nat /\ n + m \in Nat /\ n + 1 <= (n + m) + 1
      OBVIOUS
    <3> QED
      BY <2>2, <2>3, <3>1, IntervalCounts
  <2>6. i - n \in 1 .. Len(calls) /\ log[i].index + 1 = i - n
    <3>1. Len(calls) \in Nat
      BY LenProperties DEF IInv, TypeInv
    <3>2. i \in n + 1 .. n + m /\ log[i].index = i - n - 1 /\ m <= Len(calls)
      BY <2>1, <2>3, <2>4
    <3> QED
      BY <3>1, <3>2
  <2>7. Len(shown) = Len(calls) /\ shown[i - n] = ServeEvent(sched, calls, i - n)
    BY <2>6 DEF IInv, ShownInv
  <2>8. log[i].index < Len(shown)
    BY <2>3, <2>4, <2>6, <2>7
  <2> QED
    BY <2>3, <2>4, <2>5, <2>6, <2>7, <2>8
<1> QED
  BY <1>1, Invariant, PTL

\* An episode that returns left one record for every step of its loop.
THEOREM DoneCorrect == Spec => []DoneIsComplete
<1>1. IInv => DoneIsComplete
  <2> SUFFICES ASSUME IInv, pc = "done" PROVE DoneIsComplete
    BY DEF DoneIsComplete
  <2>1. PICK n \in Nat, m \in Nat : LogIs(n, m) /\ n = Made /\ m = proved
    BY LogShape
  <2>2. /\ proved = Len(calls) /\ call \in Nat /\ Len(calls) \in Nat
        /\ call = Len(calls) + 1 \/ (call = Len(calls) /\ call = Budget)
    BY EpisodeAssumption DEF IInv, TypeInv, CountInv, Left
  <2>3. Cardinality(ProofsAt(ep)) = Len(calls)
    <3>1. n + 1 \in Nat /\ n + m \in Nat /\ n + 1 <= (n + m) + 1
      OBVIOUS
    <3>2. Cardinality(n + 1 .. n + m) = m
      BY <3>1, IntervalCounts
    <3> QED
      BY <2>1, <2>2, <3>2, Positions
  <2>4. Live => /\ Cardinality(ObsAt(ep)) = call
                /\ call - Len(calls) \in {0, 1}
                /\ call > Len(calls) \/ call = Budget
    <3>1. Cardinality(ObsAt(ep)) = n
      <4>1. ObsAt(ep) = 1 .. n
        BY <2>1, Positions
      <4>2. 1 \in Nat /\ 1 <= n + 1
        OBVIOUS
      <4>3. Cardinality(1 .. n) = n - 1 + 1
        BY <4>2, IntervalCounts
      <4>4. n - 1 + 1 = n
        OBVIOUS
      <4> QED
        BY <4>1, <4>3, <4>4
    <3> QED
      BY <2>1, <2>2, <3>1 DEF Made
  <2>5. source = "gateway" =>
          /\ RecordedExchanges = RunnerExchanges
          /\ \A i \in ObsAt(ep) : log[i].call + 1 < call => log[i].xch # 0
          /\ Cardinality(RunnerExchanges) \in {call - 1, call}
    <3>1. RecordedExchanges = RunnerExchanges
      BY DEF IInv, ExchangeInv, Pending
    <3>2. \A i \in ObsAt(ep) : i \in 1 .. Len(log) /\ log[i].tag = "OBS"
      BY DEF ObsAt, IsObs
    <3>3. Left
      BY DEF Left
    <3> QED
      BY <3>1, <3>2, <3>3 DEF IInv, ServedInv
  <2> QED
    BY <2>3, <2>4, <2>5 DEF DoneIsComplete
<1> QED
  BY <1>1, Invariant, PTL

\* However the episode fails, at most one exchange of the gateway is missing.
THEOREM UnrecordedCorrect == Spec => []OneCallUnrecorded
<1>1. IInv => OneCallUnrecorded
  <2> SUFFICES ASSUME IInv PROVE OneCallUnrecorded
    OBVIOUS
  <2>1. RecordedExchanges \subseteq RunnerExchanges
    BY DEF IInv, ExchangeInv
  <2>2. \E x : RunnerExchanges \subseteq RecordedExchanges \cup {x}
    <3>1. CASE pc = "raised"
      BY <3>1 DEF IInv, ExchangeInv
    <3>2. CASE pc # "raised"
      <4>1. RunnerExchanges = RecordedExchanges \cup Pending
        BY <3>2 DEF IInv, ExchangeInv
      <4>2. \E x : Pending \subseteq {x}
        BY DEF Pending
      <4> QED
        BY <4>1, <4>2
    <3> QED
      BY <3>1, <3>2
  <2>3. IsFiniteSet(RunnerExchanges)
    BY RunnerFinite DEF IInv
  <2>4. IsFiniteSet(RecordedExchanges)
    BY <2>1, <2>3, FS_Subset
  <2>5. PICK x : RunnerExchanges \subseteq RecordedExchanges \cup {x}
    BY <2>2
  <2>6. /\ IsFiniteSet(RecordedExchanges \cup {x})
        /\ Cardinality(RecordedExchanges \cup {x}) =
             IF x \in RecordedExchanges THEN Cardinality(RecordedExchanges)
             ELSE Cardinality(RecordedExchanges) + 1
    BY <2>4, FS_AddElement
  <2>7. Cardinality(RunnerExchanges) <= Cardinality(RecordedExchanges \cup {x})
    BY <2>5, <2>6, FS_Subset
  <2>8. Cardinality(RecordedExchanges) \in Nat /\ Cardinality(RunnerExchanges) \in Nat
    BY <2>3, <2>4, FS_CardinalityType
  <2> QED
    BY <2>1, <2>6, <2>7, <2>8 DEF OneCallUnrecorded
<1> QED
  BY <1>1, Invariant, PTL

\* With a gateway whose framed responses always report: the record of a framed
\* response names its own exchange; that of an unframed one is the last of its
\* episode and has the snapshot of the record before (agent_loop.py:203).
THEOREM NamesCorrect ==
  ASSUME AllReported
  PROVE  Spec => []ObsNamesLastReported
<1>1. IInv => ObsNamesLastReported
  <2> SUFFICES ASSUME IInv, source = "gateway", NEW i \in ObsAt(ep)
               PROVE  IF log[i].seq # NoSeq
                      THEN log[i].seq = log[i].xch /\ log[i].snap = gw[log[i].xch].snap
                      ELSE /\ \A k \in ObsAt(ep) : k <= i
                           /\ log[i].snap = IF i - 1 \in ObsAt(ep)
                                            THEN log[i - 1].snap ELSE NoSnap
    BY DEF ObsNamesLastReported
  <2>1. NamesInv /\ StaleInv
    BY DEF IInv
  <2>2. PICK n, m \in Nat : LogIs(n, m)
    BY LogShape
  <2>3. ObsAt(ep) = 1 .. n /\ Len(log) = n + m
    BY <2>2, Positions DEF LogIs
  <2>4. i \in 1 .. Len(log) /\ log[i].tag = "OBS"
        /\ \A k \in ObsAt(ep) : k \in 1 .. Len(log) /\ log[k].tag = "OBS"
    BY DEF ObsAt, IsObs
  <2>5. CASE log[i].seq # NoSeq
    BY <2>1, <2>4, <2>5 DEF NamesInv, Names
  <2>6. CASE log[i].seq = NoSeq
    <3>1. /\ \A k \in ObsAt(ep) : k <= i
          /\ log[i].snap = IF i = 1 THEN NoSnap ELSE log[i - 1].snap
      BY <2>1, <2>4, <2>6 DEF StaleInv
    <3>2. i - 1 \in ObsAt(ep) <=> i # 1
      BY <2>3
    <3> QED
      BY <2>6, <3>1, <3>2
  <2> QED
    BY <2>5, <2>6
<1> QED
  BY <1>1, Invariant, PTL
=============================================================================
