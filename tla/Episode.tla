------------------------------ MODULE Episode ------------------------------
(***************************************************************************)
(* One episode: run_episode of runner/agent_loop.py with its adapter       *)
(* (runner/adapters.py), the oracle records it commits (runner/oracle.py), *)
(* the environment that answers (ServeMapping) and, for the gateway        *)
(* adapter, the gateway on the other side of the socket.                   *)
(*                                                                         *)
(* Abstractions.                                                           *)
(*  - The evidence chain is the log EvidenceChain implements: an append    *)
(*    that returns adds a record; one that raises leaves the record        *)
(*    behind (fsync failed), or nothing, or torn bytes that make the file  *)
(*    unreadable.                                                          *)
(*  - request_hash and response_hash identify the exchange they hash: an   *)
(*    OBS record carries the position of its exchange in the gateway's own *)
(*    chain, which is what those hashes let a reader find out.             *)
(*  - Output that is not a call of the vocabulary, a refusal and "stop"    *)
(*    are one case: the adapter stops.                                     *)
(*  - The canary is in module Canary; here only whether it can be computed.*)
(***************************************************************************)
EXTENDS ServeMapping, SequencesExt

CONSTANTS
  Sources,       \* the kinds of adapter: adapter.source
  Budget,        \* CALL_BUDGET
  Snapshots,     \* model snapshot ids a gateway or a model file may have
  Reports,       \* which header fields a framed gateway response may carry
  Undecodable,   \* calls whose stored target is no longer UTF-8 text
  MaxOthers,     \* bound of the model: exchanges of the gateway's other clients
  EpisodeIds     \* episode_id arguments

NoSeq == 0          \* X_SEQ_NONE, and a last_seq that is None
NoSnap == "zeros"   \* 32 zero bytes, and a last_snapshot_id that is None
Stop == "stop"      \* no call in the output

ASSUME EpisodeAssumption ==
  /\ Sources \subseteq {"scripted", "local", "gateway"}
  /\ Budget \in Nat \ {0}
  /\ Reports \subseteq SUBSET {"seq", "snapshot_id"}
  /\ Undecodable \subseteq Calls
  /\ MaxOthers \in Nat
  /\ EpisodeIds \subseteq Nat
  /\ Stop \notin Calls
  /\ NoSnap \notin Snapshots

VARIABLES
  log,      \* the records of the evidence chain
  torn,     \* TRUE once an append left torn bytes in the file
  gw,       \* the gateway's own chain: the exchanges it served, all clients
  pc,       \* where run_episode is
  source,   \* adapter.source
  ep,       \* episode_id
  sched,    \* episode.schedule
  call,     \* call_index
  calls,    \* the calls made so far
  shown,    \* the results the model has been shown, as serve events
  wire,     \* the gateway's response, on the socket
  dec,      \* the Decision of the current step
  last,     \* the adapter's last_seq and last_snapshot_id
  seqs,     \* result.gateway_seqs
  proved    \* how many PROOF records of the episode were appended

vars == <<log, torn, gw, pc, source, ep, sched, call, calls, shown, wire, dec, last,
          seqs, proved>>
args == <<source, ep, sched>>
chain == <<log, torn>>

Live == source \in {"local", "gateway"}

Steps == {"ask",      \* top of the loop
          "waiting",  \* in adapter.step, request sent
          "answered", \* in adapter.step, response on the socket
          "commit",   \* a Decision is back, no oracle record yet
          "serve",    \* recorded, to be answered
          "finish",   \* loop left: final serve pass and immunity gate
          "prove",    \* appending the serve events
          "done", "raised"}

Over == pc \in {"done", "raised"}

Decisions == [out : Calls \cup {Stop}, seq : Nat, xch : Nat]
NoDecision == [out |-> Stop, seq |-> NoSeq, xch |-> 0]
Wires == [framed : BOOLEAN, seq : Nat, snap : Snapshots \cup {NoSnap},
          out : Calls \cup {Stop}, xch : Nat]
\* Bytes without an empty line; they come from exchange x, or from none.
Unframed(x) ==
  [framed |-> FALSE, seq |-> NoSeq, snap |-> NoSnap, out |-> Stop, xch |-> x]
NoWire == Unframed(0)

Obs(c, s, m, x) ==
  [tag |-> "OBS", ep |-> ep, call |-> c, seq |-> s, snap |-> m, xch |-> x]
\* A serve event names no episode; "of" is the episode it came from, which a
\* reader of the chain does not see.
Proof(i, ev) == [tag |-> "PROOF", index |-> i, event |-> ev, of |-> ep]

\* EvidenceChain.append returned, and EvidenceChain.append raised.
Appended(rec) == log' = Append(log, rec) /\ UNCHANGED torn
AppendRaised(rec) ==
  \/ log' = Append(log, rec) /\ UNCHANGED torn
  \/ log' = log /\ torn' \in {torn, TRUE}
-----------------------------------------------------------------------------
\* run_episode is entered with a new adapter and an empty result.  A local
\* adapter knows its model file; a gateway adapter has seen no response.
FreshAdapter(src) ==
  IF src = "local"
  THEN {[seq |-> NoSeq, snap |-> m] : m \in Snapshots}
  ELSE {[seq |-> NoSeq, snap |-> NoSnap]}

Enter(src, e, s) ==
  /\ source' = src
  /\ ep' = e
  /\ sched' = s
  /\ pc' = "ask"
  /\ call' = 0
  /\ calls' = <<>>
  /\ shown' = <<>>
  /\ wire' = NoWire
  /\ dec' = NoDecision
  /\ last' \in FreshAdapter(src)
  /\ seqs' = <<>>
  /\ proved' = 0

Init ==
  /\ log = <<>>
  /\ torn = FALSE
  /\ gw = <<>>
  /\ source \in Sources
  /\ ep \in EpisodeIds
  /\ sched \in Schedules
  /\ pc = "ask"
  /\ call = 0
  /\ calls = <<>>
  /\ shown = <<>>
  /\ wire = NoWire
  /\ dec = NoDecision
  /\ last \in FreshAdapter(source)
  /\ seqs = <<>>
  /\ proved = 0

\* GatewayAdapter.step writes the request to the socket.
Send ==
  /\ pc = "ask"
  /\ source = "gateway"
  /\ pc' = "waiting"
  /\ UNCHANGED <<chain, args, gw, call, calls, shown, wire, dec, last, seqs, proved>>

\* The gateway runs the model, commits the exchange to its own chain and then
\* answers: a framed response with some of the header fields, or bytes with
\* no empty line in them, cut short or none.
GatewayAnswers ==
  /\ pc = "waiting"
  /\ \E m \in Snapshots, out \in Calls \cup {Stop} :
       /\ gw' = Append(gw, [client |-> "runner", ep |-> ep, snap |-> m])
       /\ \/ \E fields \in Reports :
               wire' = [framed |-> TRUE,
                        seq |-> IF "seq" \in fields THEN Len(gw) + 1 ELSE NoSeq,
                        snap |-> IF "snapshot_id" \in fields THEN m ELSE NoSnap,
                        out |-> out,
                        xch |-> Len(gw) + 1]
          \/ wire' = Unframed(Len(gw) + 1)
  /\ pc' = "answered"
  /\ UNCHANGED <<chain, args, call, calls, shown, dec, last, seqs, proved>>

\* The gateway closes the connection and has served nothing.
GatewayCloses ==
  /\ pc = "waiting"
  /\ wire' = NoWire
  /\ pc' = "answered"
  /\ UNCHANGED <<chain, args, gw, call, calls, shown, dec, last, seqs, proved>>

\* Another client of the same gateway is served.
OtherClient ==
  /\ source = "gateway"
  /\ ~Over
  /\ Cardinality({i \in 1 .. Len(gw) : gw[i].client = "other"}) < MaxOthers
  /\ \E m \in Snapshots :
       gw' = Append(gw, [client |-> "other", ep |-> 0, snap |-> m])
  /\ UNCHANGED <<chain, args, pc, call, calls, shown, wire, dec, last, seqs, proved>>

\* recv returned no bytes: the response is all there.  Faulty variant: the
\* adapter goes on reading until it has seen the empty line.
ReceivedFramed == pc = "answered" /\ wire.framed
Received == pc = "answered"

\* GatewayAdapter.step parses the response.  A header field that is absent
\* leaves the attribute of an earlier call in place, and the Decision takes
\* last_seq; a response without an empty line is a stop with no seq.
Receive ==
  /\ Received
  /\ IF wire.framed
     THEN LET seq == IF wire.seq = NoSeq THEN last.seq ELSE wire.seq
              snap == IF wire.snap = NoSnap THEN last.snap ELSE wire.snap
          IN  /\ last' = [seq |-> seq, snap |-> snap]
              /\ dec' = [out |-> wire.out, seq |-> seq, xch |-> wire.xch]
     ELSE /\ dec' = [out |-> Stop, seq |-> NoSeq, xch |-> wire.xch]
          /\ UNCHANGED last
  /\ pc' = "commit"
  /\ wire' = NoWire
  /\ UNCHANGED <<chain, args, gw, call, calls, shown, seqs, proved>>

\* LocalAdapter.step and ScriptedAdapter.step: a Decision without a socket.
LocalStep ==
  /\ pc = "ask"
  /\ source # "gateway"
  /\ \E out \in Calls \cup {Stop} :
       dec' = [out |-> out, seq |-> NoSeq, xch |-> 0]
  /\ pc' = "commit"
  /\ UNCHANGED <<chain, args, gw, call, calls, shown, wire, last, seqs, proved>>

\* adapter.step raises: no gateway at the path, a reset connection, a header
\* that is not UTF-8, a model backend that fails.
StepRaises ==
  /\ pc \in {"ask", "waiting", "answered"}
  /\ Live
  /\ pc' = "raised"
  /\ UNCHANGED <<chain, args, gw, call, calls, shown, wire, dec, last, seqs, proved>>

\* serve_stream or the rendering of a result raises, in the loop or in the final
\* pass, for any adapter: the calls and turns of the result are lost with it.
ServeRaises ==
  /\ pc \in {"serve", "finish"}
  /\ pc' = "raised"
  /\ UNCHANGED <<chain, args, gw, call, calls, shown, wire, dec, last, seqs, proved>>

\* The record of this call.  Faulty variant: the runner counts the exchanges
\* of the gateway itself.
ThisObsCounted == Obs(call, call + 1, last.snap, dec.xch)
ThisObs == Obs(call, dec.seq, last.snap, dec.xch)

\* Which calls get a record: those that crossed the oracle boundary.  Faulty
\* variants: only those with a gateway seq, only those of a local model.
RecordedIfSeq == dec.seq # NoSeq
RecordedIfLocal == source = "local"
Recorded == Live

\* A live adapter's call is recorded before its result is served; then the
\* loop is left if the adapter stopped.
CommitObs ==
  /\ pc = "commit"
  /\ IF Recorded THEN Appended(ThisObs) ELSE UNCHANGED chain
  /\ call' = call + 1
  /\ pc' = IF dec.out = Stop THEN "finish" ELSE "serve"
  /\ UNCHANGED <<args, gw, calls, shown, wire, dec, last, seqs, proved>>

CommitRaises ==
  /\ pc = "commit"
  /\ Recorded
  /\ AppendRaised(ThisObs)
  /\ pc' = "raised"
  /\ UNCHANGED <<args, gw, call, calls, shown, wire, dec, last, seqs, proved>>

\* The event shown for the last call of a stream.  Faulty variant: the call is
\* served alone, without those before it.
ServedAlone(stream) == Last(ServeStream(sched, <<Last(stream)>>))
Served(stream) == Last(ServeStream(sched, stream))

\* CALL_BUDGET steps were taken.  Faulty variant: one step too many.
ExhaustedLate == call > Budget
Exhausted == call = Budget

\* The call joins the stream, the whole stream is served again and its last
\* event is rendered for the model.
ServeCall ==
  /\ pc = "serve"
  /\ calls' = Append(calls, dec.out)
  /\ shown' = Append(shown, Served(calls'))
  /\ seqs' = IF last.seq = NoSeq THEN seqs ELSE Append(seqs, last.seq)
  /\ pc' = IF Exhausted THEN "finish" ELSE "ask"
  /\ UNCHANGED <<chain, args, gw, call, wire, dec, last, proved>>

\* Final serve pass over the stream, then the immunity gate.
Finish ==
  /\ pc = "finish"
  /\ pc' = IF Immune(ServeStream(sched, calls)) THEN "prove" ELSE "raised"
  /\ UNCHANGED <<chain, args, gw, call, calls, shown, wire, dec, last, seqs, proved>>

NextProof == Proof(proved, ServeStream(sched, calls)[proved + 1])

\* One serve event of the final pass is appended.
Prove ==
  /\ pc = "prove"
  /\ proved < Len(calls)
  /\ Appended(NextProof)
  /\ proved' = proved + 1
  /\ UNCHANGED <<args, gw, pc, call, calls, shown, wire, dec, last, seqs>>

ProveRaises ==
  /\ pc = "prove"
  /\ proved < Len(calls)
  /\ AppendRaised(NextProof)
  /\ pc' = "raised"
  /\ UNCHANGED <<args, gw, call, calls, shown, wire, dec, last, seqs, proved>>

\* Every event is on the chain.  Faulty variant: all but the last one.
AllButOneProved == proved + 1 >= Len(calls)
AllProved == proved = Len(calls)

\* The canary decodes every target of the stream and the result is returned.
Complete ==
  /\ pc = "prove"
  /\ AllProved
  /\ pc' = IF \E i \in 1 .. Len(calls) : calls[i] \in Undecodable
           THEN "raised" ELSE "done"
  /\ UNCHANGED <<chain, args, gw, call, calls, shown, wire, dec, last, seqs, proved>>

\* What run_episode does by itself, what its environment does, what fails.
Runs == Send \/ Receive \/ LocalStep \/ CommitObs \/ ServeCall \/ Finish
          \/ Prove \/ Complete
Fails == StepRaises \/ ServeRaises \/ CommitRaises \/ ProveRaises
Gateway == GatewayAnswers \/ GatewayCloses \/ OtherClient

Next == Runs \/ Fails \/ Gateway

\* run_episode is one thread that never yields; the gateway answers the
\* request it has, or closes the connection (the socket has no timeout:
\* without that, nothing moves).
Fairness == WF_vars(Runs) /\ WF_vars(GatewayAnswers \/ GatewayCloses)
Spec == Init /\ [][Next]_vars /\ Fairness
-----------------------------------------------------------------------------
IsObs(r, e) == r.tag = "OBS" /\ r.ep = e
IsProof(r, e) == r.tag = "PROOF" /\ r.of = e
ObsAt(e) == {i \in 1 .. Len(log) : IsObs(log[i], e)}
ProofsAt(e) == {i \in 1 .. Len(log) : IsProof(log[i], e)}
\* How many of the positions S are before position i.
Before(S, i) == Cardinality({k \in S : k < i})
RunnerExchanges == {i \in 1 .. Len(gw) : gw[i].client = "runner" /\ gw[i].ep = ep}
RecordedExchanges == {log[i].xch : i \in ObsAt(ep)} \ {0}

\* The type invariant.
TypeOK ==
  /\ \A i \in 1 .. Len(log) : log[i].tag \in {"OBS", "PROOF"}
  /\ torn \in BOOLEAN
  /\ source \in Sources
  /\ pc \in Steps
  /\ ep \in EpisodeIds
  /\ sched \in Schedules
  /\ call \in 0 .. Budget
  /\ calls \in Seq(Calls) /\ Len(calls) <= Budget
  /\ shown \in Seq(Events)
  /\ wire \in Wires
  /\ dec \in Decisions
  /\ last \in [seq : Nat, snap : Snapshots \cup {NoSnap}]
  /\ seqs \in Seq(Nat)
  /\ proved \in 0 .. Len(calls)

\* "every model call commits one AX:OBS:v1 record before its result is served"
\* (agent_loop.py:181): the results shown to the model are at most as many
\* as the oracle records, which number the calls 0, 1, 2 ... without a gap.
ObsBeforeServe ==
  Live =>
    /\ \A i \in ObsAt(ep) : log[i].call = Before(ObsAt(ep), i)
    /\ Len(shown) <= Cardinality(ObsAt(ep))

\* The events on the chain, computed by one pass over the finished stream,
\* are those the model was shown call by call while the stream was growing.
ProvedAsShown ==
  \A i \in ProofsAt(ep) :
    /\ log[i].index = Before(ProofsAt(ep), i)
    /\ log[i].index < Len(shown)
    /\ log[i].event = shown[log[i].index + 1]

\* An episode that returns has a record for every step of its loop: one
\* oracle record per call and for the stop, one serve event per call, and
\* every exchange the gateway served to it is in exactly one of them; only the
\* last record may be of a connection that served nothing.
DoneIsComplete ==
  pc = "done" =>
    /\ Cardinality(ProofsAt(ep)) = Len(calls)
    /\ Live => /\ Cardinality(ObsAt(ep)) = call
               /\ call - Len(calls) \in {0, 1}
               /\ call > Len(calls) \/ call = Budget
    /\ source = "gateway" =>
         /\ RecordedExchanges = RunnerExchanges
         /\ \A i \in ObsAt(ep) : log[i].call + 1 < call => log[i].xch # 0
         /\ Cardinality(RunnerExchanges) \in {call - 1, call}

\* However the episode fails, at most one exchange the gateway has on its
\* chain is missing from the runner's: the call in progress.
OneCallUnrecorded ==
  /\ RecordedExchanges \subseteq RunnerExchanges
  /\ source = "gateway" =>
       Cardinality(RunnerExchanges) <= Cardinality(RecordedExchanges) + 1

\* "Its own chain's seq for this call" (adapters.py:32): the gateway seq and the
\* snapshot that the oracle record of an exchange names are those of that
\* exchange.  A header field that is absent, or a response that is not framed,
\* leaves the value of an earlier one.
ObsNamesItsCall ==
  \A i \in ObsAt(ep) :
    LET r == log[i] IN
      source = "gateway" /\ r.xch # 0 =>
        r.seq \in {NoSeq, r.xch} /\ r.snap \in {NoSnap, gw[r.xch].snap}

\* What every oracle record of a gateway that always reports does name.  One
\* with a seq names the exchange it hashes and the snapshot that served it.  One
\* without a seq is of a response that was not framed (adapters.py:186-189), and
\* agent_loop.py:203 gives it the snapshot of the exchange before, which need
\* not be its own: it is the episode's last record, so that at most one record
\* of an episode has a stale snapshot, and a reader can tell which.
ObsNamesLastReported ==
  source = "gateway" =>
    \A i \in ObsAt(ep) :
      LET r == log[i] IN
        IF r.seq # NoSeq
        THEN r.seq = r.xch /\ r.snap = gw[r.xch].snap
        ELSE /\ \A k \in ObsAt(ep) : k <= i
             /\ r.snap = IF i - 1 \in ObsAt(ep) THEN log[i - 1].snap ELSE NoSnap

\* Every episode returns or raises, if the gateway answers.
Terminates == <>Over
=============================================================================
