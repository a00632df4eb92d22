# exp1-runner: specifications, model checking and proofs

TLA+ modules that model the core of `src/runner`, TLC configurations that
check them on small instances, and theorems that the TLA+ proof system checks for
every value of the constants: every safety property of a passing run is one. `PROJECT.json` lists
the runs, the mutants, the source lines each definition stands for, the
hazards and the theorems. A comment above each property says what it is about.

## 1. The system

A Python harness runs a language model through tool-call episodes and leaves a
tamper-evident record of what happened. A C library (`librig.so`, not in the
repository) holds the frozen generators, the serve mapping, the redactor and
the scorer; Python drives it.

| part | state | operations | interacts with |
|---|---|---|---|
| evidence chain, `chain.py` | the file; per object: head, seq, descriptor offset | open (replay from genesis), append, close, `read_frames` | every part that records anything; several processes may hold one path |
| oracle records, `oracle.py` | none | build, parse, commit an AX:OBS payload | called by the agent loop before a result is served |
| adapters, `adapters.py` | gateway: `last_seq`, `last_snapshot_id`, `last_temperature`; scripted: position in its plan | `step(context)` | a gateway process over a Unix socket, with a chain and other clients of its own |
| agent loop, `agent_loop.py` | transcript, calls, call index | `run_episode`, `_compute_canary` | adapter, serve mapping, chain |
| serve mapping, `serve.py`, `mock_tools.py` | none; an episode holds a schedule and a predicate set | `serve_stream`, `immunity_check` | C library |
| cell driver, `cell.py` | position in the pairs, episode counter, seq noted after the plan | `run_cell` | chain, agent loop |
| replay verifier, `cell.py` | dictionaries over the records | `cell_replay_verify`, `replay_serve_events` | a written chain |
| witness, `detwitness.py` | none | `read_export`, `check_witness` | an exported gateway chain |
| workload determinism, `workload_determinism.py` | the note it writes | `run_check`, `main` | gateway |
| smoke run, `smoke_frontier.py` | per-episode snapshots and temperatures | `run_smoke` | agent loop without a chain |
| scoring, `scoring.py` | none | `judge_pair`, `score_cell` | episode results |
| redaction, `redact.py`, `redaction_gate.py` | none | `redact_turns`, the gates | C library |
| battery, `battery.py`; binding, `rig.py` | a pinned file; a library handle | load | import time only |

What makes the parts correct, and hard:

* **Chain.** An append writes, calls fsync and only then extends its state in
  memory. Between these steps a write can be short, fsync can raise, the
  machine can stop, and a second object can hold the same path. Acknowledged
  frames must survive all of it, and the head in memory must be the head of a
  replay.
* **Episode.** A model call must be on the record before its result is served;
  the events recorded after the loop, by one pass over the stream, must be those
  the model was shown, one pass per call; the numbers that identify the
  gateway's exchange must be those of this exchange. Any append and any adapter
  step may raise, and nobody catches it.
* **Cell.** The plan of a pair is committed before its calls, a reader of the
  chain can tell, and the failures served are those of the committed schedule,
  wherever the process dies.
* **Canary.** A label computed from an arbitrary stream of calls must mean what
  its description says.
* **Readers.** Three parsers read the same framed file with different bounds; what
  one writes the others must take, and what was changed none may.
* **Conduction.** The smoke run and the workload check draw a verdict about a
  backend that may change model or temperature between any two exchanges and may
  leave out what it reports. A clean exit must be worth what it says, and the
  note on disk must agree with the way the run ended, whatever raises.
* **Trials.** The advantage of a distinguisher is only a measurement if nothing
  but the model's own turns reaches it: redaction must hide the regime, the rungs
  must not follow the presentation order or the results served, and the counts
  must account for every pair.

There is no concurrency inside the runner. The interleavings are those with the
gateway and its other clients, with the machine and the file system, and between
objects on one file.

## 2. Modules

| module | models | extends / instantiates |
|---|---|---|
| `EvidenceLog` | what the chain promises: records are written, acknowledged, and only unacknowledged ones can be lost | |
| `EvidenceChain` | `EvidenceChain` of `chain.py` with several handles, failures and crashes | `EvidenceLog` as its abstract specification |
| `EvidenceChainProofs` | theorems about the chain, its refinement and its readers | `FrameReader` |
| `ServeMapping` | `serve_stream`, `immunity_check` (the C mapping is external, modelled from its use) | |
| `Episode` | `run_episode`, the adapters, the oracle records, the gateway | `ServeMapping` |
| `EpisodeProofs` | theorems about an episode | `Episode` |
| `CellVerify` | `cell_replay_verify` as an operator on records, and what it should establish | |
| `CellVerifyProofs` | lemmas: when the verifier accepts a log of any length | `CellVerify` |
| `Cell` | `run_cell`, composed with the episode on one chain | `CellVerify`, `Episode` |
| `CellProofs` | theorems about the chains `run_cell` leaves | `Cell`, `CellVerifyProofs` |
| `CellAudit` | chains the verifier may be given | `CellVerify` |
| `CellAuditProofs` | theorems about those | `CellAudit`, `CellVerifyProofs` |
| `Canary` | `_compute_canary` on every stream | |
| `Witness` | `check_witness` on exports and lists of calls, with the gateway and the runner they come from | |
| `WitnessProofs` | theorems about the verdicts | `Witness` |
| `FrameReader` | the opener, `read_frames` and `read_export` as readers of one file | `EvidenceChain` |
| `Backend` | what a response of the gateway reports, and what a tool leaves behind | |
| `Smoke` | `run_smoke` | `Backend` |
| `Workload` | `run_check` and `main` of the workload check | `Backend` |
| `Conduction` | one run of either tool | `Smoke`, `Workload` |
| `ConductionProofs` | theorems about both | `Conduction` |
| `Redaction` | `redact_turns` and the gate on twins | |
| `Scoring` | the rungs, the tie chain and the two walks of `score_cell` over it | `Redaction` |
| `Trials` | pairs of episodes, played, presented and scored | `ServeMapping`, `Scoring`, an instance of `Canary` |
| `TrialsProofs` | theorems about trials, and about the canary on its own | `Trials`, `Canary` |

The modules whose names begin with `MC` give the constants their values. A definition whose comment says *faulty variant* is used by no
specification: it is a plausible mistake in the definition below it, which one
of the properties must reject (`mutants` in `PROJECT.json`).

### EvidenceChain

`file` is a sequence of blocks, one per frame; a block knows how many of the
frame's five fields are complete. `synced` is how many blocks are known to be on
disk. Each handle has `st`, `head`, `seq` and its descriptor's offset `off`;
`pend` is the record inside `append`, between `os.write` and `os.fsync`.

| action | code |
|---|---|
| `Open`, `OpenRefused` | `__init__` and `_replay_open`, chain.py:81-134 |
| `AppendWrite`, then `AppendSync` or `AppendSyncError` | `append` up to the write, :136-150; fsync returns, :153-156; fsync raises |
| `AppendShortWrite` | :150-152, the write raises or takes a part |
| `Close`, `Crash` | :158-161; the machine stops |

`Exclusive` (one open handle on the path) and `StopOnError` (a handle is not used
again once `append` raised) are what callers do in this repository: each opens
one chain per path, and neither `run_episode` nor `run_cell` catches anything.
`chain.py` enforces neither. They are constants so that what each is worth can be
seen (section 5). Hashes are collision free: a head is the sequence of the records
folded into it. Frames have one size, so a stale offset overwrites exactly one
frame; the real frames vary, which makes what two handles do to each other worse,
not better. A crash may cut the unsynced tail anywhere but does not reorder it.

### Episode

`pc` is the position in `run_episode`. `log` is the abstract log of
`EvidenceChain`; an append that raises leaves the record, nothing, or torn bytes
(`torn`). `gw` is the gateway's chain: who made each exchange and under which
model snapshot. An oracle record holds `xch`, the exchange its request and
response hashes identify, so that "its own seq" can be compared with it.

| action | code |
|---|---|
| `Send`, `Receive` | `GatewayAdapter.step`, adapters.py:163-220 |
| `LocalStep` | `LocalAdapter.step`, `ScriptedAdapter.step` |
| `GatewayAnswers`, `GatewayCloses`, `OtherClient` | the gateway process (external); it commits an exchange before it answers |
| `StepRaises` | any exception out of `step` |
| `ServeRaises` | `serve_stream`, the rendering of a result or the final pass raises, :242-264 |
| `CommitObs`, `CommitRaises` | agent_loop.py:197-231 |
| `ServeCall` | :233-260 |
| `Finish`, `Prove`, `ProveRaises`, `Complete` | :262-275 |

Model output is a call or not; text, prompts and result bodies are left out, as
no control depends on them. A local adapter and the scripted one choose any call, which
includes the scripted plan.

Which exchange a record names is said twice. `ObsNamesItsCall` is what
adapters.py:31-32 says, for every record of an exchange: its seq and its snapshot
are those of the exchange or absent. It fails (run `episode_stale`).
`ObsNamesLastReported` is what is left of it when every framed response reports
both: a record with a seq names its own exchange; a record without one is of a
response that was not framed, which ends the episode, and carries the snapshot of
the record before, which need not be its own. So a reader can tell which record may have a
stale snapshot, and there is at most one per episode.

The canary is a module of its own; here
only that it decodes every target and can raise.

### Cell, CellVerify, CellAudit

`Cell` runs the actions of `Episode` (`EpisodeStep`) between `EnterEpisode` and
`EndEpisode`, with `CommitPlan` once per regime before. `Kill` may happen between
any two steps. `owner` is a history variable: the pair whose run wrote each
record, which serve events do not say; properties use it, actions do not.
`CellVerify!Verify` is `cell_replay_verify`: a number of pairs or `Raised`.
`CellAudit` feeds it every chain of six records, with the plan records of a pair
written together, or one by one and perhaps one of them only. Serve events carry
no pair; `VerifiedIsPlanned` is therefore stated of the oracle records alone, with
the pair the verifier itself counts them to. That the scripted form compares with
the first outcome of the whole chain, and so checks the first pair only, cannot be
told from the records, and its docstring says so.

### Canary

A call is the template's predicate call 0, predicate call 1, or another; the
stream grows call by call. `PredInOrder` is the list of predicate calls in arrival
order, kept as the set of their positions: its first is `Min`, its second the
`Min` of `Later`. `AsMandated` is what the docstring asks for. In REUSE_STALE the
plan of the scripted adapter makes one fetch and is labelled a shortcut, although
adapters.py:50-53 calls it always compliant; the model has that stream, and no
property speaks of the plan.

### Witness

`CallVerdict` is the chain of conditions of `check_witness` for one call, in the
code's order, and `Verdict` the worst of the calls. What they are worth depends on
where their arguments come from, so these are modelled too: `gw` is the
gateway's chain, `served` what was on the wire, `export` the file the checker
is given, `calls` the runner's list.

| action | code |
|---|---|
| `Exchange`, `OtherFrame` | the gateway (external) serves and commits; one that misreports commits any output |
| `Export` | what `read_export` returns (detwitness.py:110-155): the chain, a prefix of it, the chain with one output changed and framed again, or a refusal |
| `AddCall` | one entry of `calls` (:251-259), any two frames; a runner that misreports lists any bodies and any hash |

At most one party misreports, chosen in the initial state. Heads are the
sequences they hash, and the listed heads are those the gateway echoed. Oracle
records that do not parse are `Other`: a call that cites one has the same
verdict as one that cites any other frame.

`DeterministicWasServed` says of the two exchanges of a call that the gateway
recorded them for one input under one model at the pin, complete, with one body on
the wire (`OneSetting`). The code does not ask that they be two (detwitness.py:291): a
call that lists one exchange as both fires, and an empty list, are DETERMINISTIC in
the model as in the code.

### FrameReader

A record is a tag class and a size class, the classes the bounds tell apart; a
frame also says how many of its fields are complete and whether its commit
matches. `OpenerTakes`, `ReaderTakes` and `ExportTakes` are the guards of
`_replay_open` (chain.py:95-127), `read_frames` (:179-201) and `read_export`
(detwitness.py:121-151) for one frame. `ReadersAgree` ranges over every file the
chain leaves and over that file followed by one more complete frame of any
writer, sealed or damaged.

### Backend, Smoke, Workload, Conduction

An exchange is served by some snapshot at some temperature, a fresh choice each
time; a framed response reports it truly or leaves fields out, and may also come
without an empty line. A gateway that lies about what it served is outside these
modules (`Witness` has one). How a tool reads a header differs. The adapter, and so
the smoke run, keeps every value exactly (`parse_gateway_header`). `_fire_raw` decodes
with replacement characters, splits at every line boundary of Unicode and strips
(workload_determinism.py:69-72): fields that differ on the wire may read the same, or
as empty. The constant `ReadAs`, any map of headers to headers, stands for that; in
the runs "m1 " reads as "m1". `VerdictIsAttested` is about ids as they are read.

| action | code |
|---|---|
| `Start`, `StartRaises` | smoke_frontier.py:176-190, the tripwire and the templates |
| `Exchange`, `Unframed` | one step of `run_episode` with the poisoned renderer |
| `Check`, `CheckFails` | :215-247, `_check_isolation`, `_snapshot_of` |
| `Replay`, `Raises` | :249-268; any exception inside the try block |
| `Restore` | :287-288, the finally clause |
| `WriteNote`, `WriteNoteRaises` | :290-307, the note, then the failed precondition |
| `Capture` | workload_determinism.py:92-134, one call of the captured episode |
| `FireWorkload`, `FireBetween` | `_fire_raw` of the request, of the unrelated one |
| `CheckPair` | :228-231 and the same for the separated pair, :276-284 |
| `ArgsTaken`, `ArgsEnd` | :365-374, argparse: status 2, or 0 for `--help`, and no note |
| `Record`, `Halt` | `write_record`, :294-361; the note of a failed precondition, :379-388 |
| `Report` | :388-396, the summary is printed and the exit status given |
| `Escapes` | any other exception, at any step: status 1, or 120 if output cannot be flushed at exit; a print may raise after the note is complete |

`heard`, `clean` and `ran` are history variables: what the gateway reported in an
episode, where the sentinel was shown and not echoed, what really served a
fire. The two tools are processes of their own: `Conduction` runs one of them,
and says nothing of both at once.

### Redaction, Scoring, Trials

A turn's body is its lexicon hits, its words, its length and a name. `Redact`,
the rungs and `Judge` are operators on transcripts; `TiesAt` is the walk of
`score_cell` over the tie chain, `Judge` that of `judge_pair`. The turns a rung reads
are a set of positions, a sum over them is the size of a union of intervals
(`Total`), and rates are compared by cross-multiplication. `Trials` plays the PROD and the EVAL episode of a twin
(`Step`, `EpisodeEnds`; agent_loop.py:193-265 with `_render_result`), presents
them in either order and judges (`JudgePair`, scoring.py:246-262), or passes over
a pair that has no label (`PairWithoutLabel`). A model answers any decision in
either regime, so that its two episodes may differ in anything it wrote; the
scripted agent walks one plan. A result carries the failure and the padding of
its slot and regime, so a rung that read one would see the schedule. The failure
channel of a twin is the same in both regimes (tests/test_rig.py:27-32); the padding is
not.

## 3. Runs

| run | question and bounds | result |
|---|---|---|
| `chain_exclusive` | Do acknowledged frames survive every failure, and do the three readers agree on what is left? Two handles in turn, a record under and one over the witness's bound, three frames: enough for an open after a crash after an append, by another handle, and for a torn frame with whole ones before it. Handles are symmetric, and all properties are safety. | passes |
| `episode_all` | Is an episode's record complete and true? All adapters, two calls of which one is a predicate call, two slots and three steps (so that calls run past the schedule), two snapshots and one exchange of another client. | passes |
| `episode_stale` | a gateway that omits header fields: `ObsNamesItsCall` | violated |
| `cell_once` | Does the chain of one cell verify wherever it stops? Two pairs with different schedules, episodes of up to two steps, all adapters. Predicate calls are left to `episode_all`. | passes |
| `audit_any` | What does an accepting verifier establish on live chains? Two pairs, chains of six records. | passes |
| `audit_half` | and what it should: `VerifiedIsPlanned`, with the plan records of a pair written one by one | violated |
| `canary_all` | What does a compliant label guarantee? Streams of seven calls: each predicate call can come three times with a filler. | passes |
| `canary_order` | and what it should: `CanaryIsMandated` | violated |
| `witness_all` | What does each verdict establish about what was served? Two requests, two bodies, two models; two frames and two calls: every way two fires can differ in one field, stale and changed exports, and two calls with different verdicts. No property relates more than two frames. | passes |
| `conduction_all` | What are a clean smoke run and a verdict of the workload check worth, and does the note agree with the end? Two named snapshots, one more that the workload check reads as the first, and an empty one; two temperatures, every subset of the header, two outputs. Two contexts captured, four fires. Three episodes of up to two exchanges: one more than the replay uses, and a change of model within an episode, between episodes, within a pair of fires and between the pairs. The code's four episodes are treated alike. | passes |
| `workload_pairs` | and is a DETERMINISTIC backend one that gives a request one output: `DeterministicIsOneOutput`, with a backend of one snapshot that always reports | violated |
| `trials_all` | Does anything but the model's own turns reach the score? Two pairs, two steps per episode, three texts (no hit, a hit, a longer one) with three calls, so that every rung decides some pair and every rung ties on some; a failure in the first slot, which a twin shares, and padding that differs by regime; a label for both pairs or for one. Properties of one pair are asked in both orders. | passes |

Where a cfg says `CHECK_DEADLOCK FALSE` the system ends: an episode or cell
returns, or the bounded input is complete.

What the violated runs show, each with the sentence of the repository it
contradicts in `PROJECT.json`:

* `episode_stale`: a response without `seq` is recorded under the seq of an
  earlier exchange. The snapshot goes the same way, and also into the record of a
  response that is not framed.
* `audit_half`: the plan record of one regime, then an oracle record of the pair:
  accepted, and the pair counted as verified. The verifier keeps the first and the
  last plan record of a pair and never asks for both regimes.
* `canary_order`: predicate calls are looked up in arrival order, so the acting
  call before the mandated one is compliant. The same lookup makes a repeated
  mandated call a shortcut and, in REUSE_STALE, two writes before a single fetch
  compliant.
* `workload_pairs`: the bodies are compared within the back-to-back pair and within
  the separated pair; a backend that answers o1, o1, o2, o2 under one snapshot is
  DETERMINISTIC with exit status 0.

Two more facts about the callers' discipline can be seen by changing a constant of
a run that passes. With two handles open at once (`Exclusive = FALSE`) each
writes at its own offset, without a lock or `O_APPEND`, and TLC finds
`AppendOnly` violated; with a handle used again after an append raised
(`StopOnError = FALSE`) it finds `HeadIsReplay` violated, since after a failed
fsync the frame is in the file and not in `head` and `seq`. A second call of
`run_cell` on the chain of an earlier one is refused by the verifier, because
episode ids restart at 0 while the verifier counts pairs over the whole chain.

## 4. Fairness

`Terminates` and `CellEnds` assume weak fairness of the runner's own steps, one
thread that never waits for anything but the gateway, and of
`GatewayAnswers \/ GatewayCloses`. The second is an assumption about the gateway, not something the code ensures:
`recv` has no timeout (adapters.py:176), and a gateway that keeps the connection
open blocks the episode for ever. No failure is fair: an episode need not fail in
order to end. The chain has no liveness property: every call on it is the
caller's choice. `ConductionEnds` assumes the same of the two tools: weak fairness
of their own steps and of the answers of the gateway, of no failure. A model may
answer with a call for ever; the call budget ends the episode.

## 5. Proofs

Every type invariant, every other invariant and every action property of a passing
run, and the refinement, is a theorem `Spec => []P` (or `Spec => P`) for every value
of the constants that satisfies the assumptions named in the modules. No bound of a
run occurs in a theorem but as an arbitrary number. `PROJECT.json` lists them. What
is assumed beyond the modules is written in the statement:

| theorems | hypothesis | why |
|---|---|---|
| of `EvidenceChainProofs`, except `TypeCorrect` | `Exclusive /\ StopOnError` | the callers' discipline; neither can be dropped (end of section 3) |
| `NamesCorrect` of `EpisodeProofs` | every framed response reports seq and snapshot | run `episode_stale` shows that records name other exchanges otherwise |
| `ExactVerdictCorrect` of `ConductionProofs` | every header reads as it was sent | `_fire_raw` does not ensure it; in `conduction_all` a verdict is drawn over "m1" and "m1 " |
| `VerifierCorrect`, `FirstCorrect` of `CellProofs` | `MaxRuns <= 1` | a second `run_cell` on a chain restarts episode ids, and is refused |

Few of the properties are inductive. What each proof adds:

**Chain.** A handle inside `append` has written its frame and not yet extended its
head, so what is preserved is a relation that holds before, during and after the
call: at most one handle has a descriptor (`OneDescriptor`), every block but the last
is whole (`TornAtEnd`), `acked <= synced <= Len(file)` (`AckedSynced`), the offset of
a descriptor is the end of the file (`AtEnd`), and per handle `IdleAgrees` and
`WritingAgrees`: an idle handle's head and seq are those of the file, inside an
append they will be, once the pending record is added. The refinement maps the file
to its records without a torn last block: `AppendWrite` is `Write`, `AppendSync` is
`Acknowledge`, `Crash` is `Lose`, the rest stutter. `ReadersCorrect` follows from
`TornAtEnd`: of a frame that `append` wrote, each reader asks only whether it is
whole (`TakesWhole`), of any other frame each takes no more than the next
(`TakesNest`).

**Episode.** The log is at every step the oracle records so far, then the first
`proved` serve events, and after an append that raised perhaps one record more
(`LogInv`). `ShownInv` says that each result shown was that of the stream at its
time; since a serve event depends on the prefix of its stream only
(`ServeEventStable`), the pass after the loop computes the same events. `ExchangeInv`
counts the gateway's exchanges: those in records and the one in progress
(`Pending`); a failure can lose that one. `ServedInv` and `NamesInv` tie an oracle
record to its exchange; `StaleInv` says which snapshot the adapter still holds, from
which that of a record without a seq.

**Cell.** For any number of calls of `run_cell`: a plan record says what was committed
(`PlansTrue`), episodes start when both plan records are there (`PlannedInv`), and the
last records of the log are the serve events of the episode in progress (`TailInv`).
For one call, the pairs write in the order of their list (`OwnersInOrder`), each
pair's plans precede its outcomes (`PlansLead`), and episode ids count two a pair
(`EpisodesCount`): the hypotheses of `LiveAcceptsWhen` and `ScriptedAcceptsWhen`,
which say, without the first and last positions the code computes, when
`cell_replay_verify` accepts.

**CellAudit.** Each plan of a pair and regime is there once, and pairs start in their
order (`OnePlanEach`, `OrderInv`), from which a pair's index in `pair_order` is its
place in the list; then `LiveAcceptsWhen` again.

**Witness.** Whatever was listed, the heads are those the gateway echoed
(`CallsTrue`), and a gateway that does not misreport attests what it served
(`GatewayHonest`); the rest is the chain of conditions of `check_witness`, one
verdict at a time.

**Conduction.** The smoke run: the adapter's attributes are what was heard in this
episode (`HeardIsLast`), the two sets hold every checked episode
(`CheckedIsCollected`). The workload check: a header that was
read is what `ReadAs` makes of a report of the serving (`HeaderIsRead`), a pair that
was passed is attested (`PairsAttested`), a halt has a reason (`HaltHasReason`), and
of a run that is over the note and the exit status go together (`NoteAndStatus`, `ExitIsNoted`).
`VerdictCorrect` holds for any `ReadAs`, and is about ids as read.
`ExactVerdictCorrect` adds that one named snapshot served all fires, where `ReadAs`
is the identity.

**Trials.** A step is three turns (`TurnsInv`), and the scripted EVAL episode repeats
its PROD episode turn by turn (`ScriptInv`); both redact the same. `SameSurface`: the
rungs read assistant turns only. `RungsSwapped`: the rungs, given a pair the other way
round, give the other side, from which `OrderCorrect`; it needs that sums of numbers
are numbers (`TotalIsNat`). `CountInv` counts what `JudgeTies` says of one pair.

**Canary.** In `TrialsProofs` too, which extends both modules. A later call adds a position after all others, which leaves the
first and the second of a nonempty set alone (`MinStays`): a compliant label stays.

TLC checked each inductive invariant on the constants of the component's run before
it was proved.

Only model-checked: `Terminates`, `CellEnds` and `ConductionEnds`, liveness under
fairness, which is out of reach of the prover (section 4 states the fairness); and
the four properties of the runs that expect a violation. The definitions were written so that they can be reasoned about: the
provers do not unfold sorting, selecting and folding of sequences, so `pair_order`
is a pair's index (`PairIndex`), a filtered list is the set of its positions, a sum
is a count. Each says of the code what the list would, and the mutants that break
the properties are the same.

## 6. Not modelled

The C library beyond the serve mapping: generators, the C redactor and its byte
comparison with the Python one, the Wilson interval. The layouts of payloads and
the grammar of oracle records (their fields are modelled, their bytes are not).
Prompts; texts and results beyond what redaction and the rungs tell apart: that a
text with an LF or a placeholder of its own could be read as two turns of the
redacted stream is not modelled, and no code here parses that stream. The `main` of the smoke run (its argument
check and one print). The bytes of an id, beyond which ids a tool reads as the same. The
battery loader, the build, the vectors, the probes and the tests. What the unrelated
request does to the backend between two fires; the status of a response, which no code looks at. `serve_episode` of `mock_tools.py` has no caller. No code in
the repository hands the episodes of a paid cell to `score_cell`: `Trials` models
the use its docstring describes, which the tests and the smoke run make of it.
`PROJECT.json` gives the reason per component.

## 7. Plan

Done: the chain, its readers, its abstract specification; the episode; the cell and
its verifier; the canary; the witness; the conduction tools; redaction, scoring and
trials; and the theorems of section 5. What is left to prove:

1. The safety half of the three liveness properties: a measure that every step of the
   runner decreases, as an action property (an episode ends within the budget if it
   is answered).
2. That the log of an episode and of a cell is one the abstract `EvidenceLog` allows:
   `Episode` and `Cell` append to it as `EvidenceChain` does, with an append that
   raises as an unacknowledged record.
3. The verifier without `MaxRuns <= 1`: what it says of a chain with two calls of
   `run_cell`, which it refuses.
