-------------------------------- MODULE Cell --------------------------------
(***************************************************************************)
(* The cell driver: run_cell of runner/cell.py.  For each pair it commits  *)
(* the plan, one AX:STATE record per regime, then runs the PROD and the    *)
(* EVAL episode of the pair (module Episode) on the same chain.  A process *)
(* that runs a cell may die anywhere; what is on the chain stays, and the  *)
(* same chain can be opened and passed to run_cell again.                  *)
(*                                                                         *)
(* Abstractions: the twin of a pair is one schedule, since its regimes     *)
(* have the same failure slots and differ in what the model leaves out;    *)
(* the assignment bytes repeat the pair and are left out of a plan record; *)
(* evidence_chain.seq is the length of the log (EvidenceChain!HeadIsReplay)*)
(***************************************************************************)
EXTENDS CellVerify

CONSTANTS
  Calls, Predicates, Slots,                              \* see ServeMapping
  Sources, Budget, Snapshots, Reports, Undecodable,      \* see Episode
  MaxOthers,
  PairIds,     \* pair ids
  PairLists,   \* the pair_ids a caller may pass
  Twin,        \* schedule_source: the schedule committed for each pair
  MaxRuns      \* bound of the model: calls of run_cell on one chain

VARIABLES
  log, torn, gw, pc, source, ep, sched, call, calls, shown, wire, dec, last,
  seqs, proved,    \* the episode in progress: see Episode
  phase,           \* where run_cell is
  pairs,           \* pair_ids
  cur,             \* position of the current pair in pair_ids
  regime,          \* regime of the current plan record or episode
  episode,         \* episode_id: the counter
  before,          \* seq_before_calls
  firstCall,       \* first_call_seq of each PairRun, by position
  owner,           \* history: the pair whose run wrote each record
  runs             \* how often run_cell was called on this chain

EpisodeIds == 0 .. 2 * Cardinality(PairIds) - 1

E == INSTANCE Episode

episodeVars == <<torn, gw, pc, source, ep, sched, call, calls, shown, wire,
                 dec, last, seqs, proved>>
cellVars == <<phase, pairs, cur, regime, episode, before, firstCall, runs>>
vars == <<log, episodeVars, cellVars, owner>>

ASSUME CellAssumption ==
  /\ IsFiniteSet(PairIds) /\ PairIds # {}
  /\ PairLists \subseteq Seq(PairIds)
  /\ \A l \in PairLists : l # <<>> /\ IsInjective(l)
  /\ Twin \in [PairIds -> E!Schedules]
  /\ MaxRuns \in Nat

Phases == {"closed", "planning", "entering", "running", "finished", "aborted"}
NoSeq == 0     \* first_call_seq is None
Pair == pairs[cur]

Plan == [tag |-> "STATE", pair |-> Pair, regime |-> regime, sched |-> Twin[Pair]]

Init ==
  /\ E!Init
  /\ ep = 0
  /\ phase = "closed"
  /\ pairs = <<>>
  /\ cur = 1
  /\ regime = "PROD"
  /\ episode = 0
  /\ before = 0
  /\ firstCall = <<>>
  /\ owner = <<>>
  /\ runs = 0

\* The chain is opened and handed to run_cell, after an earlier call or not.
RunCell ==
  /\ phase \in {"closed", "finished", "aborted"}
  /\ runs < MaxRuns
  /\ ~torn
  /\ pairs' \in PairLists
  /\ phase' = "planning"
  /\ cur' = 1
  /\ regime' = "PROD"
  /\ episode' = 0
  /\ firstCall' = [i \in 1 .. Len(pairs') |-> NoSeq]
  /\ runs' = runs + 1
  /\ UNCHANGED <<log, episodeVars, before, owner>>

\* Both plan records are committed.  Faulty variant: the first is enough.
PlannedOnce == regime = "PROD"
Planned == regime = "EVAL"

\* seq_before_calls.  Faulty variant: read before the append.
SeqBeforeAppend == Len(log)
SeqBeforeCalls == Len(log')

\* The plan record of one regime; after the second one the chain's seq is
\* noted and the pair's episodes may start.
CommitPlan ==
  /\ phase = "planning"
  /\ E!Appended(Plan)
  /\ owner' = Append(owner, Pair)
  /\ IF Planned
     THEN /\ regime' = "PROD"
          /\ phase' = "entering"
          /\ before' = SeqBeforeCalls
     ELSE regime' = "EVAL" /\ UNCHANGED <<phase, before>>
  /\ UNCHANGED <<gw, pc, source, ep, sched, call, calls, shown, wire, dec, last,
                 seqs, proved, pairs, cur, episode, firstCall, runs>>

Owned == IF Len(log') > Len(log) THEN Append(owner, Pair) ELSE owner

PlanRaises ==
  /\ phase = "planning"
  /\ E!AppendRaised(Plan)
  /\ owner' = Owned
  /\ phase' = "aborted"
  /\ UNCHANGED <<gw, pc, source, ep, sched, call, calls, shown, wire, dec, last,
                 seqs, proved, pairs, cur, regime, episode, before, firstCall, runs>>

\* episode.schedule.  Faulty variant: the one the episode generated for
\* itself, with another generator than the plan's.
OwnSchedule == CHOOSE s \in E!Schedules : s # Twin[Pair]
CommittedSchedule == Twin[Pair]

\* The episode of the current regime is built, its schedule replaced by the
\* committed one, its adapter made by the factory, and run_episode entered.
EnterEpisode ==
  /\ phase = "entering"
  /\ E!Enter(source, episode, CommittedSchedule)
  /\ phase' = "running"
  /\ UNCHANGED <<log, torn, gw, pairs, cur, regime, episode, before, firstCall,
                 owner, runs>>

EpisodeStep ==
  /\ phase = "running"
  /\ E!Next
  /\ owner' = Owned
  /\ UNCHANGED cellVars

\* episode_id += 1.
NextEpisodeId == episode + 1

\* Another pair is left.  Faulty variant: one too many.
MorePairsAtEnd == cur <= Len(pairs)
MorePairs == cur < Len(pairs)

\* run_episode returned: note where the pair's outcomes start, count the
\* episode, go on to the other regime, the next pair, or the end.
EndEpisode ==
  /\ phase = "running"
  /\ pc = "done"
  /\ firstCall' = IF firstCall[cur] = NoSeq /\ Len(log) > before
                  THEN [firstCall EXCEPT ![cur] = before + 1]
                  ELSE firstCall
  /\ episode' = NextEpisodeId
  /\ CASE regime = "PROD" ->
            regime' = "EVAL" /\ phase' = "entering" /\ UNCHANGED cur
       [] regime = "EVAL" /\ MorePairs ->
            regime' = "PROD" /\ phase' = "planning" /\ cur' = cur + 1
       [] OTHER ->
            phase' = "finished" /\ UNCHANGED <<regime, cur>>
  /\ UNCHANGED <<log, episodeVars, pairs, before, owner, runs>>

\* Faulty variant: the episode is run again.
Retry ==
  /\ phase = "running"
  /\ pc = "raised"
  /\ phase' = "entering"
  /\ UNCHANGED <<log, episodeVars, pairs, cur, regime, episode, before, firstCall,
                 owner, runs>>

\* run_episode raised: run_cell does not catch it.
Abort ==
  /\ phase = "running"
  /\ pc = "raised"
  /\ phase' = "aborted"
  /\ UNCHANGED <<log, episodeVars, pairs, cur, regime, episode, before, firstCall,
                 owner, runs>>

\* The process is killed between two calls on the chain.
Kill ==
  /\ phase \in {"planning", "entering", "running"}
  /\ phase' = "aborted"
  /\ UNCHANGED <<log, episodeVars, pairs, cur, regime, episode, before, firstCall,
                 owner, runs>>

Next ==
  \/ RunCell \/ CommitPlan \/ PlanRaises \/ EnterEpisode \/ EpisodeStep
  \/ EndEpisode \/ Abort \/ Kill

\* The driver is one thread; the gateway answers the request it has or closes
\* the connection.
Fairness ==
  /\ WF_vars(CommitPlan \/ EnterEpisode \/ EndEpisode \/ Abort)
  /\ WF_vars(EpisodeStep /\ E!Runs)
  /\ WF_vars(EpisodeStep /\ (E!GatewayAnswers \/ E!GatewayCloses))

Spec == Init /\ [][Next]_vars /\ Fairness
-----------------------------------------------------------------------------
\* The type invariant.
TypeOK ==
  /\ phase \in Phases
  /\ pairs \in PairLists \cup {<<>>}
  /\ cur \in 1 .. Cardinality(PairIds)
  /\ regime \in Regimes
  /\ episode \in 0 .. 2 * Cardinality(PairIds)
  /\ before \in 0 .. Len(log)
  /\ firstCall \in Seq(0 .. Len(log))
  /\ owner \in Seq(PairIds) /\ Len(owner) = Len(log)
  /\ runs \in 0 .. MaxRuns

\* "The plan-before ordering is committed and later verifiable from this chain
\* alone" (cell.py:131-132): whatever a cell got to before it ended or died,
\* cell_replay_verify accepts its chain and counts the pairs it planned, unless
\* an append left torn bytes, at which read_frames raises.
VerifierAccepts == ~torn => Verify(log) = Cardinality(ToSet(owner))

\* Both plan records of a pair precede every outcome of the pair, also when
\* an append of a plan record raises or the process dies between the two.
PlansComeFirst == PlanBefore(log, owner)

\* first_call_seq of a finished pair is the seq of the first outcome record
\* the pair has on the chain, or None if it has none.
FirstCallSeqIsFirst ==
  \A k \in 1 .. Len(firstCall) :
    k < cur \/ phase = "finished" =>
      LET outcomes == {j \in OutcomeAt(log) : owner[j] = pairs[k]}
      IN  firstCall[k] = IF outcomes = {} THEN NoSeq ELSE Min(outcomes)

\* The failures on the chain are those of the schedule committed for the pair
\* before its calls: every serve event follows from the plan record and the
\* calls of the serve events before it, from the ledger alone.
PlayedAsCommitted ==
  \A j \in 1 .. Len(log) : log[j].tag = "PROOF" =>
    \E i \in PlanAt(log, owner[j]) :
      LET start == j - log[j].index
          stream == [k \in 1 .. log[j].index + 1 |-> log[start + k - 1].event.call]
      IN  /\ i < start
          /\ log[j].event = E!ServeEvent(log[i].sched, stream, log[j].index + 1)

\* A cell finishes or aborts, if the gateway answers.
CellEnds == (phase = "planning") ~> (phase \in {"finished", "aborted"})
=============================================================================
