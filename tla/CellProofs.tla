----------------------------- MODULE CellProofs -----------------------------
(***************************************************************************)
(* Proofs about Cell for any pairs and schedules, any kind of adapter and  *)
(* any number of calls of run_cell on one chain, each of which may die     *)
(* anywhere: plans come first and schedules are played as committed.  For  *)
(* one call of run_cell on a chain: cell_replay_verify accepts it, and     *)
(* first_call_seq is where the outcomes of a pair start.                   *)
(***************************************************************************)
EXTENDS Cell, CellVerifyProofs

Busy == phase \in {"entering", "running"}

\* How far into the episode counter the current pair is.
EpisodeOf == 2 * (cur - 1) + (IF Busy /\ regime = "EVAL" THEN 1 ELSE 0)

TypeInv ==
  /\ phase \in Phases
  /\ regime \in Regimes
  /\ log \in Seq(ToSet(log))
  /\ owner \in Seq(PairIds) /\ Len(owner) = Len(log)
  /\ before \in 0 .. Len(log)
  /\ runs \in 0 .. MaxRuns
  /\ firstCall \in Seq(0 .. Len(log)) /\ Len(firstCall) = Len(pairs)

\* Where run_cell is in its list of pairs.
PlaceInv ==
  /\ phase = "closed" => pairs = <<>> /\ cur = 1 /\ episode = 0
  /\ phase # "closed" => pairs \in PairLists /\ cur \in 1 .. Len(pairs)
  /\ phase = "planning" \/ Busy => episode = EpisodeOf
  /\ episode \in 0 .. 2 * Cardinality(PairIds)

\* A plan record says what was committed for the pair whose run wrote it.
PlansTrue ==
  \A i \in 1 .. Len(log) :
    /\ log[i].tag \in {"STATE", "OBS", "PROOF"}
    /\ log[i].tag = "PROOF" => log[i].index \in 0 .. i - 1
    /\ log[i].tag = "STATE" =>
         log[i].pair = owner[i] /\ log[i].regime \in Regimes /\ log[i].sched = Twin[owner[i]]

\* The plan of a pair in the given regime is on the chain.
HasPlan(p, r) == \E i \in PlanAt(log, p) : log[i].regime = r

\* The episodes of a pair start when both its plan records are there.
PlannedInv ==
  /\ phase = "planning" /\ regime = "EVAL" => HasPlan(Pair, "PROD")
  /\ Busy => \A r \in Regimes : HasPlan(Pair, r)
  /\ PlanBefore(log, owner)

\* The last records are the serve events of the episode in progress.
TailInv ==
  phase = "running" =>
    /\ sched = Twin[Pair]
    /\ ep = episode
    /\ calls \in Seq(ToSet(calls))
    /\ proved \in 0 .. Len(log)
    /\ pc \notin {"prove", "done", "raised"} => proved = 0
    /\ pc # "raised" =>
         \A k \in 1 .. proved :
           log[Len(log) - proved + k] = E!Proof(k - 1, E!ServeEvent(sched, calls, k))

\* The inductive invariant, for any number of calls of run_cell.
IInv == TypeInv /\ PlaceInv /\ PlansTrue /\ PlannedInv /\ TailInv /\ PlayedAsCommitted
-----------------------------------------------------------------------------
\* With one call of run_cell on a chain, the pairs write their records in the
\* order of the list, plans before outcomes, and episode ids count two a pair.
OneRun ==
  /\ phase = "closed" => log = <<>>
  /\ phase # "closed" => runs = 1

OwnersListed == \A j \in 1 .. Len(log) : \E k \in 1 .. cur : owner[j] = pairs[k]

OwnersInOrder ==
  \A i, j \in 1 .. Len(log), k, l \in 1 .. Len(pairs) :
    i <= j /\ owner[i] = pairs[k] /\ owner[j] = pairs[l] => k <= l

PairsPlanned == \A k \in 1 .. Len(pairs) : k < cur => PlanAt(log, pairs[k]) # {}

PlansLead ==
  /\ \A i, j \in 1 .. Len(log) :
       log[i].tag = "STATE" /\ j \in OutcomeAt(log) /\ owner[i] = owner[j] => i < j
  /\ phase = "planning" => \A j \in OutcomeAt(log) : owner[j] # Pair

EpisodesCount ==
  \A j \in 1 .. Len(log) : log[j].tag = "OBS" =>
    \E k \in 1 .. Len(pairs) : owner[j] = pairs[k] /\ log[j].ep \div 2 = k - 1

OnceInv ==
  OneRun /\ OwnersListed /\ OwnersInOrder /\ PairsPlanned /\ PlansLead /\ EpisodesCount

\* Where the outcomes of a pair start.
OutcomesStart ==
  Busy => /\ \A j \in 1 .. Len(log) : j \in OutcomeAt(log) /\ owner[j] = Pair <=> j > before
          /\ firstCall[cur] \in {NoSeq, before + 1}
          /\ firstCall[cur] = before + 1 => before < Len(log)

NoneYet ==
  /\ phase = "planning" => firstCall[cur] = NoSeq
  /\ \A k \in 1 .. Len(pairs) : k > cur /\ phase # "finished" => firstCall[k] = NoSeq

FirstInv == OutcomesStart /\ NoneYet /\ FirstCallSeqIsFirst

OnceIInv == IInv /\ OnceInv /\ FirstInv
-----------------------------------------------------------------------------
\* What a step of the episode does to the chain, the calls and the serve events.
LEMMA EpisodeGrows ==
  ASSUME E!Next
  PROVE  /\ UNCHANGED <<ep, sched>>
         /\ \/ /\ log' = log /\ proved' = proved
               /\ calls' = calls \/ (pc = "serve" /\ calls' = Append(calls, dec.out))
               /\ pc' \in {"prove", "done"} => pc \in {"finish", "prove", "done"}
               /\ pc \in {"prove", "done", "raised"} => pc' \in {"prove", "done", "raised"}
            \/ /\ log' = Append(log, E!ThisObs) /\ pc = "commit"
               /\ pc' \notin {"prove", "done"}
               /\ UNCHANGED <<calls, proved>>
            \/ /\ log' = Append(log, E!NextProof) /\ pc = "prove" /\ proved < Len(calls)
               /\ UNCHANGED calls
               /\ (proved' = proved + 1 /\ pc' = "prove") \/ (proved' = proved /\ pc' = "raised")
<1>1. CASE E!CommitObs
  <2>1. /\ pc = "commit" /\ pc' \in {"finish", "serve"} /\ UNCHANGED <<ep, sched, calls, proved>>
        /\ log' = log \/ log' = Append(log, E!ThisObs)
    BY <1>1 DEF E!CommitObs, E!Appended, E!chain, E!args
  <2> QED
    BY <2>1
<1>2. CASE E!CommitRaises
  <2>1. /\ pc = "commit" /\ pc' = "raised" /\ UNCHANGED <<ep, sched, calls, proved>>
        /\ log' = log \/ log' = Append(log, E!ThisObs)
    BY <1>2 DEF E!CommitRaises, E!AppendRaised, E!args
  <2> QED
    BY <2>1
<1>3. CASE E!Prove
  <2>1. /\ pc = "prove" /\ pc' = "prove" /\ UNCHANGED <<ep, sched, calls>>
        /\ proved < Len(calls) /\ proved' = proved + 1 /\ log' = Append(log, E!NextProof)
    BY <1>3 DEF E!Prove, E!Appended, E!args
  <2> QED
    BY <2>1
<1>4. CASE E!ProveRaises
  <2>1. /\ pc = "prove" /\ pc' = "raised" /\ UNCHANGED <<ep, sched, calls, proved>>
        /\ proved < Len(calls) /\ (log' = log \/ log' = Append(log, E!NextProof))
    BY <1>4 DEF E!ProveRaises, E!AppendRaised, E!args
  <2> QED
    BY <2>1
<1>5. CASE E!ServeCall
  <2>1. /\ pc = "serve" /\ pc' \in {"finish", "ask"} /\ UNCHANGED <<log, ep, sched, proved>>
        /\ calls' = Append(calls, dec.out)
    BY <1>5 DEF E!ServeCall, E!chain, E!args
  <2> QED
    BY <2>1
<1>6. CASE E!Send \/ E!Receive \/ E!LocalStep \/ E!Finish \/ E!Complete
             \/ E!StepRaises \/ E!ServeRaises \/ E!Gateway
  <2>1. UNCHANGED <<log, ep, sched, calls, proved>>
    BY <1>6 DEF E!Send, E!Receive, E!LocalStep, E!Finish, E!Complete, E!StepRaises,
       E!ServeRaises, E!Gateway, E!GatewayAnswers, E!GatewayCloses, E!OtherClient, E!chain, E!args
  <2>2. pc' \in {"prove", "done"} => pc \in {"finish", "prove", "done"}
    BY <1>6 DEF E!Send, E!Receive, E!LocalStep, E!Finish, E!Complete, E!StepRaises,
       E!ServeRaises, E!Gateway, E!GatewayAnswers, E!GatewayCloses, E!OtherClient
  <2>3. pc \in {"prove", "done", "raised"} => pc' \in {"prove", "done", "raised"}
    <3>1. CASE E!Finish \/ E!Complete \/ E!StepRaises \/ E!ServeRaises
      BY <3>1 DEF E!Finish, E!Complete, E!StepRaises, E!ServeRaises
    <3>2. CASE E!Send \/ E!Receive \/ E!LocalStep \/ E!Gateway
      BY <3>2 DEF E!Send, E!Receive, E!Received, E!LocalStep, E!Gateway, E!GatewayAnswers,
         E!GatewayCloses, E!OtherClient
    <3> QED
      BY <1>6, <3>1, <3>2
  <2> QED
    BY <2>1, <2>2, <2>3
<1> QED
  BY <1>1, <1>2, <1>3, <1>4, <1>5, <1>6 DEF E!Next, E!Runs, E!Fails

\* The current pair is one of the cell's pairs.
LEMMA PairIsPair ==
  ASSUME PlaceInv, phase # "closed"
  PROVE  Pair \in PairIds /\ pairs \in Seq(PairIds) /\ cur \in 1 .. Len(pairs)
         /\ IsInjective(pairs) /\ Len(pairs) \in Nat
<1>1. pairs \in Seq(PairIds) /\ cur \in 1 .. Len(pairs) /\ IsInjective(pairs)
  BY CellAssumption DEF PlaceInv
<1> QED
  BY <1>1, ElementOfSeq DEF Pair

\* What a step adds to the chain, and who wrote it.
LEMMA ChainGrows ==
  ASSUME TypeInv, PlaceInv, [Next]_vars
  PROVE  \/ UNCHANGED <<log, owner>>
         \/ /\ phase = "planning" /\ (CommitPlan \/ PlanRaises)
            /\ log' = Append(log, Plan) /\ owner' = Append(owner, Pair)
         \/ /\ phase = "running" /\ EpisodeStep /\ owner' = Append(owner, Pair)
            /\ \/ log' = Append(log, E!ThisObs)
               \/ log' = Append(log, E!NextProof)
<1>1. \A e : Len(Append(log, e)) > Len(log)
  BY Grown DEF TypeInv
<1>2. CASE CommitPlan
  BY <1>2 DEF CommitPlan, E!Appended
<1>3. CASE PlanRaises
  <2>1. /\ phase = "planning" /\ owner' = Owned
        /\ log' = log \/ log' = Append(log, Plan)
    BY <1>3 DEF PlanRaises, E!AppendRaised
  <2>2. log' = log => owner' = owner
    BY <1>1, <2>1 DEF Owned, TypeInv
  <2>3. log' = Append(log, Plan) => owner' = Append(owner, Pair)
    BY <1>1, <2>1 DEF Owned
  <2> QED
    BY <1>3, <2>1, <2>2, <2>3
<1>4. CASE EpisodeStep
  <2>1. log' = log \/ log' = Append(log, E!ThisObs) \/ log' = Append(log, E!NextProof)
    BY <1>4, EpisodeGrows DEF EpisodeStep
  <2>2. phase = "running" /\ owner' = Owned
    BY <1>4 DEF EpisodeStep
  <2>3. CASE log' = log
    <3>1. owner' = owner
      BY <2>2, <2>3 DEF Owned, TypeInv
    <3> QED
      BY <1>4, <2>3, <3>1
  <2>4. CASE log' = Append(log, E!ThisObs) \/ log' = Append(log, E!NextProof)
    <3>1. owner' = Append(owner, Pair)
      BY <1>1, <2>2, <2>4 DEF Owned
    <3> QED
      BY <1>4, <2>2, <2>4, <3>1
  <2> QED
    BY <2>1, <2>3, <2>4
<1>5. CASE RunCell \/ EndEpisode \/ Abort \/ Kill \/ EnterEpisode \/ UNCHANGED vars
  BY <1>5 DEF RunCell, EndEpisode, Abort, Kill, EnterEpisode, vars
<1> QED
  BY <1>2, <1>3, <1>4, <1>5 DEF Next

\* A record that is added leaves those before it where they are.
LEMMA ChainStep ==
  ASSUME TypeInv, PlaceInv, [Next]_vars
  PROVE  /\ Len(log) \in Nat
         /\ log' \in Seq(ToSet(log'))
         /\ owner' \in Seq(PairIds) /\ Len(owner') = Len(log')
         /\ \A i \in 1 .. Len(log) : log'[i] = log[i] /\ owner'[i] = owner[i]
         /\ \/ UNCHANGED <<log, owner>>
            \/ /\ Len(log') = Len(log) + 1 /\ owner'[Len(log) + 1] = Pair
               /\ \/ /\ phase = "planning" /\ (CommitPlan \/ PlanRaises)
                     /\ log'[Len(log) + 1] = Plan
                  \/ /\ phase = "running" /\ EpisodeStep
                     /\ \/ log'[Len(log) + 1] = E!ThisObs
                        \/ log'[Len(log) + 1] = E!NextProof /\ log' = Append(log, E!NextProof)
<1>1. Len(log) \in Nat /\ Len(owner) = Len(log) /\ log \in Seq(ToSet(log))
  BY Grown DEF TypeInv
<1>2. CASE UNCHANGED <<log, owner>>
  BY <1>1, <1>2 DEF TypeInv
<1>3. ASSUME NEW rec, log' = Append(log, rec), owner' = Append(owner, Pair),
             phase # "closed"
      PROVE  /\ Len(log') = Len(log) + 1 /\ log' \in Seq(ToSet(log'))
             /\ log'[Len(log) + 1] = rec
             /\ owner' \in Seq(PairIds) /\ Len(owner') = Len(log')
             /\ owner'[Len(log) + 1] = Pair
             /\ \A i \in 1 .. Len(log) : log'[i] = log[i] /\ owner'[i] = owner[i]
  <2>1. ASSUME NEW t, t = Append(log, rec)
        PROVE  /\ t \in Seq(ToSet(t))
               /\ Len(t) = Len(log) + 1
               /\ t[Len(log) + 1] = rec
               /\ \A i \in 1 .. Len(log) : t[i] = log[i]
    <3>1. t \in Seq(ToSet(t))
      BY <1>1, <2>1, Grown
    <3>2. Len(t) = Len(log) + 1 /\ t[Len(log) + 1] = rec
      BY <1>1, <2>1, Grown
    <3>3. \A i \in 1 .. Len(log) : t[i] = log[i]
      BY <1>1, <2>1, Grown
    <3> QED
      BY <3>1, <3>2, <3>3
  <2>2. Pair \in PairIds
    BY <1>3, PairIsPair
  <2>3. /\ owner' \in Seq(PairIds) /\ Len(owner') = Len(owner) + 1
        /\ owner'[Len(owner) + 1] = Pair
        /\ \A i \in 1 .. Len(owner) : owner'[i] = owner[i]
    BY <1>3, <2>2, AppendProperties DEF TypeInv
  <2> QED
    BY <1>1, <1>3, <2>1, <2>3
<1> QED
  BY <1>1, <1>2, <1>3, ChainGrows
-----------------------------------------------------------------------------
\* A list of different pairs is no longer than there are pairs.
LEMMA PairsFit ==
  ASSUME PlaceInv, phase # "closed"
  PROVE  Len(pairs) <= Cardinality(PairIds) /\ Cardinality(PairIds) \in Nat
<1>1. pairs \in Seq(PairIds) /\ IsInjective(pairs) /\ Len(pairs) \in Nat
  BY PairIsPair
<1>2. \A i, j \in 1 .. Len(pairs) : pairs[i] = pairs[j] => i = j
  BY <1>1 DEF IsInjective
<1>3. Cardinality({pairs[i] : i \in 1 .. Len(pairs)}) = Len(pairs)
  BY <1>1, <1>2, ImageCount
<1>4. {pairs[i] : i \in 1 .. Len(pairs)} \subseteq PairIds
  BY <1>1, ElementOfSeq
<1>5. IsFiniteSet(PairIds)
  BY CellAssumption
<1>6. Cardinality({pairs[i] : i \in 1 .. Len(pairs)}) <= Cardinality(PairIds)
  BY <1>4, <1>5, FS_Subset
<1> QED
  BY <1>3, <1>5, <1>6, FS_CardinalityType

LEMMA TypeStep ==
  ASSUME TypeInv, PlaceInv, [Next]_vars
  PROVE  TypeInv'
<1>1. /\ Len(log) \in Nat /\ Len(log') \in Nat /\ Len(log) <= Len(log')
      /\ log' \in Seq(ToSet(log'))
      /\ owner' \in Seq(PairIds) /\ Len(owner') = Len(log')
  BY ChainStep
<1>2. Seq(0 .. Len(log)) \subseteq Seq(0 .. Len(log'))
  <2>1. 0 .. Len(log) \subseteq 0 .. Len(log')
    BY <1>1
  <2> QED
    BY <2>1, SeqMonotonic
<1>3. firstCall \in Seq(0 .. Len(log')) /\ before \in 0 .. Len(log')
  BY <1>1, <1>2 DEF TypeInv
<1>4. /\ phase' \in Phases /\ regime' \in Regimes /\ runs' \in 0 .. MaxRuns
      /\ before' \in 0 .. Len(log')
      /\ firstCall' \in Seq(0 .. Len(log')) /\ Len(firstCall') = Len(pairs')
  <2>1. CASE RunCell
    <3>1. Len(pairs') \in Nat
      BY <2>1, CellAssumption, LenProperties DEF RunCell
    <3>2. firstCall' = [i \in 1 .. Len(pairs') |-> 0]
      BY <2>1 DEF RunCell, NoSeq
    <3>3. firstCall' \in Seq(0 .. Len(log')) /\ Len(firstCall') = Len(pairs')
      BY <1>1, <3>1, <3>2, IsASeq
    <3>4. /\ phase' \in Phases /\ regime' \in Regimes /\ runs' \in 0 .. MaxRuns
          /\ before' \in 0 .. Len(log')
      BY <1>3, <2>1, CellAssumption DEF RunCell, TypeInv, Phases, Regimes
    <3> QED
      BY <3>3, <3>4
  <2>2. CASE CommitPlan
    <3>1. before' \in 0 .. Len(log')
      BY <1>1, <1>3, <2>2 DEF CommitPlan, SeqBeforeCalls
    <3>2. UNCHANGED <<firstCall, pairs, runs>> /\ phase' \in Phases /\ regime' \in Regimes
      BY <2>2 DEF CommitPlan, TypeInv, Phases, Regimes
    <3> QED
      BY <1>3, <3>1, <3>2 DEF TypeInv
  <2>3. CASE EndEpisode
    <3>1. UNCHANGED <<before, pairs, runs, log>> /\ phase' \in Phases /\ regime' \in Regimes
      BY <2>3 DEF EndEpisode, TypeInv, Phases, Regimes
    <3>2. CASE firstCall' = firstCall
      BY <1>3, <3>1, <3>2 DEF TypeInv
    <3>3. CASE Len(log) > before /\ firstCall' = [firstCall EXCEPT ![cur] = before + 1]
      <4>1. before + 1 \in 0 .. Len(log')
        BY <1>1, <1>3, <3>1, <3>3
      <4>2. cur \in 1 .. Len(firstCall)
        BY <2>3, PairIsPair DEF EndEpisode, TypeInv
      <4>3. firstCall' \in Seq(0 .. Len(log')) /\ Len(firstCall') = Len(firstCall)
        BY <1>3, <3>3, <4>1, <4>2, ExceptSeq
      <4> QED
        BY <1>3, <3>1, <4>3 DEF TypeInv
    <3> QED
      BY <2>3, <3>2, <3>3 DEF EndEpisode
  <2>4. CASE PlanRaises \/ EnterEpisode \/ EpisodeStep \/ Abort \/ Kill \/ UNCHANGED vars
    <3>1. UNCHANGED <<before, pairs, runs, firstCall, regime>> /\ phase' \in Phases
      BY <2>4 DEF PlanRaises, EnterEpisode, EpisodeStep, Abort, Kill, vars, cellVars,
         TypeInv, Phases
    <3> QED
      BY <1>3, <3>1 DEF TypeInv
  <2> QED
    BY <2>1, <2>2, <2>3, <2>4 DEF Next
<1> QED
  BY <1>1, <1>4 DEF TypeInv

LEMMA PlaceStep ==
  ASSUME TypeInv, PlaceInv, [Next]_vars
  PROVE  PlaceInv'
<1> USE DEF PlaceInv
<1>1. CASE RunCell
  <2>1. /\ phase' = "planning" /\ pairs' \in PairLists /\ cur' = 1 /\ episode' = 0
        /\ regime' = "PROD"
    BY <1>1 DEF RunCell
  <2>2. 1 \in 1 .. Len(pairs')
    BY <2>1, CellAssumption, EmptySeq, LenProperties
  <2>3. Cardinality(PairIds) \in Nat
    BY CellAssumption, FS_CardinalityType
  <2> QED
    BY <2>1, <2>2, <2>3 DEF Busy, EpisodeOf
<1>2. CASE EndEpisode
  <2>1. /\ phase = "running" /\ episode' = episode + 1 /\ pairs' = pairs
        /\ \/ regime = "PROD" /\ regime' = "EVAL" /\ phase' = "entering" /\ cur' = cur
           \/ /\ regime = "EVAL" /\ cur < Len(pairs)
              /\ regime' = "PROD" /\ phase' = "planning" /\ cur' = cur + 1
           \/ /\ regime = "EVAL" /\ phase' = "finished" /\ cur' = cur
    BY <1>2 DEF EndEpisode, NextEpisodeId, MorePairs, TypeInv, Regimes
  <2>2. Len(pairs) <= Cardinality(PairIds) /\ Cardinality(PairIds) \in Nat
    BY <2>1, PairsFit
  <2>3. Len(pairs) \in Nat /\ cur \in 1 .. Len(pairs) /\ pairs \in PairLists
    BY <2>1, PairIsPair
  <2>4. episode = 2 * (cur - 1) + (IF regime = "EVAL" THEN 1 ELSE 0)
    BY <2>1 DEF Busy, EpisodeOf
  <2>5. /\ phase' = "planning" \/ Busy' => episode' = EpisodeOf'
        /\ episode' \in 0 .. 2 * Cardinality(PairIds)
    BY <2>1, <2>2, <2>3, <2>4 DEF Busy, EpisodeOf
  <2>6. phase' # "closed" /\ pairs' \in PairLists /\ cur' \in 1 .. Len(pairs')
    BY <2>1, <2>3
  <2> QED
    BY <2>5, <2>6
<1>3. CASE CommitPlan
  BY <1>3 DEF CommitPlan, Busy, EpisodeOf, Planned
<1>4. CASE PlanRaises \/ Abort \/ Kill
  BY <1>4 DEF PlanRaises, Abort, Kill, Busy, EpisodeOf
<1>5. CASE EnterEpisode \/ EpisodeStep \/ UNCHANGED vars
  BY <1>5 DEF EnterEpisode, EpisodeStep, Busy, EpisodeOf, vars, cellVars
<1> QED
  BY <1>1, <1>2, <1>3, <1>4, <1>5 DEF Next
-----------------------------------------------------------------------------
\* The calls a reader of the chain finds in n serve events from a position on.
StreamAt(lg, start, n) == [k \in 1 .. n |-> lg[start + k - 1].event.call]

LEMMA PlayedIs ==
  PlayedAsCommitted <=>
    \A j \in 1 .. Len(log) : log[j].tag = "PROOF" =>
      \E i \in PlanAt(log, owner[j]) :
        /\ i < j - log[j].index
        /\ log[j].event = E!ServeEvent(log[i].sched,
             StreamAt(log, j - log[j].index, log[j].index + 1), log[j].index + 1)
  BY DEF PlayedAsCommitted, StreamAt

LEMMA PlanBeforeIs ==
  ASSUME NEW lg, NEW own
  PROVE  PlanBefore(lg, own) <=>
           \A j \in OutcomeAt(lg), r \in Regimes :
             \E i \in PlanAt(lg, own[j]) : i < j /\ lg[i].regime = r
  BY DEF PlanBefore, PlannedFirst

LEMMA PlansTrueStep ==
  ASSUME TypeInv, PlaceInv, TailInv, PlansTrue, [Next]_vars
  PROVE  PlansTrue'
<1> USE DEF PlansTrue
<1>1. Len(log) \in Nat /\ \A i \in 1 .. Len(log) : log'[i] = log[i] /\ owner'[i] = owner[i]
  BY ChainStep
<1>2. CASE UNCHANGED <<log, owner>>
  BY <1>2
<1>3. CASE Len(log') = Len(log) + 1 /\ owner'[Len(log) + 1] = Pair
           /\ log'[Len(log) + 1] = Plan
  <2>1. regime \in Regimes
    BY DEF TypeInv
  <2> QED
    BY <1>1, <1>3, <2>1 DEF Plan
<1>4. CASE Len(log') = Len(log) + 1 /\ log'[Len(log) + 1] = E!ThisObs
  BY <1>1, <1>4 DEF E!ThisObs, E!Obs
<1>5. CASE Len(log') = Len(log) + 1 /\ log'[Len(log) + 1] = E!NextProof /\ phase = "running"
  <2>1. proved \in 0 .. Len(log)
    BY <1>5 DEF TailInv
  <2> QED
    BY <1>1, <1>5, <2>1 DEF E!NextProof, E!Proof
<1> QED
  BY <1>2, <1>3, <1>4, <1>5, ChainStep

\* Plan records stay, and a plan record that is added counts.
LEMMA PlansStay ==
  ASSUME TypeInv, PlaceInv, [Next]_vars, NEW p
  PROVE  /\ \A i \in PlanAt(log, p) : i \in PlanAt(log', p) /\ log'[i] = log[i]
         /\ \A r : HasPlan(p, r) => HasPlan(p, r)'
<1>1. \A i \in PlanAt(log, p) : i \in PlanAt(log', p) /\ log'[i] = log[i]
  BY ChainStep DEF PlanAt
<1> QED
  BY <1>1 DEF HasPlan

LEMMA PlannedStep ==
  ASSUME TypeInv, PlaceInv, PlannedInv, [Next]_vars
  PROVE  PlannedInv'
<1>1. ASSUME phase' = "planning", regime' = "EVAL"
      PROVE  HasPlan(Pair, "PROD")'
  <2>1. CASE CommitPlan
    <3>1. regime = "PROD" /\ Pair' = Pair
      BY <1>1, <2>1 DEF CommitPlan, Planned, TypeInv, Regimes, Pair
    <3>2. Len(log) \in Nat /\ Len(log') = Len(log) + 1 /\ log'[Len(log) + 1] = Plan
      <4>1. log' = Append(log, Plan) /\ log \in Seq(ToSet(log))
        BY <2>1 DEF CommitPlan, E!Appended, TypeInv
      <4> QED
        BY <4>1, Grown
    <3>3. Plan.tag = "STATE" /\ Plan.pair = Pair /\ Plan.regime = "PROD"
      BY <3>1 DEF Plan
    <3> QED
      BY <3>1, <3>2, <3>3 DEF HasPlan, PlanAt
  <2>2. CASE UNCHANGED vars
    <3>1. HasPlan(Pair, "PROD") /\ Pair' = Pair
      BY <1>1, <2>2 DEF PlannedInv, Pair, vars, cellVars
    <3> QED
      BY <3>1, PlansStay
  <2>3. ~(RunCell \/ PlanRaises \/ EnterEpisode \/ EpisodeStep \/ EndEpisode \/ Abort \/ Kill)
    BY <1>1 DEF RunCell, PlanRaises, EnterEpisode, EpisodeStep, EndEpisode, Abort, Kill,
       cellVars, TypeInv, Regimes
  <2> QED
    BY <2>1, <2>2, <2>3 DEF Next
<1>2. ASSUME Busy', NEW r \in Regimes
      PROVE  HasPlan(Pair, r)'
  <2>1. CASE CommitPlan
    <3>1. phase = "planning" /\ regime = "EVAL" /\ Pair' = Pair
      BY <1>2, <2>1 DEF CommitPlan, Planned, Pair, Busy
    <3>2. Len(log) \in Nat /\ Len(log') = Len(log) + 1 /\ log'[Len(log) + 1] = Plan
      <4>1. log' = Append(log, Plan) /\ log \in Seq(ToSet(log))
        BY <2>1 DEF CommitPlan, E!Appended, TypeInv
      <4> QED
        BY <4>1, Grown
    <3>3. CASE r = "PROD"
      <4>1. HasPlan(Pair, r)
        BY <3>1, <3>3 DEF PlannedInv
      <4> QED
        BY <3>1, <4>1, PlansStay
    <3>4. CASE r = "EVAL"
      <4>1. Plan.tag = "STATE" /\ Plan.pair = Pair /\ Plan.regime = r
        BY <3>1, <3>4 DEF Plan
      <4> QED
        BY <3>1, <3>2, <4>1 DEF HasPlan, PlanAt
    <3> QED
      BY <3>3, <3>4 DEF Regimes
  <2>2. CASE EnterEpisode \/ EpisodeStep \/ EndEpisode \/ UNCHANGED vars
    <3>1. Busy /\ Pair' = Pair
      BY <1>2, <2>2 DEF EnterEpisode, EpisodeStep, EndEpisode, vars, cellVars, Busy, Pair,
         TypeInv, Regimes
    <3>2. HasPlan(Pair, r)
      BY <3>1 DEF PlannedInv
    <3> QED
      BY <3>1, <3>2, PlansStay
  <2>3. ~(RunCell \/ PlanRaises \/ Abort \/ Kill)
    BY <1>2 DEF RunCell, PlanRaises, Abort, Kill, Busy
  <2> QED
    BY <2>1, <2>2, <2>3 DEF Next
<1>3. PlanBefore(log', owner')
  <2>1. SUFFICES ASSUME NEW j \in OutcomeAt(log'), NEW r \in Regimes
                 PROVE  \E i \in PlanAt(log', owner'[j]) : i < j /\ log'[i].regime = r
    BY PlanBeforeIs
  <2>2. CASE j \in 1 .. Len(log)
    <3>1. log'[j] = log[j] /\ owner'[j] = owner[j]
      BY <2>2, ChainStep
    <3>2. j \in OutcomeAt(log)
      BY <2>2, <3>1 DEF OutcomeAt
    <3>3. PICK i \in PlanAt(log, owner[j]) : i < j /\ log[i].regime = r
      BY <3>2, PlanBeforeIs DEF PlannedInv
    <3> QED
      BY <3>1, <3>3, PlansStay
  <2>3. CASE j \notin 1 .. Len(log)
    <3>1. Len(log) \in Nat /\ j = Len(log) + 1 /\ owner'[j] = Pair /\ phase = "running"
      <4>1. j \in 1 .. Len(log') /\ log'[j].tag # "STATE"
        BY DEF OutcomeAt
      <4>2. Plan.tag = "STATE"
        BY DEF Plan
      <4> QED
        BY <2>3, <4>1, <4>2, ChainStep
    <3>2. PICK i \in PlanAt(log, Pair) : log[i].regime = r
      BY <3>1 DEF PlannedInv, Busy, HasPlan
    <3>3. i < j
      BY <3>1 DEF PlanAt
    <3> QED
      BY <3>1, <3>2, <3>3, PlansStay
  <2> QED
    BY <2>2, <2>3
<1> QED
  BY <1>1, <1>2, <1>3 DEF PlannedInv
-----------------------------------------------------------------------------
LEMMA TailStep ==
  ASSUME TypeInv, PlaceInv, TailInv, [Next]_vars
  PROVE  TailInv'
<1> SUFFICES ASSUME phase' = "running" PROVE TailInv'
  BY DEF TailInv
<1>1. Len(log) \in Nat
  BY ChainStep
<1>2. CASE EnterEpisode
  <2>1. /\ sched' = Twin[Pair] /\ ep' = episode /\ calls' = <<>> /\ proved' = 0
        /\ pc' = "ask" /\ UNCHANGED <<log, pairs, cur, episode>>
    BY <1>2 DEF EnterEpisode, E!Enter, CommittedSchedule
  <2>2. <<>> \in Seq(ToSet(<<>>))
    BY EmptySeq
  <2> QED
    BY <1>1, <2>1, <2>2 DEF TailInv, Pair
<1>3. CASE EpisodeStep
  <2> DEFINE proof(k) == E!Proof(k - 1, E!ServeEvent(sched, calls, k))
  <2>1. /\ phase = "running" /\ E!Next
        /\ UNCHANGED <<pairs, cur, episode, ep, sched>>
    BY <1>3, EpisodeGrows DEF EpisodeStep, cellVars
  <2>2. /\ sched = Twin[Pair] /\ ep = episode /\ calls \in Seq(ToSet(calls))
        /\ proved \in 0 .. Len(log)
        /\ pc \notin {"prove", "done", "raised"} => proved = 0
        /\ pc # "raised" => \A k \in 1 .. proved : log[Len(log) - proved + k] = proof(k)
    BY <2>1 DEF TailInv
  <2>3. sched' = Twin[Pair]' /\ ep' = episode'
    BY <2>1, <2>2 DEF Pair
  <2>4. SUFFICES /\ calls' \in Seq(ToSet(calls'))
                 /\ proved' \in 0 .. Len(log')
                 /\ pc' \notin {"prove", "done", "raised"} => proved' = 0
                 /\ pc' # "raised" =>
                      \A k \in 1 .. proved' :
                        log'[Len(log') - proved' + k]
                          = E!Proof(k - 1, E!ServeEvent(sched, calls, k))'
    BY <2>3 DEF TailInv
  <2>5. UNCHANGED calls => \A k : E!Proof(k - 1, E!ServeEvent(sched, calls, k))' = proof(k)
    BY <2>1 DEF E!Proof, E!ServeEvent, E!EligibleBefore
  <2> HIDE DEF proof
  <2>6. CASE log' = log /\ UNCHANGED <<proved, calls>>
             /\ (pc \in {"prove", "done", "raised"} => pc' \in {"prove", "done", "raised"})
             /\ (pc' # "raised" => pc # "raised")
    BY <2>2, <2>5, <2>6
  <2>7. CASE log' = log /\ UNCHANGED proved /\ pc = "serve" /\ calls' = Append(calls, dec.out)
    <3>1. calls' \in Seq(ToSet(calls'))
      <4>1. ASSUME NEW t, t = Append(calls, dec.out) PROVE t \in Seq(ToSet(t))
        BY <2>2, <4>1, Grown
      <4> QED
        BY <2>7, <4>1
    <3> QED
      BY <2>2, <2>7, <3>1
  <2>8. CASE /\ log' = Append(log, E!ThisObs) /\ pc = "commit"
             /\ pc' \notin {"prove", "done"} /\ UNCHANGED <<calls, proved>>
    <3>1. Len(log') \in Nat
      BY <1>1, ChainStep
    <3> QED
      BY <2>2, <2>8, <3>1
  <2>9. CASE /\ log' = Append(log, E!NextProof) /\ pc = "prove" /\ proved < Len(calls)
             /\ UNCHANGED calls
             /\ (proved' = proved + 1 /\ pc' = "prove") \/ (proved' = proved /\ pc' = "raised")
    <3>1. Len(log') = Len(log) + 1 /\ log'[Len(log) + 1] = E!NextProof
      <4>1. log \in Seq(ToSet(log))
        BY DEF TypeInv
      <4> QED
        BY <2>9, <4>1, Grown
    <3>2. \A i \in 1 .. Len(log) : log'[i] = log[i]
      BY ChainStep
    <3>3. E!NextProof = proof(proved + 1)
      <4>1. Len(calls) \in Nat
        BY <2>2, LenProperties
      <4>2. proved + 1 \in 1 .. Len(calls)
        BY <2>2, <2>9, <4>1
      <4> QED
        BY <2>2, <4>2 DEF E!NextProof, E!ServeStream, proof
    <3>4. \A k \in 1 .. proved : log'[Len(log) - proved + k] = proof(k)
      BY <2>2, <2>9, <3>2, <1>1
    <3>5. CASE proved' = proved + 1 /\ pc' = "prove"
      <4>1. Len(log') - proved' = Len(log) - proved
        BY <1>1, <2>2, <3>1, <3>5
      <4>2. ASSUME NEW k \in 1 .. proved'
            PROVE  log'[Len(log) - proved + k] = proof(k)
        <5>1. CASE k \in 1 .. proved
          BY <3>4, <5>1
        <5>2. CASE k = proved + 1
          <6>1. Len(log) - proved + (proved + 1) = Len(log) + 1
            BY <1>1, <2>2
          <6> QED
            BY <3>1, <3>3, <5>2, <6>1
        <5> QED
          BY <2>2, <3>5, <5>1, <5>2
      <4>3. \A k \in 1 .. proved' :
              log'[Len(log') - proved' + k] = E!Proof(k - 1, E!ServeEvent(sched, calls, k))'
        BY <2>5, <2>9, <4>1, <4>2
      <4>4. proved' \in 0 .. Len(log')
        BY <1>1, <2>2, <3>1, <3>5
      <4> QED
        BY <2>2, <2>9, <3>5, <4>3, <4>4
    <3>6. CASE proved' = proved /\ pc' = "raised"
      BY <1>1, <2>2, <2>9, <3>1, <3>6
    <3> QED
      BY <2>9, <3>5, <3>6
  <2> QED
    BY <2>1, <2>6, <2>7, <2>8, <2>9, EpisodeGrows
<1>4. CASE UNCHANGED vars
  BY <1>4 DEF TailInv, vars, episodeVars, cellVars, Pair, E!Proof, E!ServeEvent,
     E!EligibleBefore
<1>5. ~(RunCell \/ CommitPlan \/ PlanRaises \/ EndEpisode \/ Abort \/ Kill)
  BY DEF RunCell, CommitPlan, PlanRaises, EndEpisode, Abort, Kill, TypeInv, Regimes
<1> QED
  BY <1>2, <1>3, <1>4, <1>5 DEF Next
-----------------------------------------------------------------------------
\* The plan of the current pair comes before the serve events of the episode.
LEMMA PlanBeforeTail ==
  ASSUME TypeInv, PlaceInv, PlannedInv, TailInv, PlansTrue,
         phase = "running", pc # "raised"
  PROVE  \E i \in PlanAt(log, Pair) : i <= Len(log) - proved /\ log[i].sched = sched
<1>1. PICK i \in PlanAt(log, Pair) : log[i].regime = "PROD"
  BY DEF PlannedInv, Busy, HasPlan, Regimes
<1>2. i \in 1 .. Len(log) /\ log[i].tag = "STATE" /\ log[i].pair = Pair
  BY <1>1 DEF PlanAt
<1>3. log[i].sched = sched
  <2>1. log[i].sched = Twin[Pair]
    BY <1>2 DEF PlansTrue
  <2> QED
    BY <2>1 DEF TailInv
<1>4. Len(log) \in Nat /\ proved \in 0 .. Len(log)
  BY Grown DEF TypeInv, TailInv
<1>5. ASSUME i > Len(log) - proved
      PROVE  FALSE
  <2>1. PICK k \in 1 .. proved : i = Len(log) - proved + k
    <3>1. i - (Len(log) - proved) \in 1 .. proved
      BY <1>2, <1>4, <1>5
    <3>2. i = Len(log) - proved + (i - (Len(log) - proved))
      BY <1>2, <1>4
    <3> QED
      BY <3>1, <3>2
  <2>2. log[i] = E!Proof(k - 1, E!ServeEvent(sched, calls, k))
    BY <2>1 DEF TailInv
  <2>3. log[i].tag = "PROOF"
    BY <2>2 DEF E!Proof
  <2> QED
    BY <1>2, <2>3
<1> QED
  BY <1>1, <1>2, <1>3, <1>4, <1>5

LEMMA PlayedStep ==
  ASSUME IInv, [Next]_vars
  PROVE  PlayedAsCommitted'
<1> USE DEF IInv
<1>1. /\ Len(log) \in Nat
      /\ \A i \in 1 .. Len(log) : log'[i] = log[i] /\ owner'[i] = owner[i]
      /\ \A p, i : i \in PlanAt(log, p) => i \in PlanAt(log', p) /\ log'[i] = log[i]
  BY ChainStep, PlansStay
<1>2. SUFFICES ASSUME NEW j \in 1 .. Len(log'), log'[j].tag = "PROOF"
               PROVE  \E i \in PlanAt(log', owner'[j]) :
                        /\ i < j - log'[j].index
                        /\ log'[j].event = E!ServeEvent(log'[i].sched,
                             StreamAt(log', j - log'[j].index, log'[j].index + 1),
                             log'[j].index + 1)
  BY DEF PlayedAsCommitted, StreamAt
<1>3. CASE j \in 1 .. Len(log)
  <2>1. log'[j] = log[j] /\ owner'[j] = owner[j]
    BY <1>1, <1>3
  <2> DEFINE n == log[j].index + 1
             start == j - log[j].index
  <2>2. PICK i \in PlanAt(log, owner[j]) :
          /\ i < start
          /\ log[j].event = E!ServeEvent(log[i].sched, StreamAt(log, start, n), n)
    BY <1>2, <1>3, <2>1, PlayedIs
  <2>3. log[j].index \in 0 .. j - 1
    BY <1>2, <1>3, <2>1 DEF PlansTrue
  <2>4. \A k \in 1 .. n : log'[start + k - 1] = log[start + k - 1]
    <3>1. \A k \in 1 .. n : start + k - 1 \in 1 .. Len(log)
      BY <1>1, <1>3, <2>3
    <3> QED
      BY <1>1, <3>1
  <2>5. StreamAt(log', start, n) = StreamAt(log, start, n)
    <3> HIDE DEF start, n
    <3> QED
      BY <2>4 DEF StreamAt
  <2>6. log'[i] = log[i] /\ i \in PlanAt(log', owner'[j])
    BY <1>1, <2>1, <2>2
  <2> QED
    BY <2>1, <2>2, <2>5, <2>6
<1>4. CASE j \notin 1 .. Len(log)
  <2>1. /\ j = Len(log) + 1 /\ owner'[j] = Pair /\ phase = "running" /\ EpisodeStep
        /\ log'[j] = E!NextProof /\ log' = Append(log, E!NextProof)
    <3>1. Plan.tag # "PROOF" /\ E!ThisObs.tag # "PROOF"
      BY DEF Plan, E!ThisObs, E!Obs
    <3> QED
      BY <1>1, <1>2, <1>4, <3>1, ChainStep
  <2>2. /\ pc = "prove" /\ proved < Len(calls)
    <3>1. E!NextProof # E!ThisObs /\ log' # log
      <4>1. E!NextProof.tag = "PROOF" /\ E!ThisObs.tag = "OBS"
        BY DEF E!NextProof, E!Proof, E!ThisObs, E!Obs
      <4> QED
        BY <1>1, <1>4, <2>1, <4>1
    <3>2. log' # Append(log, E!ThisObs)
      <4>1. log \in Seq(ToSet(log))
        BY DEF TypeInv
      <4>2. ASSUME log' = Append(log, E!ThisObs) PROVE log'[Len(log) + 1] = E!ThisObs
        BY <4>1, <4>2, Grown
      <4> QED
        BY <2>1, <3>1, <4>2
    <3> QED
      BY <2>1, <3>1, <3>2, EpisodeGrows DEF EpisodeStep
  <2>3. /\ calls \in Seq(ToSet(calls)) /\ Len(calls) \in Nat /\ proved \in 0 .. Len(log)
        /\ \A k \in 1 .. proved :
             log[Len(log) - proved + k] = E!Proof(k - 1, E!ServeEvent(sched, calls, k))
    BY <2>1, <2>2, LenProperties DEF TailInv
  <2>4. proved + 1 \in 1 .. Len(calls)
    BY <2>2, <2>3
  <2> DEFINE n == proved + 1
             start == j - proved
  <2>5. E!NextProof = E!Proof(proved, E!ServeEvent(sched, calls, n))
    BY <2>4 DEF E!NextProof, E!ServeStream
  <2>6. log'[j].index = proved /\ log'[j].event = E!ServeEvent(sched, calls, n)
    BY <2>1, <2>5 DEF E!Proof
  <2>7. \A k \in 1 .. n : log'[start + k - 1].event.call = calls[k]
    <3>1. ASSUME NEW k \in 1 .. proved
          PROVE  log'[start + k - 1].event.call = calls[k]
      <4>1. start + k - 1 = Len(log) - proved + k /\ start + k - 1 \in 1 .. Len(log)
        BY <1>1, <2>1, <2>3
      <4>2. log'[start + k - 1] = E!Proof(k - 1, E!ServeEvent(sched, calls, k))
        BY <1>1, <2>3, <4>1
      <4> QED
        BY <4>2 DEF E!Proof, E!ServeEvent
    <3>2. start + n - 1 = j /\ log'[j].event.call = calls[n]
      BY <1>1, <2>1, <2>3, <2>6 DEF E!ServeEvent
    <3>3. \A k \in 1 .. n : k \in 1 .. proved \/ k = n
      BY <2>3
    <3> QED
      BY <3>1, <3>2, <3>3
  <2>8. E!ServeEvent(sched, calls, n) = E!ServeEvent(sched, StreamAt(log', start, n), n)
    <3> DEFINE stream == StreamAt(log', start, n)
    <3>1. \A k \in 1 .. n : stream[k] = calls[k]
      <4> HIDE DEF start, n
      <4> QED
        BY <2>7 DEF StreamAt
    <3>2. n \in 1 .. n /\ \A k \in 1 .. n - 1 : k \in 1 .. n
      BY <2>3
    <3>3. stream[n] = calls[n] /\ \A k \in 1 .. n - 1 : stream[k] = calls[k]
      BY <3>1, <3>2
    <3>4. E!EligibleBefore(calls, n) = E!EligibleBefore(stream, n)
      <4> HIDE DEF stream, n
      <4>1. {k \in 1 .. n - 1 : calls[k] \notin Predicates}
              = {k \in 1 .. n - 1 : stream[k] \notin Predicates}
        BY <3>3
      <4> QED
        BY <4>1 DEF E!EligibleBefore
    <3>5. stream[n] = calls[n]
      BY <3>3
    <3>6. E!ServeEvent(sched, calls, n) = E!ServeEvent(sched, stream, n)
      <4> HIDE DEF stream, n
      <4> QED
        BY <3>4, <3>5 DEF E!ServeEvent
    <3> QED
      BY <3>6
  <2>9. PICK i \in PlanAt(log, Pair) : i <= Len(log) - proved /\ log[i].sched = sched
    BY <2>1, <2>2, PlanBeforeTail
  <2>10. i < start
    BY <1>1, <2>1, <2>3, <2>9 DEF PlanAt
  <2>11. i \in PlanAt(log', owner'[j]) /\ log'[i].sched = sched
    BY <1>1, <2>1, <2>9
  <2> QED
    BY <2>6, <2>8, <2>10, <2>11
<1> QED
  BY <1>3, <1>4

\* An empty chain.
LEMMA InitInv ==
  ASSUME Init
  PROVE  IInv
<1>1. log = <<>> /\ owner = <<>> /\ Len(log) = 0 /\ pairs = <<>> /\ firstCall = <<>>
  BY DEF Init, E!Init
<1>2. TypeInv
  <2>1. <<>> \in Seq(ToSet(<<>>)) /\ <<>> \in Seq(PairIds) /\ <<>> \in Seq(0 .. 0)
        /\ Len(<<>>) = 0
    BY EmptySeq
  <2> QED
    BY <1>1, <2>1, CellAssumption DEF Init, TypeInv, Phases, Regimes
<1>3. PlaceInv
  <2>1. Cardinality(PairIds) \in Nat
    BY CellAssumption, FS_CardinalityType
  <2> QED
    BY <2>1 DEF Init, PlaceInv, Busy
<1>4. PlansTrue /\ PlayedAsCommitted
  BY <1>1 DEF PlansTrue, PlayedAsCommitted
<1>5. PlannedInv /\ TailInv
  <2>1. PlanBefore(log, owner)
    BY <1>1 DEF PlanBefore, OutcomeAt
  <2> QED
    BY <2>1 DEF Init, PlannedInv, TailInv, Busy
<1> QED
  BY <1>2, <1>3, <1>4, <1>5 DEF IInv

\* The invariant is inductive.
LEMMA Inductive ==
  ASSUME IInv, [Next]_vars
  PROVE  IInv'
BY TypeStep, PlaceStep, PlansTrueStep, PlannedStep, TailStep, PlayedStep DEF IInv

LEMMA Always == Spec => []IInv
<1>1. Init => IInv
  BY InitInv
<1>2. IInv /\ [Next]_vars => IInv'
  BY Inductive
<1> QED
  BY <1>1, <1>2, PTL DEF Spec

\* The variables have their types, whatever the pairs and however often
\* run_cell is called on the chain.
THEOREM TypeCorrect == Spec => []TypeOK
<1>1. IInv => TypeOK
  <2> SUFFICES ASSUME IInv PROVE TypeOK
    OBVIOUS
  <2>1. cur \in 1 .. Cardinality(PairIds)
    <3>1. CASE phase = "closed"
      <4>1. Cardinality(PairIds) \in Nat /\ Cardinality(PairIds) # 0
        BY CellAssumption, FS_CardinalityType, FS_EmptySet
      <4> QED
        BY <3>1, <4>1 DEF IInv, PlaceInv
    <3>2. CASE phase # "closed"
      BY <3>2, PairIsPair, PairsFit DEF IInv
    <3> QED
      BY <3>1, <3>2
  <2>2. pairs \in PairLists \cup {<<>>}
    BY DEF IInv, PlaceInv
  <2> QED
    BY <2>1, <2>2 DEF IInv, TypeInv, PlaceInv, TypeOK
<1> QED
  BY <1>1, Always, PTL

\* Both plan records of a pair precede every outcome of the pair, in every
\* interleaving of episodes, failed appends, deaths and later calls.
THEOREM PlansFirstCorrect == Spec => []PlansComeFirst
<1>1. IInv => PlansComeFirst
  BY DEF IInv, PlannedInv, PlansComeFirst
<1> QED
  BY <1>1, Always, PTL

\* Every serve event on the chain follows from the plan committed for its pair
\* and the calls before it.
THEOREM PlayedCorrect == Spec => []PlayedAsCommitted
<1>1. IInv => PlayedAsCommitted
  BY DEF IInv
<1> QED
  BY <1>1, Always, PTL
-----------------------------------------------------------------------------
\* The last record of a chain that grew, and what a step leaves alone.
LEMMA RecordAdded ==
  ASSUME TypeInv, PlaceInv, TailInv, [Next]_vars, log' # log \/ owner' # owner
  PROVE  /\ Len(log) \in Nat /\ Len(log') = Len(log) + 1 /\ Len(owner') = Len(log')
         /\ \A i \in 1 .. Len(log) : log'[i] = log[i] /\ owner'[i] = owner[i]
         /\ owner'[Len(log) + 1] = Pair
         /\ UNCHANGED <<pairs, cur, runs, firstCall, episode>>
         /\ phase' \notin {"closed", "finished"}
         /\ \/ log'[Len(log) + 1] = Plan /\ phase = "planning" /\ ~Busy
            \/ /\ phase = "running" /\ UNCHANGED <<phase, regime, before>> /\ Busy
               /\ log'[Len(log) + 1].tag \in {"OBS", "PROOF"}
               /\ log'[Len(log) + 1].tag = "OBS" => log'[Len(log) + 1].ep = episode
<1>1. CASE CommitPlan \/ PlanRaises
  <2>1. /\ UNCHANGED <<pairs, cur, runs, firstCall, episode>> /\ phase = "planning"
        /\ phase' \notin {"closed", "finished"}
    BY <1>1 DEF CommitPlan, PlanRaises
  <2>2. ~Busy
    BY <2>1 DEF Busy
  <2> QED
    BY <2>1, <2>2, ChainStep DEF TypeInv
<1>2. CASE EpisodeStep
  <2>1. /\ UNCHANGED <<pairs, cur, runs, firstCall, episode, phase, regime, before>>
        /\ phase = "running" /\ Busy
    BY <1>2 DEF EpisodeStep, cellVars, Busy
  <2>2. /\ E!NextProof.tag = "PROOF"
        /\ E!ThisObs.tag = "OBS" /\ E!ThisObs.ep = episode
    BY <2>1 DEF E!NextProof, E!Proof, E!ThisObs, E!Obs, TailInv
  <2> QED
    BY <2>1, <2>2, ChainStep DEF TypeInv
<1>3. CASE RunCell \/ EnterEpisode \/ EndEpisode \/ Abort \/ Kill \/ UNCHANGED vars
  BY <1>3 DEF RunCell, EnterEpisode, EndEpisode, Abort, Kill, vars
<1> QED
  BY <1>1, <1>2, <1>3 DEF Next

LEMMA OnceStep ==
  ASSUME MaxRuns <= 1, IInv, OnceInv, [Next]_vars
  PROVE  OnceInv'
<1> USE DEF IInv, OnceInv
<1>1. CASE RunCell
  <2>1. log = <<>> /\ log' = <<>> /\ runs' = 1 /\ phase' # "closed"
    <3>1. phase = "closed"
      BY <1>1, CellAssumption DEF RunCell, OneRun, TypeInv
    <3>2. runs \in Nat /\ runs < MaxRuns
      BY <1>1 DEF RunCell, TypeInv
    <3> QED
      BY <1>1, <3>1, <3>2, CellAssumption DEF RunCell, OneRun
  <2>2. Len(log') = 0 /\ cur' = 1
    BY <1>1, <2>1 DEF RunCell
  <2>3. OneRun' /\ OwnersListed' /\ OwnersInOrder' /\ PlansLead' /\ EpisodesCount'
    BY <2>1, <2>2 DEF OneRun, OwnersListed, OwnersInOrder, PlansLead, EpisodesCount, OutcomeAt
  <2>4. PairsPlanned'
    BY <2>2 DEF PairsPlanned
  <2> QED
    BY <2>3, <2>4
<1>2. CASE EndEpisode
  <2>1. /\ UNCHANGED <<log, owner, pairs, runs>> /\ phase = "running" /\ phase' # "closed"
        /\ \/ cur' = cur /\ phase' # "planning"
           \/ cur' = cur + 1 /\ cur + 1 \in 1 .. Len(pairs)
    <3>1. cur \in 1 .. Len(pairs) /\ Len(pairs) \in Nat
      BY <1>2, PairIsPair DEF EndEpisode
    <3> QED
      BY <1>2, <3>1 DEF EndEpisode, MorePairs
  <2>2. cur \in 1 .. Len(pairs) /\ Len(pairs) \in Nat /\ IsInjective(pairs)
    BY <2>1, PairIsPair
  <2>3. OneRun' /\ OwnersInOrder' /\ EpisodesCount'
    BY <2>1 DEF OneRun, OwnersInOrder, EpisodesCount
  <2>4. OwnersListed'
    BY <2>1, <2>2 DEF OwnersListed
  <2>5. PairsPlanned'
    <3>1. PlanAt(log, pairs[cur]) # {}
      BY <2>1 DEF PlannedInv, Busy, HasPlan, Pair, Regimes
    <3> QED
      BY <2>1, <2>2, <3>1 DEF PairsPlanned
  <2>6. PlansLead'
    <3>1. ASSUME cur' = cur + 1, NEW j \in 1 .. Len(log)
          PROVE  owner[j] # pairs[cur + 1]
      <4>1. PICK k \in 1 .. cur : owner[j] = pairs[k]
        BY DEF OwnersListed
      <4> QED
        BY <2>1, <2>2, <3>1, <4>1 DEF IsInjective
    <3>2. \A j \in OutcomeAt(log) : j \in 1 .. Len(log)
      BY DEF OutcomeAt
    <3> QED
      BY <2>1, <3>1, <3>2 DEF PlansLead, Pair
  <2> QED
    BY <2>3, <2>4, <2>5, <2>6
<1>3. CASE UNCHANGED <<log, owner, pairs, cur, runs>> /\ (phase' = "planning" => phase = "planning")
           /\ (phase' = "closed" <=> phase = "closed")
  BY <1>3 DEF OneRun, OwnersListed, OwnersInOrder, PairsPlanned, PlansLead, EpisodesCount, Pair
<1>4. CASE log' # log \/ owner' # owner
  <2> DEFINE n == Len(log) + 1
  <2>1. /\ Len(log) \in Nat /\ Len(log') = n /\ 1 .. n = 1 .. Len(log) \cup {n}
        /\ \A i \in 1 .. Len(log) : log'[i] = log[i] /\ owner'[i] = owner[i]
        /\ owner'[n] = pairs[cur]
        /\ pairs' = pairs /\ cur' = cur /\ runs' = runs /\ Pair' = Pair
        /\ phase' # "closed" /\ phase \in {"planning", "running"}
        /\ phase' = "planning" => phase = "planning"
        /\ log'[n].tag = "STATE" => phase = "planning"
        /\ log'[n].tag # "STATE" => phase = "running"
        /\ log'[n].tag = "OBS" => log'[n].ep = episode
    BY <1>4, RecordAdded DEF Pair, Plan
  <2>2. cur \in 1 .. Len(pairs) /\ Len(pairs) \in Nat /\ IsInjective(pairs)
    BY <2>1, PairIsPair
  <2>3. /\ \A j \in 1 .. Len(log) : j \in OutcomeAt(log') <=> j \in OutcomeAt(log)
        /\ n \in OutcomeAt(log') => log'[n].tag # "STATE"
        /\ OutcomeAt(log') \subseteq 1 .. n /\ OutcomeAt(log) \subseteq 1 .. Len(log)
    <3> HIDE DEF n
    <3> QED
      BY <2>1 DEF OutcomeAt
  <2> HIDE DEF n
  <2>4. OneRun'
    BY <2>1 DEF OneRun
  <2>5. OwnersListed'
    BY <2>1, <2>2 DEF OwnersListed
  <2>6. OwnersInOrder'
    <3>1. ASSUME NEW i \in 1 .. n, NEW j \in 1 .. n, i <= j,
                 NEW k \in 1 .. Len(pairs), NEW l \in 1 .. Len(pairs),
                 owner'[i] = pairs[k], owner'[j] = pairs[l]
          PROVE  k <= l
      <4>1. CASE j \in 1 .. Len(log)
        <5>1. i \in 1 .. Len(log)
          BY <2>1, <3>1, <4>1
        <5> QED
          BY <2>1, <3>1, <4>1, <5>1 DEF OwnersInOrder
      <4>2. CASE j = n
        <5>1. l = cur
          BY <2>1, <2>2, <3>1, <4>2 DEF IsInjective
        <5>2. PICK m \in 1 .. cur : owner'[i] = pairs[m]
          BY <2>5, <2>1 DEF OwnersListed
        <5>3. m \in 1 .. Len(pairs) /\ m <= cur /\ pairs[m] = pairs[k]
          BY <2>2, <3>1, <5>2
        <5>4. m = k
          BY <2>2, <5>3 DEF IsInjective
        <5> QED
          BY <5>1, <5>3, <5>4
      <4> QED
        BY <2>1, <4>1, <4>2
    <3>2. Len(log') = n /\ pairs' = pairs
      BY <2>1
    <3> QED
      BY <3>1, <3>2 DEF OwnersInOrder
  <2>7. PairsPlanned'
    <3>1. \A p : PlanAt(log, p) # {} => PlanAt(log', p) # {}
      BY <2>1 DEF PlanAt
    <3> QED
      BY <2>1, <3>1 DEF PairsPlanned
  <2>8. PlansLead'
    <3>1. ASSUME NEW i \in 1 .. n, NEW j \in 1 .. n,
                 log'[i].tag = "STATE", j \in OutcomeAt(log'), owner'[i] = owner'[j]
          PROVE  i < j
      <4>1. CASE i \in 1 .. Len(log) /\ j \in 1 .. Len(log)
        BY <2>1, <2>3, <3>1, <4>1 DEF PlansLead
      <4>2. CASE i = n /\ j \in 1 .. Len(log)
        BY <2>1, <2>3, <3>1, <4>2 DEF PlansLead, Pair
      <4>3. CASE j = n
        BY <2>1, <2>3, <3>1, <4>3
      <4> QED
        BY <2>1, <4>1, <4>2, <4>3
    <3>2. ASSUME phase' = "planning", NEW j \in OutcomeAt(log')
          PROVE  owner'[j] # Pair'
      <4>1. j \in 1 .. Len(log)
        BY <2>1, <2>3, <3>2
      <4> QED
        BY <2>1, <2>3, <3>2, <4>1 DEF PlansLead
    <3> QED
      BY <2>1, <3>1, <3>2 DEF PlansLead
  <2>9. EpisodesCount'
    <3>1. ASSUME log'[n].tag = "OBS"
          PROVE  log'[n].ep \div 2 = cur - 1
      <4>1. episode = 2 * (cur - 1) \/ episode = 2 * (cur - 1) + 1
        BY <2>1, <2>2, <3>1 DEF PlaceInv, Busy, EpisodeOf
      <4>2. \A q \in Nat : (2 * q) \div 2 = q /\ (2 * q + 1) \div 2 = q
        BY SMTT(30)
      <4>3. cur - 1 \in Nat
        BY <2>2
      <4>4. episode \div 2 = cur - 1
        BY <4>1, <4>2, <4>3
      <4> QED
        BY <2>1, <3>1, <4>4
    <3> QED
      BY <2>1, <2>2, <3>1 DEF EpisodesCount
  <2> QED
    BY <2>4, <2>5, <2>6, <2>7, <2>8, <2>9
<1>5. CASE log' = log /\ owner' = owner /\ ~RunCell /\ ~EndEpisode
  <2>1. CASE CommitPlan
    <3>1. Len(log') = Len(log) + 1 /\ Len(log) \in Nat
      BY <2>1, Grown DEF CommitPlan, E!Appended, TypeInv
    <3> QED
      BY <1>5, <3>1
  <2>2. CASE PlanRaises \/ EnterEpisode \/ EpisodeStep \/ Abort \/ Kill \/ UNCHANGED vars
    <3>1. /\ UNCHANGED <<pairs, cur, runs>> /\ (phase' = "planning" => phase = "planning")
          /\ (phase' = "closed" <=> phase = "closed")
      BY <2>2 DEF PlanRaises, EnterEpisode, EpisodeStep, Abort, Kill, vars, cellVars
    <3> QED
      BY <1>3, <1>5, <3>1
  <2> QED
    BY <1>5, <2>1, <2>2 DEF Next
<1> QED
  BY <1>1, <1>2, <1>4, <1>5
-----------------------------------------------------------------------------
\* The seq of the first of the outcomes at the positions T, or None.
FirstOf(T) == IF T = {} THEN NoSeq ELSE Min(T)

OutcomesOf(lg, own, p) == {j \in OutcomeAt(lg) : own[j] = p}

LEMMA FirstIs ==
  FirstCallSeqIsFirst <=>
    \A k \in 1 .. Len(firstCall) :
      k < cur \/ phase = "finished" => firstCall[k] = FirstOf(OutcomesOf(log, owner, pairs[k]))
  BY DEF FirstCallSeqIsFirst, FirstOf, OutcomesOf

\* The first of all positions after one.
LEMMA FirstAfter ==
  ASSUME NEW n \in Nat, NEW b \in 0 .. n, NEW T, T = {j \in 1 .. n : j > b}
  PROVE  /\ b < n => FirstOf(T) = b + 1
         /\ b = n => FirstOf(T) = NoSeq
<1>1. CASE b < n
  <2>1. b + 1 \in T /\ T \in SUBSET Nat /\ \A j \in T : b + 1 <= j
    BY <1>1
  <2>2. Min(T) \in T /\ \A y \in T : Min(T) <= y
    BY <2>1, HasMin
  <2>3. Min(T) \in Nat /\ b + 1 <= Min(T) /\ Min(T) <= b + 1
    BY <2>1, <2>2
  <2> QED
    BY <1>1, <2>1, <2>3 DEF FirstOf
<1>2. CASE b = n
  BY <1>2 DEF FirstOf
<1> QED
  BY <1>1, <1>2

LEMMA FirstStep ==
  ASSUME MaxRuns <= 1, IInv, OnceInv, FirstInv, [Next]_vars
  PROVE  FirstInv'
<1> USE DEF IInv, OnceInv, FirstInv
<1>1. CASE RunCell
  <2>1. /\ phase' = "planning" /\ cur' = 1 /\ Len(pairs') \in Nat
        /\ firstCall' = [i \in 1 .. Len(pairs') |-> NoSeq]
        /\ 1 \in 1 .. Len(pairs')
    <3>1. phase' # "closed" /\ PlaceInv'
      BY <1>1, PlaceStep DEF RunCell
    <3>2. cur' \in 1 .. Len(pairs')
      BY <3>1 DEF PlaceInv
    <3>3. pairs' \in Seq(PairIds)
      BY <1>1, CellAssumption DEF RunCell
    <3> QED
      BY <1>1, <3>2, <3>3, LenProperties DEF RunCell
  <2>2. OutcomesStart' /\ NoneYet'
    BY <2>1 DEF OutcomesStart, NoneYet, Busy
  <2>3. FirstCallSeqIsFirst'
    BY <2>1 DEF FirstCallSeqIsFirst
  <2> QED
    BY <2>2, <2>3
<1>2. CASE EndEpisode
  <2>1. /\ UNCHANGED <<log, owner, pairs, before>> /\ phase = "running" /\ Busy
        /\ firstCall' = IF firstCall[cur] = NoSeq /\ Len(log) > before
                        THEN [firstCall EXCEPT ![cur] = before + 1] ELSE firstCall
        /\ \/ cur' = cur /\ phase' = "entering"
           \/ cur' = cur + 1 /\ cur < Len(pairs) /\ phase' = "planning"
           \/ cur' = cur /\ ~(cur < Len(pairs)) /\ phase' = "finished"
    BY <1>2 DEF EndEpisode, Busy, MorePairs, TypeInv, Regimes
  <2>2. /\ cur \in 1 .. Len(pairs) /\ Len(pairs) \in Nat /\ Len(log) \in Nat
        /\ before \in 0 .. Len(log)
        /\ firstCall \in Seq(0 .. Len(log)) /\ Len(firstCall) = Len(pairs)
    BY <2>1, PairIsPair, Grown DEF TypeInv
  <2>3. /\ firstCall[cur] \in {NoSeq, before + 1}
        /\ firstCall[cur] = before + 1 => before < Len(log)
    BY <2>1 DEF OutcomesStart
  <2>4. /\ Len(firstCall') = Len(pairs)
        /\ firstCall'[cur] = IF before < Len(log) THEN before + 1 ELSE NoSeq
        /\ \A k \in 1 .. Len(pairs) : k # cur => firstCall'[k] = firstCall[k]
    <3>1. CASE firstCall[cur] = NoSeq /\ Len(log) > before
      <4>1. firstCall' = [firstCall EXCEPT ![cur] = before + 1]
        BY <2>1, <3>1
      <4>2. before + 1 \in 0 .. Len(log)
        BY <2>2, <3>1
      <4> QED
        BY <2>2, <3>1, <4>1, <4>2, ExceptSeq
    <3>2. CASE firstCall[cur] = NoSeq /\ ~(Len(log) > before)
      BY <2>1, <2>2, <3>2
    <3>3. CASE firstCall[cur] # NoSeq
      BY <2>1, <2>2, <2>3, <3>3
    <3> QED
      BY <3>1, <3>2, <3>3
  <2>5. firstCall'[cur] = FirstOf(OutcomesOf(log, owner, pairs[cur]))
    <3>1. OutcomesOf(log, owner, pairs[cur]) = {j \in 1 .. Len(log) : j > before}
      BY <2>1 DEF OutcomesStart, OutcomesOf, OutcomeAt, Pair
    <3>2. before < Len(log) \/ before = Len(log)
      BY <2>2
    <3> QED
      BY <2>2, <2>4, <3>1, <3>2, FirstAfter
  <2>6. OutcomesStart'
    <3>1. CASE phase' = "entering"
      <4>1. \A j \in 1 .. Len(log') : j \in OutcomeAt(log') /\ owner'[j] = Pair' <=> j > before'
        BY <2>1, <3>1 DEF OutcomesStart, Pair
      <4>2. /\ firstCall'[cur'] \in {NoSeq, before' + 1}
            /\ firstCall'[cur'] = before' + 1 => before' < Len(log')
        BY <2>1, <2>2, <2>4, <3>1 DEF NoSeq
      <4> QED
        BY <4>1, <4>2 DEF OutcomesStart
    <3>2. CASE phase' # "entering"
      BY <2>1, <3>2 DEF OutcomesStart, Busy
    <3> QED
      BY <3>1, <3>2
  <2>7. NoneYet'
    BY <2>1, <2>2, <2>4 DEF NoneYet
  <2>8. FirstCallSeqIsFirst'
    <3>1. ASSUME NEW k \in 1 .. Len(pairs), k < cur' \/ phase' = "finished"
          PROVE  firstCall'[k] = FirstOf(OutcomesOf(log, owner, pairs[k]))
      <4>1. k < cur \/ k = cur
        BY <2>1, <2>2, <3>1
      <4>2. CASE k < cur
        BY <2>2, <2>4, <4>2, FirstIs
      <4> QED
        BY <2>5, <4>1, <4>2
    <3>2. \A k \in 1 .. Len(firstCall') :
            k < cur' \/ phase' = "finished"
              => firstCall'[k] = FirstOf(OutcomesOf(log', owner', pairs'[k]))
      BY <2>1, <2>4, <3>1
    <3> QED
      BY <3>2 DEF FirstCallSeqIsFirst, FirstOf, OutcomesOf
  <2> QED
    BY <2>6, <2>7, <2>8
<1>3. CASE log' # log \/ owner' # owner
  <2> DEFINE n == Len(log) + 1
  <2>1. /\ Len(log) \in Nat /\ Len(log') = n /\ 1 .. n = 1 .. Len(log) \cup {n}
        /\ \A i \in 1 .. Len(log) : log'[i] = log[i] /\ owner'[i] = owner[i]
        /\ owner'[n] = pairs[cur]
        /\ pairs' = pairs /\ cur' = cur /\ Pair' = Pair /\ firstCall' = firstCall
        /\ phase' # "finished" /\ phase # "closed"
        /\ \/ log'[n].tag = "STATE" /\ phase = "planning"
           \/ /\ phase = "running" /\ UNCHANGED <<phase, before>>
              /\ log'[n].tag \in {"OBS", "PROOF"}
    BY <1>3, RecordAdded DEF Pair, Plan
  <2>2. /\ cur \in 1 .. Len(pairs) /\ Len(pairs) \in Nat /\ IsInjective(pairs)
        /\ Len(firstCall) = Len(pairs) /\ before \in 0 .. Len(log)
    BY <2>1, PairIsPair DEF TypeInv
  <2>3. /\ \A j \in 1 .. Len(log) : j \in OutcomeAt(log') <=> j \in OutcomeAt(log)
        /\ n \in OutcomeAt(log') <=> log'[n].tag # "STATE"
        /\ OutcomeAt(log') \subseteq 1 .. n /\ OutcomeAt(log) \subseteq 1 .. Len(log)
    <3> HIDE DEF n
    <3> QED
      BY <2>1 DEF OutcomeAt
  <2>4. n \in Nat /\ n > Len(log)
    BY <2>1
  <2> HIDE DEF n
  <2>5. OutcomesStart'
    <3>1. CASE phase = "running"
      <4>1. Busy /\ before' = before
        BY <2>1, <3>1 DEF Busy
      <4>2. ASSUME NEW j \in 1 .. n
            PROVE  j \in OutcomeAt(log') /\ owner'[j] = Pair' <=> j > before
        <5>1. CASE j \in 1 .. Len(log)
          BY <2>1, <2>3, <4>1, <5>1 DEF OutcomesStart
        <5>2. CASE j = n
          BY <2>1, <2>2, <2>3, <2>4, <3>1, <5>2 DEF Pair
        <5> QED
          BY <2>1, <5>1, <5>2
      <4>3. /\ firstCall[cur] \in {NoSeq, before + 1}
            /\ firstCall[cur] = before + 1 => before < n
        BY <2>1, <2>2, <2>4, <4>1 DEF OutcomesStart
      <4> QED
        BY <2>1, <4>1, <4>2, <4>3 DEF OutcomesStart
    <3>2. CASE phase = "planning" /\ Busy'
      <4>1. before' = n
        <5>1. CommitPlan
          BY <2>1, <3>2 DEF Next, RunCell, PlanRaises, EnterEpisode, EpisodeStep, EndEpisode,
             Abort, Kill, vars, cellVars, Busy
        <5> QED
          BY <2>1, <3>2, <5>1 DEF CommitPlan, SeqBeforeCalls, Busy
      <4>2. ASSUME NEW j \in 1 .. n
            PROVE  j \in OutcomeAt(log') /\ owner'[j] = Pair' <=> j > n
        <5>1. CASE j \in 1 .. Len(log)
          <6>1. ~(j > n)
            BY <2>1, <2>4, <5>1
          <6>2. j \in OutcomeAt(log) => owner[j] # Pair
            BY <3>2 DEF PlansLead
          <6> QED
            BY <2>1, <2>3, <5>1, <6>1, <6>2
        <5>2. CASE j = n
          <6>1. ~(j > n) /\ j \notin OutcomeAt(log')
            BY <2>1, <2>3, <2>4, <3>2, <5>2
          <6> QED
            BY <6>1
        <5> QED
          BY <2>1, <5>1, <5>2
      <4>3. firstCall[cur] = NoSeq /\ NoSeq # n + 1
        BY <2>4, <3>2 DEF NoneYet, NoSeq
      <4> QED
        BY <2>1, <4>1, <4>2, <4>3 DEF OutcomesStart
    <3>3. CASE ~Busy'
      BY <3>3 DEF OutcomesStart
    <3> QED
      BY <2>1, <3>1, <3>2, <3>3
  <2>6. NoneYet'
    <3>1. phase # "finished" /\ (phase' = "planning" => phase = "planning")
      BY <2>1
    <3> QED
      BY <2>1, <3>1 DEF NoneYet
  <2>7. FirstCallSeqIsFirst'
    <3>1. ASSUME NEW k \in 1 .. Len(pairs), k < cur
          PROVE  firstCall[k] = FirstOf(OutcomesOf(log', owner', pairs[k]))
      <4>1. owner'[n] # pairs[k]
        BY <2>1, <2>2, <3>1 DEF IsInjective
      <4>2. OutcomesOf(log', owner', pairs[k]) = OutcomesOf(log, owner, pairs[k])
        <5>1. ASSUME NEW j PROVE j \in OutcomesOf(log', owner', pairs[k])
                                   <=> j \in OutcomesOf(log, owner, pairs[k])
          <6>1. CASE j \in 1 .. Len(log)
            BY <2>1, <2>3, <6>1 DEF OutcomesOf
          <6>2. CASE j \notin 1 .. Len(log)
            BY <2>1, <2>3, <4>1, <6>2 DEF OutcomesOf
          <6> QED
            BY <6>1, <6>2
        <5> QED
          BY <5>1
      <4> QED
        BY <2>2, <3>1, <4>2, FirstIs
    <3>2. \A k \in 1 .. Len(firstCall') :
            k < cur' \/ phase' = "finished"
              => firstCall'[k] = FirstOf(OutcomesOf(log', owner', pairs'[k]))
      BY <2>1, <2>2, <3>1
    <3> QED
      BY <3>2 DEF FirstCallSeqIsFirst, FirstOf, OutcomesOf
  <2> QED
    BY <2>5, <2>6, <2>7
<1>4. CASE log' = log /\ owner' = owner /\ ~RunCell /\ ~EndEpisode
  <2>1. ~CommitPlan
    <3>1. CommitPlan => Len(log') = Len(log) + 1 /\ Len(log) \in Nat
      BY Grown DEF CommitPlan, E!Appended, TypeInv
    <3> QED
      BY <1>4, <3>1
  <2>2. /\ UNCHANGED <<pairs, cur, firstCall, before>>
        /\ phase' = "planning" => phase = "planning"
        /\ phase' = "finished" <=> phase = "finished"
        /\ Busy' => Busy
    BY <1>4, <2>1 DEF Next, PlanRaises, EnterEpisode, EpisodeStep, Abort, Kill, vars,
       cellVars, Busy
  <2>3. OutcomesStart'
    BY <1>4, <2>2 DEF OutcomesStart, Pair
  <2>4. NoneYet' /\ FirstCallSeqIsFirst'
    BY <1>4, <2>2 DEF NoneYet, FirstCallSeqIsFirst
  <2> QED
    BY <2>3, <2>4
<1> QED
  BY <1>1, <1>2, <1>3, <1>4
-----------------------------------------------------------------------------
\* The pairs with a record on the chain are those with a plan record.
LEMMA OwnersArePlanned ==
  ASSUME IInv
  PROVE  PlanPairs(log) = ToSet(owner)
<1> USE DEF IInv
<1>1. Len(owner) = Len(log) /\ \A i \in 1 .. Len(log) : log[i].tag = "STATE" => log[i].pair = owner[i]
  BY DEF TypeInv, PlansTrue
<1>2. ASSUME NEW p \in PlanPairs(log)
      PROVE  p \in ToSet(owner)
  BY <1>1 DEF PlanPairs, ToSet
<1>3. ASSUME NEW j \in 1 .. Len(log)
      PROVE  owner[j] \in PlanPairs(log)
  <2>1. CASE log[j].tag = "STATE"
    BY <1>1, <2>1 DEF PlanPairs
  <2>2. CASE log[j].tag # "STATE"
    <3>1. j \in OutcomeAt(log)
      BY <2>2 DEF PlansTrue, OutcomeAt
    <3>2. PlanAt(log, owner[j]) # {}
      BY <3>1, PlanBeforeIs DEF PlannedInv, Regimes
    <3> QED
      BY <3>2, PlanPairsAt
  <2> QED
    BY <2>1, <2>2
<1> QED
  BY <1>1, <1>2, <1>3 DEF ToSet

\* pair_order is the list of pairs, as far as the cell got.
LEMMA PlannedInOrder ==
  ASSUME IInv, OnceInv
  PROVE  \E n \in Nat : n <= Len(pairs) /\ PlannedAs(log, pairs, n)
<1> USE DEF IInv, OnceInv
<1>1. CASE phase = "closed"
  <2>1. Len(log) = 0 /\ Len(pairs) = 0
    BY <1>1, EmptySeq DEF OneRun, PlaceInv
  <2>2. PlanPairs(log) = {}
    BY <2>1 DEF PlanPairs
  <2>3. PlannedAs(log, pairs, 0)
    BY <2>2 DEF PlannedAs
  <2> QED
    BY <2>1, <2>3
<1>2. CASE phase # "closed"
  <2>1. /\ cur \in 1 .. Len(pairs) /\ Len(pairs) \in Nat /\ Len(log) \in Nat
        /\ \A i, j \in 1 .. Len(pairs) : pairs[i] = pairs[j] => i = j
    <3>1. Len(log) \in Nat
      BY Grown DEF TypeInv
    <3>2. \A i, j \in 1 .. Len(pairs) : pairs[i] = pairs[j] => i = j
      BY <1>2, PairIsPair DEF IsInjective
    <3> QED
      BY <1>2, <3>1, <3>2, PairIsPair
  <2>2. PICK n \in {cur - 1, cur} : PlanAt(log, pairs[cur]) # {} <=> n = cur
    BY <2>1
  <2>3. n \in Nat /\ n <= Len(pairs) /\ \A i \in 1 .. n : i \in 1 .. Len(pairs) /\ i <= cur
    BY <2>1
  <2>4. PlanPairs(log) = {pairs[i] : i \in 1 .. n}
    <3>1. ASSUME NEW p \in PlanPairs(log)
          PROVE  \E i \in 1 .. n : p = pairs[i]
      <4>1. PICK j \in 1 .. Len(log) : p = owner[j]
        BY OwnersArePlanned DEF ToSet, TypeInv
      <4>2. PICK k \in 1 .. cur : p = pairs[k]
        BY <4>1 DEF OwnersListed
      <4>3. PlanAt(log, p) # {}
        BY PlanPairsAt
      <4>4. k = cur => n = cur
        BY <2>2, <4>2, <4>3
      <4>5. k \in 1 .. n
        BY <2>1, <2>2, <4>2, <4>4
      <4> QED
        BY <4>2, <4>5
    <3>2. ASSUME NEW i \in 1 .. n
          PROVE  pairs[i] \in PlanPairs(log)
      <4>1. PlanAt(log, pairs[i]) # {}
        <5>1. CASE i < cur
          BY <2>3, <5>1 DEF PairsPlanned
        <5>2. CASE i = cur
          BY <2>1, <2>2, <2>3, <5>2
        <5> QED
          BY <2>1, <2>3, <5>1, <5>2
      <4> QED
        BY <4>1, PlanPairsAt
    <3> QED
      BY <3>1, <3>2
  <2>5. ASSUME NEW i \in 1 .. n, NEW j \in 1 .. n, i < j
        PROVE  PlanFirst(log, pairs[i]) < PlanFirst(log, pairs[j])
    <3> DEFINE a == PlanFirst(log, pairs[i])
               b == PlanFirst(log, pairs[j])
    <3>1. a \in PlanAt(log, pairs[i]) /\ b \in PlanAt(log, pairs[j])
      <4>1. PlanAt(log, pairs[i]) # {} /\ PlanAt(log, pairs[j]) # {}
        BY <2>4, PlanPairsAt
      <4> QED
        BY <2>1, <4>1, PlanBounds
    <3> HIDE DEF a, b
    <3>2. /\ a \in 1 .. Len(log) /\ b \in 1 .. Len(log)
          /\ owner[a] = pairs[i] /\ owner[b] = pairs[j]
      BY <3>1 DEF PlanAt, PlansTrue
    <3>3. b <= a => j <= i
      BY <2>3, <3>2 DEF OwnersInOrder
    <3>4. a < b
      BY <2>1, <2>3, <2>5, <3>2, <3>3
    <3> QED
      BY <3>4 DEF a, b
  <2>6. PlannedAs(log, pairs, n)
    BY <2>1, <2>3, <2>4, <2>5 DEF PlannedAs
  <2> QED
    BY <2>3, <2>6
<1> QED
  BY <1>1, <1>2

\* cell_replay_verify counts the pairs planned.
LEMMA VerifierCounts ==
  ASSUME IInv, OnceInv
  PROVE  Verify(log) = Cardinality(ToSet(owner))
<1> USE DEF IInv, OnceInv
<1>1. Len(log) \in Nat /\ Len(owner) = Len(log)
  BY Grown DEF TypeInv
<1>2. PICK n \in Nat : n <= Len(pairs) /\ PlannedAs(log, pairs, n)
  BY PlannedInOrder
<1>3. /\ Len(pairs) \in Nat
      /\ \A i, j \in 1 .. Len(pairs) : pairs[i] = pairs[j] => i = j
  <2>1. CASE phase = "closed"
    BY <2>1, EmptySeq DEF PlaceInv
  <2>2. CASE phase # "closed"
    BY <2>2, PairIsPair DEF IsInjective
  <2> QED
    BY <2>1, <2>2
<1>4. \A i \in 1 .. n : i \in 1 .. Len(pairs)
  BY <1>2, <1>3
<1>5. ASSUME NEW j \in 1 .. Len(log)
      PROVE  \E k \in 1 .. n : owner[j] = pairs[k]
  <2>1. owner[j] \in PlanPairs(log)
    BY <1>1, OwnersArePlanned DEF ToSet
  <2> QED
    BY <1>2, <2>1 DEF PlannedAs
<1>6. ASSUME NEW k \in 1 .. n, NEW i \in PlanAt(log, pairs[k])
      PROVE  i \in 1 .. Len(log) /\ log[i].tag = "STATE" /\ owner[i] = pairs[k]
  BY DEF PlanAt, PlansTrue
<1>7. LiveAccepts(log)
  <2>1. ASSUME NEW e \in ObsEpisodes(log)
        PROVE  \E k \in 1 .. n :
                 /\ k - 1 = e \div 2
                 /\ \A i \in PlanAt(log, pairs[k]), j \in ObsAt(log, e) : i < j
    <3>1. PICK m \in ObsAt(log, e) : TRUE
      BY PlanPairsAt
    <3>2. ASSUME NEW j \in ObsAt(log, e)
          PROVE  \E k \in 1 .. Len(pairs) : owner[j] = pairs[k] /\ e \div 2 = k - 1
      BY DEF ObsAt, EpisodesCount
    <3>3. PICK k \in 1 .. Len(pairs) : owner[m] = pairs[k] /\ e \div 2 = k - 1
      BY <3>1, <3>2
    <3>4. k \in 1 .. n
      <4>1. PICK l \in 1 .. n : owner[m] = pairs[l]
        BY <1>5, <3>1 DEF ObsAt
      <4> QED
        BY <1>3, <1>4, <3>3, <4>1
    <3>5. ASSUME NEW i \in PlanAt(log, pairs[k]), NEW j \in ObsAt(log, e)
          PROVE  i < j
      <4>1. PICK l \in 1 .. Len(pairs) : owner[j] = pairs[l] /\ e \div 2 = l - 1
        BY <3>2
      <4>2. l = k
        BY <1>3, <3>3, <4>1
      <4>3. j \in 1 .. Len(log) /\ j \in OutcomeAt(log)
        BY DEF ObsAt, OutcomeAt
      <4>4. i \in 1 .. Len(log) /\ log[i].tag = "STATE" /\ owner[i] = owner[j]
        BY <1>6, <3>4, <4>1, <4>2
      <4> QED
        BY <4>3, <4>4 DEF PlansLead
    <3> QED
      BY <3>3, <3>4, <3>5
  <2> QED
    BY <1>1, <1>2, <2>1, LiveAcceptsWhen
<1>8. ScriptedAccepts(log)
  <2>1. ASSUME OutcomeAt(log) # {}
        PROVE  n > 0 /\ \A i \in PlanAt(log, pairs[1]), j \in OutcomeAt(log) : i < j
    <3>1. n > 0
      <4>1. PICK m \in OutcomeAt(log) : TRUE
        BY <2>1
      <4>2. PICK k \in 1 .. n : owner[m] = pairs[k]
        BY <1>5, <4>1 DEF OutcomeAt
      <4> QED
        BY <4>2
    <3>2. ASSUME NEW i \in PlanAt(log, pairs[1]), NEW j \in OutcomeAt(log)
          PROVE  i < j
      <4>1. 1 \in 1 .. n /\ 1 \in 1 .. Len(pairs)
        BY <1>4, <3>1
      <4>2. i \in 1 .. Len(log) /\ log[i].tag = "STATE" /\ owner[i] = pairs[1]
        BY <1>6, <4>1
      <4>3. j \in 1 .. Len(log)
        BY DEF OutcomeAt
      <4>4. PICK k \in 1 .. n : owner[j] = pairs[k]
        BY <1>5, <4>3
      <4>5. CASE k = 1
        BY <4>2, <4>3, <4>4, <4>5 DEF PlansLead
      <4>6. CASE k # 1
        <5>1. j <= i => k <= 1
          BY <1>4, <4>1, <4>2, <4>3, <4>4 DEF OwnersInOrder
        <5> QED
          BY <1>1, <4>2, <4>3, <4>6, <5>1
      <4> QED
        BY <4>5, <4>6
    <3> QED
      BY <3>1, <3>2
  <2> QED
    BY <1>1, <1>2, <2>1, ScriptedAcceptsWhen
<1> QED
  BY <1>7, <1>8, OwnersArePlanned DEF Verify

\* An empty chain is in order.
LEMMA OnceInit ==
  ASSUME Init
  PROVE  OnceInv /\ FirstInv
<1>1. /\ log = <<>> /\ Len(log) = 0 /\ phase = "closed" /\ firstCall = <<>>
      /\ pairs = <<>> /\ Len(pairs) = 0 /\ Len(firstCall) = 0
  BY EmptySeq DEF Init, E!Init
<1>2. OnceInv
  BY <1>1 DEF OnceInv, OneRun, OwnersListed, OwnersInOrder, PairsPlanned, PlansLead,
     EpisodesCount
<1>3. FirstInv
  BY <1>1 DEF FirstInv, OutcomesStart, NoneYet, FirstCallSeqIsFirst, Busy
<1> QED
  BY <1>2, <1>3

LEMMA OnceAlways ==
  ASSUME MaxRuns <= 1
  PROVE  Spec => []OnceIInv
<1>1. Init => OnceIInv
  BY InitInv, OnceInit DEF OnceIInv
<1>2. OnceIInv /\ [Next]_vars => OnceIInv'
  BY Inductive, OnceStep, FirstStep DEF OnceIInv
<1> QED
  BY <1>1, <1>2, PTL DEF Spec

\* Whatever a cell got to before it ended or died, cell_replay_verify accepts
\* its chain and counts the pairs planned: for one call of run_cell on a chain,
\* any list of pairs, live and scripted adapters, in every interleaving.
THEOREM VerifierCorrect ==
  ASSUME MaxRuns <= 1
  PROVE  Spec => []VerifierAccepts
<1>1. OnceIInv => VerifierAccepts
  BY VerifierCounts DEF OnceIInv, VerifierAccepts
<1> QED
  BY <1>1, OnceAlways, PTL

\* first_call_seq of a finished pair is where its outcomes start on the chain,
\* for one call of run_cell on a chain.
THEOREM FirstCorrect ==
  ASSUME MaxRuns <= 1
  PROVE  Spec => []FirstCallSeqIsFirst
<1>1. OnceIInv => FirstCallSeqIsFirst
  BY DEF OnceIInv, FirstInv
<1> QED
  BY <1>1, OnceAlways, PTL
=============================================================================
