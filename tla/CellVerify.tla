----------------------------- MODULE CellVerify -----------------------------
(***************************************************************************)
(* cell_replay_verify of runner/cell.py as an operator on the records of a *)
(* chain, and what it is meant to establish.  Records are those of Episode *)
(* and Cell: STATE records carry a pair and a regime, OBS records an       *)
(* episode id, PROOF records neither.                                      *)
(***************************************************************************)
EXTENDS Integers, Sequences, SequencesExt

Regimes == {"PROD", "EVAL"}

\* Positions of the records of a kind.
PlanAt(log, p) == {i \in 1 .. Len(log) : log[i].tag = "STATE" /\ log[i].pair = p}
ObsAt(log, e) == {i \in 1 .. Len(log) : log[i].tag = "OBS" /\ log[i].ep = e}
OutcomeAt(log) == {i \in 1 .. Len(log) : log[i].tag \in {"OBS", "PROOF"}}

PlanPairs(log) == {log[i].pair : i \in {j \in 1 .. Len(log) : log[j].tag = "STATE"}}
ObsEpisodes(log) == {log[i].ep : i \in {j \in 1 .. Len(log) : log[j].tag = "OBS"}}

\* plan_first_seq, plan_last_seq, obs_first_seq, global_first_outcome.
PlanFirst(log, p) == Min(PlanAt(log, p))
PlanAny(log, p) == Min(PlanAt(log, p))   \* faulty variant of PlanLast
PlanLast(log, p) == Max(PlanAt(log, p))
ObsFirst(log, e) == Min(ObsAt(log, e))
FirstOutcome(log) == Min(OutcomeAt(log))

\* The index of a pair in pair_order, the pairs in the order their plans appear.
PairIndex(log, p) ==
  Cardinality({q \in PlanPairs(log) : PlanFirst(log, q) < PlanFirst(log, p)})

\* Faulty variant of LiveAccepts: the plans of all pairs before any call.
AllPlansFirst(log) ==
  \A p \in PlanPairs(log) : PlanLast(log, p) < FirstOutcome(log)

\* Live form: each episode's first oracle record against the pair its id
\* stands for.
LiveAccepts(log) ==
  \A e \in ObsEpisodes(log) :
    \E p \in PlanPairs(log) :
      PairIndex(log, p) = e \div 2 /\ PlanLast(log, p) < ObsFirst(log, e)

\* Scripted form: the first pair's plan against the first outcome; for any
\* other pair the assertion's second disjunct holds.  A chain with outcomes
\* and no plan raises too, when pair_order is indexed.
ScriptedAccepts(log) ==
  OutcomeAt(log) # {} =>
    /\ \A p \in PlanPairs(log) :
         \/ PlanFirst(log, p) < FirstOutcome(log)
         \/ PairIndex(log, p) # 0
         \/ PlanLast(log, p) < FirstOutcome(log)
    /\ \E p \in PlanPairs(log) :
         PairIndex(log, p) = 0 /\ PlanLast(log, p) < FirstOutcome(log)

Raised == -1

\* The return value: the number of pairs, or an exception.
Verify(log) ==
  IF IF ObsEpisodes(log) # {} THEN LiveAccepts(log) ELSE ScriptedAccepts(log)
  THEN Cardinality(PlanPairs(log))
  ELSE Raised
-----------------------------------------------------------------------------
\* "both schedule plan records appear strictly before that pair's first
\* outcome record", with owner[i] the pair whose run wrote record i.
PlannedFirst(log, owner, p) ==
  \A j \in OutcomeAt(log) : owner[j] = p =>
    \A r \in Regimes : \E i \in PlanAt(log, p) : i < j /\ log[i].regime = r

PlanBefore(log, owner) ==
  \A j \in OutcomeAt(log) : PlannedFirst(log, owner, owner[j])
=============================================================================
