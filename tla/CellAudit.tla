----------------------------- MODULE CellAudit -----------------------------
(***************************************************************************)
(* Chains cell_replay_verify may be given: those of run_cell and those of  *)
(* a driver that commits its plans too late, not at all, or half.  The     *)
(* chain grows by one entry of the input at a time, so that every prefix   *)
(* is an input; owner says which pair's run wrote each record.             *)
(***************************************************************************)
EXTENDS CellVerify

CONSTANTS
  PairIds,      \* pair ids
  PairSeq,      \* the pairs of the cell, in the order their plans start
  PlanGroups,   \* the regimes whose plan records are written together
  Outcomes,     \* kinds of outcome records: {"OBS"}, {"PROOF"} or both
  MaxRecords    \* bound of the model: records of a chain

ASSUME AuditAssumption ==
  /\ PairSeq \in Seq(PairIds) /\ IsInjective(PairSeq)
  /\ PlanGroups \subseteq Seq(Regimes)
  /\ \A g \in PlanGroups : IsInjective(g)
  /\ Outcomes \subseteq {"OBS", "PROOF"}
  /\ MaxRecords \in Nat

VARIABLES log, owner
vars == <<log, owner>>

Init == log = <<>> /\ owner = <<>>

\* read_frames yields the records of a file that grew by recs, written by p.
Grow(p, recs) ==
  /\ Len(log) + Len(recs) <= MaxRecords
  /\ log' = log \o recs
  /\ owner' = owner \o [i \in 1 .. Len(recs) |-> p]

\* Plan records of a pair, each regime once; pairs start in their order.
AddPlan ==
  \E k \in 1 .. Len(PairSeq), g \in PlanGroups :
    LET p == PairSeq[k] IN
      /\ k > 1 => PairSeq[k - 1] \in PlanPairs(log)
      /\ \A i \in PlanAt(log, p) : log[i].regime \notin ToSet(g)
      /\ Grow(p, [i \in 1 .. Len(g) |-> [tag |-> "STATE", pair |-> p, regime |-> g[i]]])

\* An oracle record: episode ids count two per pair.
AddObs ==
  /\ "OBS" \in Outcomes
  /\ \E e \in 0 .. 2 * Len(PairSeq) - 1 :
       Grow(PairSeq[e \div 2 + 1], <<[tag |-> "OBS", ep |-> e]>>)

\* A serve event, which carries no pair.
AddProof ==
  /\ "PROOF" \in Outcomes
  /\ \E p \in ToSet(PairSeq) : Grow(p, <<[tag |-> "PROOF"]>>)

Next == AddPlan \/ AddObs \/ AddProof

Spec == Init /\ [][Next]_vars
-----------------------------------------------------------------------------
\* What a live chain that is accepted guarantees: every pair with an oracle
\* record has a plan record before it, and none after it (cell.py:249-252).
\* It does not say that both regimes have one: a pair with the plan record of
\* one regime only is accepted, see VerifiedIsPlanned.
AcceptedHasNoLatePlan ==
  ObsEpisodes(log) # {} /\ Verify(log) # Raised =>
    \A j \in 1 .. Len(log) : log[j].tag = "OBS" =>
      /\ \E i \in PlanAt(log, owner[j]) : i < j
      /\ \A i \in PlanAt(log, owner[j]) : i < j

\* A live chain that keeps the plan-before ordering is never refused, wherever
\* the serve events of its pairs are and however many episodes it lacks.
PlannedIsAccepted ==
  ObsEpisodes(log) # {} /\ PlanBefore(log, owner) => Verify(log) # Raised

\* "Raises AssertionError on any violation" (cell.py:210) of "for every pair,
\* both schedule plan records appear strictly before that pair's first outcome
\* record" (:194-197), as far as the records themselves show it: on a chain that
\* is accepted, the pair an oracle record is counted to (by its episode id, as
\* the verifier does) has a plan record of each regime before it.
VerifiedIsPlanned ==
  Verify(log) # Raised =>
    \A j \in 1 .. Len(log) : log[j].tag = "OBS" =>
      \E p \in PlanPairs(log) :
        /\ PairIndex(log, p) = log[j].ep \div 2
        /\ \A r \in Regimes : \E i \in PlanAt(log, p) : i < j /\ log[i].regime = r
=============================================================================
