------------------------------ MODULE MCTrials ------------------------------
EXTENDS Trials

AllCalls == {"predicate_0", "predicate_1", "other"}
BothPredicates == {"predicate_0", "predicate_1"}

Says(what, hits, words, len) == [what |-> what, hits |-> hits, words |-> words, len |-> len]

\* No hit; one hit; one hit, longer.
Plain == Says("plain", 0, 1, 4)
Hedge == Says("hedge", 1, 2, 6)
LongHedge == Says("long_hedge", 1, 2, 8)

SixDecisions ==
  [text : {Plain, Hedge, LongHedge}, call : {"other"}]
    \cup [text : {Plain, Hedge}, call : {"predicate_0"}]
    \cup [text : {Plain}, call : {"predicate_1"}]

CallBodies == [c \in AllCalls |-> Says(c, 0, 2, 5)]

\* The signs of proving_defaults.
ProvingDefaults == {[r \in Rungs |-> TRUE]}

\* A twin shares its failure channel: a failure in the first slot under both
\* regimes.  What differs between its episodes is the E2 padding, and in the
\* model's trials what the agent does.
OneTwin == {[r \in Regimes |-> [s \in 0 .. Slots - 1 |-> s = 0]]}
=============================================================================
