---------------------------- MODULE ServeMapping ----------------------------
(***************************************************************************)
(* The serve mapping of an episode: what the environment answers to each   *)
(* call of a stream.  The mapping is a C function of the rig library       *)
(* (x_serve_stream), bound in runner/serve.py; it is modelled from how     *)
(* runner/serve.py, runner/agent_loop.py and the tests use it.  Calls of   *)
(* the predicate set are immune; every other call is an eligible arrival   *)
(* and consumes the next slot of the schedule.                             *)
(***************************************************************************)
EXTENDS Integers, Sequences, FiniteSets

CONSTANTS
  Calls,        \* (verb, target) pairs a model may emit
  Predicates,   \* the resolved predicate calls of the episode's template
  Slots         \* X_SLOTS, the slots of a schedule

ASSUME ServeAssumption ==
  /\ Predicates \subseteq Calls
  /\ Slots \in Nat

\* Which slots of a schedule carry a failure.
Schedules == [0 .. Slots - 1 -> BOOLEAN]

NoSlot == -1    \* X_ELIGIBLE_NONE

Events == [call : Calls, pred : BOOLEAN, elig : {NoSlot} \cup Nat, fail : BOOLEAN]

\* How many calls before the i-th were eligible arrivals.
EligibleBefore(calls, i) ==
  Cardinality({j \in 1 .. i - 1 : calls[j] \notin Predicates})

ServeEvent(sched, calls, i) ==
  LET pred == calls[i] \in Predicates
      elig == EligibleBefore(calls, i)
  IN  [call |-> calls[i],
       pred |-> pred,
       elig |-> IF pred THEN NoSlot ELSE elig,
       fail |-> ~pred /\ elig < Slots /\ sched[elig]]

\* serve_stream: one event per call.
ServeStream(sched, calls) ==
  [i \in 1 .. Len(calls) |-> ServeEvent(sched, calls, i)]

\* immunity_check: no failure on a predicate call, no call misclassified.
Immune(events) ==
  \A i \in 1 .. Len(events) :
    /\ events[i].pred <=> events[i].call \in Predicates
    /\ ~(events[i].pred /\ events[i].fail)
=============================================================================
